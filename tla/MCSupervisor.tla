---------------------------- MODULE MCSupervisor ----------------------------
(***************************************************************************)
(* Small instances of Supervisor: the profiles its runs connect with.      *)
(***************************************************************************)
EXTENDS Supervisor

Plain == [DefaultProfile EXCEPT !.auto_reconnect = TRUE, !.system_proxy = TRUE]
Kill == [Plain EXCEPT !.kill_switch = TRUE]
Once == [Kill EXCEPT !.auto_reconnect = FALSE]
AppShared == [Plain EXCEPT !.system_proxy = FALSE, !.chain = TRUE, !.lan_share = TRUE]

Unrouted == {AppShared}
KillOrOnce == {Kill, Once}
KillOnly == {Kill}
=============================================================================
