----------------------------- MODULE MCSessions -----------------------------
(* Instances of Sessions for TLC. *)
EXTENDS Sessions

Auth(g) == [op |-> "auth", user |-> "u", gen |-> g]
Hello(u) == [op |-> "hello", user |-> u, gen |-> 1]
Ping == [op |-> "ping"]
Deluser == [op |-> "deluser", user |-> "u"]
Setuser(on) == [op |-> "setuser", user |-> "u", on |-> on]
Wait(t) == [op |-> "wait", num |-> 1, tmo |-> t]
OnChannel(op) == [op |-> op, ch |-> "c"]

LoginMenu == {Auth(1), Auth(2), Setuser(TRUE), Deluser}
HelloMenu == {Auth(1), Hello("u"), Hello("none"), Setuser(FALSE), Ping}
WaitMenu == {[op |-> "write"], Wait(0), Wait(1), Ping}
PubSubMenu == {OnChannel("subscribe"), OnChannel("unsubscribe"), OnChannel("publish"), Hello("none")}

MCMenus == {LoginMenu, HelloMenu, WaitMenu, PubSubMenu}
AckMenus == {{Wait(1), [op |-> "write"], [op |-> "replconf ack"]}}
=============================================================================
