-------------------------- MODULE MCInitActionQueue --------------------------
(* The boot queue in small: "init" sets a property that another action     *)
(* waits for and triggers the event "fs"; "ps" starts the property         *)
(* service, "trig" enables the property triggers.  "p1", "pany" and "q1"   *)
(* have property triggers, and "p1" sets the property "q1" waits for.      *)
EXTENDS InitActionQueue

List == <<"init", "p1", "fs", "pany", "boot", "q1", "ps", "trig">>
AllActions == {List[i] : i \in 1 .. Len(List)}
BootQueue == <<"init", "ps", "boot", "trig">>

Setprop(n, v) == [op |-> "setprop", name |-> n, value |-> v]
Other == [op |-> "other"]

CommandsOf ==
    [init |-> <<Setprop("r", "2"), [op |-> "trigger", name |-> "fs"]>>,
     fs   |-> <<Other>>,
     ps   |-> <<[op |-> "start_property_service"]>>,
     boot |-> <<>>,
     trig |-> <<[op |-> "queue_property_triggers"]>>,
     p1   |-> <<Other, Setprop("q", "1")>>,
     pany |-> <<Setprop("r", "1")>>,
     q1   |-> <<Other>>]

On(n, v) == [prop |-> n, value |-> v]
TriggerOf ==
    [init |-> On("", "init"), fs |-> On("", "fs"), ps |-> On("", "ps"),
     boot |-> On("", "boot"), trig |-> On("", "trig"),
     p1 |-> On("p", "1"), pany |-> On("p", "*"), q1 |-> On("q", "1")]
=============================================================================
