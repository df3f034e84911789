--------------------------- MODULE InitActionQueue ---------------------------
(***************************************************************************)
(* The action queue of init and the triggers that fill it: action_list and *)
(* action_queue of init_parser.c, execute_one_command, property_changed    *)
(* and the boot queue of main in init.c, the commands setprop and trigger  *)
(* of builtins.c.                                                          *)
(*                                                                         *)
(* main queues the boot actions, then executes one command per iteration   *)
(* of its loop; between two commands a client of the property service may  *)
(* set a property.  One of the boot actions starts that service, a later   *)
(* one queues the actions whose property trigger holds at that moment and  *)
(* enables the triggers for all later changes.                             *)
(***************************************************************************)
EXTENDS IntrusiveList, SequencesExt

CONSTANTS
    ActionList,  \* action_list: the actions in the order they were parsed
    Trigger,     \* the trigger of each action: a property and its value, or
                 \* property "" and the name of an event
    Commands,    \* the commands of each action
    Boot,        \* the actions main queues, in this order
    Names,       \* the properties
    Values,      \* their values
    ReadOnly,    \* the properties whose name starts with "ro."
    MaxSets      \* bound: messages of clients

Unset == "unset"
Star == "*"

VARIABLES
    action_queue,  \* the list
    cur_action,    \* the action being executed, or Null
    cur_command,   \* index of the command executed last, 0 for NULL
    props,         \* the properties
    property_triggers_enabled,
    listening,     \* the property service has been started
    pc,            \* "exec" before execute_one_command, "poll" after it
    sets,          \* messages of clients so far
    ran            \* how often each action was dequeued, counted up to 2

vars == <<action_queue, cur_action, cur_command, props, property_triggers_enabled,
          listening, pc, sets, ran>>

(* The type invariant: no null pointer is ever followed.                   *)
TypeOK ==
    /\ action_queue \in ListType
    /\ cur_action \in Items \cup {Null}
    /\ cur_action # Null => cur_command \in 0 .. Len(Commands[cur_action])
    /\ cur_action = Null => cur_command = 0
    /\ props \in [Names -> Values \cup {Unset}]
    /\ property_triggers_enabled \in BOOLEAN /\ listening \in BOOLEAN
    /\ pc \in {"exec", "poll"}
    /\ sets \in 0 .. MaxSets
    /\ ran \in [Items -> 0 .. 2]

-----------------------------------------------------------------------------
(* Which actions an event queues; all are found in the order of action_list. *)

(* queue_property_triggers *)
OnProperty(n, v) ==
    SelectSeq(ActionList, LAMBDA a : Trigger[a].prop = n /\ Trigger[a].value \in {v, Star})

(* The property trigger of a holds.                                        *)
Holds(a) ==
    LET n == Trigger[a].prop
    IN  n # "" /\ props[n] # Unset /\ Trigger[a].value \in {props[n], Star}

(* Mutant: triggers on any value are forgotten.                            *)
OnStateNoStar ==
    SelectSeq(ActionList, LAMBDA a : Holds(a) /\ Trigger[a].value # Star)

(* queue_all_property_triggers *)
OnState == SelectSeq(ActionList, Holds)

(* action_for_each_trigger *)
OnEvent(e) ==
    SelectSeq(ActionList, LAMBDA a : Trigger[a].prop = "" /\ Trigger[a].value = e)

(* action_add_queue_tail for each of them.                                 *)
AddAll(L, as) == FoldLeft(ListAddTail, L, as)

(* property_set and, through property_changed, the triggers; L is the      *)
(* queue it finds.                                                         *)
PropertySet(L, n, v) ==
    IF n \in ReadOnly /\ props[n] # Unset
    THEN props' = props /\ action_queue' = L
    ELSE /\ props' = [props EXCEPT ![n] = v]
         /\ action_queue' = IF property_triggers_enabled THEN AddAll(L, OnProperty(n, v)) ELSE L

(* One command is executed; L is the queue it finds.                       *)
Run(c, L) ==
    \/ /\ c.op = "setprop"
       /\ PropertySet(L, c.name, c.value)
       /\ UNCHANGED <<property_triggers_enabled, listening>>
    \/ /\ c.op = "trigger"
       /\ action_queue' = AddAll(L, OnEvent(c.name))
       /\ UNCHANGED <<props, property_triggers_enabled, listening>>
    \/ /\ c.op = "queue_property_triggers"
       /\ action_queue' = AddAll(L, OnState)
       /\ property_triggers_enabled' = TRUE
       /\ UNCHANGED <<props, listening>>
    \/ /\ c.op = "start_property_service"
       /\ listening' = TRUE
       /\ action_queue' = L
       /\ UNCHANGED <<props, property_triggers_enabled>>
    \/ /\ c.op = "other"
       /\ action_queue' = L
       /\ UNCHANGED <<props, property_triggers_enabled, listening>>

-----------------------------------------------------------------------------
Init ==
    /\ action_queue = AddAll(ListInit, Boot)
    /\ cur_action = Null /\ cur_command = 0
    /\ props = [n \in Names |-> Unset]
    /\ property_triggers_enabled = FALSE
    /\ listening = FALSE
    /\ pc = "exec"
    /\ sets = 0
    /\ ran = [a \in Items |-> 0]

(* The current action has commands left.                                   *)
More == cur_action # Null /\ cur_command # 0 /\ cur_command < Len(Commands[cur_action])

(* execute_one_command: the next command of the current action.            *)
NextCommand ==
    /\ pc = "exec" /\ More
    /\ cur_command' = cur_command + 1
    /\ Run(Commands[cur_action][cur_command + 1], action_queue)
    /\ pc' = "poll"
    /\ UNCHANGED <<cur_action, sets, ran>>

(* execute_one_command: action_remove_queue_head, and the first command of *)
(* that action if it has one.                                              *)
NextAction ==
    /\ pc = "exec" /\ ~More /\ ~ListEmpty(action_queue)
    /\ LET a == action_queue.next[Head0]
           L == ListRemove(action_queue, a)
       IN  /\ cur_action' = a
           /\ ran' = [ran EXCEPT ![a] = IF @ < 2 THEN @ + 1 ELSE @]
           /\ \/ /\ Commands[a] = <<>>
                 /\ cur_command' = 0
                 /\ action_queue' = L
                 /\ UNCHANGED <<props, property_triggers_enabled, listening>>
              \/ /\ Commands[a] # <<>>
                 /\ cur_command' = 1
                 /\ Run(Commands[a][1], L)
    /\ pc' = "poll"
    /\ UNCHANGED sets

(* Mutant: cur_command is not reset.                                       *)
NothingToDoNoReset ==
    /\ pc = "exec" /\ ~More /\ ListEmpty(action_queue)
    /\ cur_action' = Null
    /\ pc' = "poll"
    /\ UNCHANGED <<cur_command, action_queue, props, property_triggers_enabled, listening,
                   sets, ran>>

(* execute_one_command: nothing to do.                                     *)
NothingToDo ==
    /\ pc = "exec" /\ ~More /\ ListEmpty(action_queue)
    /\ cur_action' = Null /\ cur_command' = 0
    /\ pc' = "poll"
    /\ UNCHANGED <<action_queue, props, property_triggers_enabled, listening, sets, ran>>

(* poll returns and no property message is waiting.                        *)
PollReturn ==
    /\ pc = "poll"
    /\ pc' = "exec"
    /\ UNCHANGED <<action_queue, cur_action, cur_command, props,
                   property_triggers_enabled, listening, sets, ran>>

(* poll returns because a client sets a property.                          *)
HandlePropertySetFd(n, v) ==
    /\ pc = "poll" /\ listening /\ sets < MaxSets
    /\ sets' = sets + 1
    /\ PropertySet(action_queue, n, v)
    /\ pc' = "exec"
    /\ UNCHANGED <<cur_action, cur_command, property_triggers_enabled, listening, ran>>

Execute == NextCommand \/ NextAction \/ NothingToDo

Next ==
    \/ Execute
    \/ PollReturn
    \/ \E n \in Names, v \in Values : HandlePropertySetFd(n, v)

Spec == Init /\ [][Next]_vars

(* init's thread runs on, and the timeout of poll is 0 while the queue is  *)
(* not empty or there is a current action.                                 *)
PollNow == PollReturn /\ (cur_action # Null \/ ~ListEmpty(action_queue))
FairSpec == Spec /\ WF_vars(Execute) /\ WF_vars(PollNow)

-----------------------------------------------------------------------------
(* Properties.                                                             *)

(* The actions that wait on the queue.                                     *)
Queued == Visited(action_queue, Len(ActionList) + 1)
OnQueue(a) == \E i \in 1 .. Len(Queued) : Queued[i] = a

(* The pointers of action_queue form one circle in both directions, in     *)
(* which no action occurs twice.                                           *)
QueueWellFormed == Represents(action_queue, Queued)

(* init implements the queue readme.txt describes: actions are taken in    *)
(* the order in which their events occurred, and one that is on the queue  *)
(* already is not added again.                                             *)
Fifo == INSTANCE ActionFifo WITH Actions <- Items, NoAction <- Null,
                                 queue <- Queued, current <- cur_action
ImplementsFifo == Fifo!ASpec
FifoInit == Fifo!AInit
FifoStep == Fifo!ANext \/ UNCHANGED Fifo!avars

(* Every action that is queued is executed some time.                      *)
Runs(a) == cur_action = a
QueuedRuns == \A a \in Items : OnQueue(a) ~> Runs(a)

(* The handover at queue_property_triggers loses and repeats nothing: the  *)
(* action of a property trigger that holds has run or waits exactly once   *)
(* after the triggers are enabled, whether the property was set before the *)
(* handover or after it, and never before.  (For properties that are set   *)
(* once, such as ro.*.)                                                    *)
FiredOnce ==
    \A a \in Items : Trigger[a].prop \in ReadOnly =>
        ran[a] + (IF OnQueue(a) THEN 1 ELSE 0)
            = IF property_triggers_enabled /\ Holds(a) THEN 1 ELSE 0
=============================================================================
