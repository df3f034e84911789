------------------------------- MODULE Fdevent -------------------------------
(***************************************************************************)
(* The event loop of the debug bridge (fdevent.c, the select() version):   *)
(* the table of descriptors, what each one waits for, and the list of      *)
(* those that have events to deliver.  A callback may change or remove any *)
(* descriptor, also one that is on the list.                               *)
(***************************************************************************)
EXTENDS Naturals, Sequences, FiniteSets, SequencesExt

CONSTANTS Fds       \* the descriptors, 0 .. n
Events == {"R", "W"}

VARIABLES
    fde,        \* fde[f] = [active, mask, events, pending]
    select_n,
    list,       \* list_pending, a sequence of descriptors
    call,       \* the callback that runs: [fd, events], or NoCall
    bad         \* descriptors that were closed under the loop

vars == <<fde, select_n, list, call, bad>>

NoCall == [fd |-> 0, events |-> {}, on |-> FALSE]
Off == [active |-> FALSE, mask |-> {}, events |-> {}, pending |-> FALSE]

TypeOK ==
    /\ \A f \in Fds : /\ fde[f].active \in BOOLEAN /\ fde[f].pending \in BOOLEAN
                      /\ fde[f].mask \subseteq Events /\ fde[f].events \subseteq Events
    /\ select_n \in 0 .. Cardinality(Fds) /\ bad \subseteq Fds
    /\ \A k \in DOMAIN list : list[k] \in Fds

Init ==
    /\ fde = [f \in Fds |-> Off] /\ select_n = 0 /\ list = <<>> /\ call = NoCall /\ bad = {}

Active == {f \in Fds : fde[f].active}

(* fdevent_process: what select() reports of the descriptors below         *)
(* select_n; after an error, a read of each bad one.                       *)
Process ==
    /\ call = NoCall /\ list = <<>>
    /\ \E got \in [Fds -> SUBSET Events] :
          /\ IF \E f \in bad : f < select_n /\ fde[f].mask # {}
             THEN \A f \in Fds : got[f] = IF f \in bad /\ f < select_n THEN {"R"} ELSE {}
             ELSE \A f \in Fds : got[f] \subseteq IF f < select_n THEN fde[f].mask ELSE {}
          /\ \E f \in Fds : got[f] # {}
          /\ fde' = [f \in Fds |-> IF got[f] = {} THEN fde[f]
                                   ELSE [fde[f] EXCEPT !.events = @ \cup got[f],
                                                       !.pending = TRUE]]
          /\ list' = SetToSortSeq({f \in Fds : got[f] # {}}, <)
    /\ UNCHANGED <<select_n, call, bad>>

(* fdevent_plist_dequeue and fdevent_call_fdfunc.                          *)
Dispatch ==
    /\ call = NoCall /\ list # <<>>
    /\ LET f == Head(list) IN
       /\ list' = Tail(list)
       /\ fde' = [fde EXCEPT ![f].events = {}, ![f].pending = FALSE]
       /\ call' = IF fde[f].pending THEN [fd |-> f, events |-> fde[f].events, on |-> TRUE]
                  ELSE NoCall
    /\ UNCHANGED <<select_n, bad>>

(* Mutant: the descriptor stays on the list.                               *)
SetKeeps(f, m) ==
    /\ fde[f].active
    /\ fde' = [fde EXCEPT ![f].mask = m, ![f].events = @ \ m, ![f].pending = @ /\ fde[f].events \ m # {}]
    /\ UNCHANGED <<list, select_n, call, bad>>

(* fdevent_set: a pending descriptor loses the events that are in the mask *)
(* and, when none is left, its place on the list.                          *)
Set(f, m) ==
    LET left == fde[f].events \ m IN
    /\ fde[f].active
    /\ IF fde[f].mask = m THEN UNCHANGED <<fde, list>>
       ELSE /\ fde' = [fde EXCEPT ![f].mask = m,
                                  ![f].events = IF fde[f].pending THEN left ELSE @,
                                  ![f].pending = @ /\ left # {}]
            /\ list' = IF fde[f].pending /\ left = {} THEN SelectSeq(list, LAMBDA g : g # f)
                       ELSE list
    /\ UNCHANGED <<select_n, call, bad>>

(* fdevent_install: fdevent_register and fdevent_connect.                  *)
Install(f) ==
    /\ ~fde[f].active /\ fde' = [fde EXCEPT ![f] = [Off EXCEPT !.active = TRUE]]
    /\ select_n' = IF f >= select_n THEN f + 1 ELSE select_n
    /\ bad' = bad \ {f} /\ UNCHANGED <<list, call>>

(* Mutants: the list is left alone; the new bound is the last descriptor.  *)
RemoveListed(f) ==
    /\ fde[f].active /\ fde' = [fde EXCEPT ![f] = Off]
    /\ select_n' = 1 + (CHOOSE n \in Active \cup {0} : \A g \in Active : g <= n)
    /\ bad' = bad \ {f} /\ UNCHANGED <<list, call>>
RemoveShrinks(f) ==
    /\ fde[f].active /\ fde' = [fde EXCEPT ![f] = Off]
    /\ list' = IF fde[f].pending THEN SelectSeq(list, LAMBDA g : g # f) ELSE list
    /\ select_n' = CHOOSE n \in Active \cup {0} : \A g \in Active : g <= n
    /\ bad' = bad \ {f} /\ UNCHANGED call

(* fdevent_remove: the bound of select() is worked out again while the     *)
(* descriptor is still in the table.                                       *)
FdRemove(f) ==
    /\ fde[f].active /\ fde' = [fde EXCEPT ![f] = Off]
    /\ list' = IF fde[f].pending THEN SelectSeq(list, LAMBDA g : g # f) ELSE list
    /\ select_n' = 1 + (CHOOSE n \in Active \cup {0} : \A g \in Active : g <= n)
    /\ bad' = bad \ {f} /\ UNCHANGED call

(* A callback changes, removes and installs descriptors, and returns.      *)
InCall ==
    /\ call.on
    /\ \E f \in Fds : Install(f) \/ FdRemove(f) \/ \E m \in SUBSET Events : Set(f, m)

(* fdevent_subproc_event_func: the child of another descriptor has exited;  *)
(* when that one is not already pending its callback runs at once.         *)
Subproc(f) ==
    /\ call.on /\ f \in Active \ {call.fd}
    /\ IF fde[f].pending
       THEN /\ fde' = [fde EXCEPT ![f].events = @ \cup {"R"}] /\ UNCHANGED call
       ELSE /\ fde' = [fde EXCEPT ![f].events = {}]
            /\ call' = [fd |-> f, events |-> {"R"}, on |-> TRUE]
    /\ UNCHANGED <<select_n, list, bad>>

Return == call.on /\ call' = NoCall /\ UNCHANGED <<fde, select_n, list, bad>>

(* Before the loop starts; and a descriptor that is closed elsewhere.      *)
Setup == call = NoCall /\ Active = {} /\ \E f \in Fds : Install(f)
SetupMask == call = NoCall /\ list = <<>> /\ \E f \in Active : fde[f].mask = {} /\ Set(f, {"R"})
Break(f) == /\ f \in Active \ bad /\ call.on /\ bad' = bad \cup {f}
            /\ UNCHANGED <<fde, select_n, list, call>>

Next == \/ Process \/ Dispatch \/ InCall \/ Return \/ Setup \/ SetupMask
        \/ \E f \in Fds : Break(f) \/ Subproc(f)

Spec == Init /\ [][Next]_vars
-----------------------------------------------------------------------------
(* A descriptor is on the list exactly when it is marked pending, once,    *)
(* and it is installed and has an event to deliver: no callback runs for   *)
(* one that another callback has removed.                                  *)
ListExact ==
    /\ \A f \in Fds : fde[f].pending <=> \E k \in DOMAIN list : list[k] = f
    /\ \A k, l \in DOMAIN list : list[k] = list[l] => k = l
    /\ \A f \in Fds : fde[f].pending => fde[f].active /\ fde[f].events # {}

(* select() looks at every descriptor that is installed.                   *)
SelectCovers == \A f \in Active : f < select_n

(* "make sure we don't signal an event that is no longer wanted": a        *)
(* callback gets only what its descriptor waits for.                       *)
OnlyWanted ==
    [][~call.on /\ call'.on => call'.events \subseteq fde[call'.fd].mask \cup
                                   (IF call'.fd \in bad THEN {"R"} ELSE {})]_vars

\* The list of pending events and the range that select is given match the
\* state of the installed descriptors, though handlers remove, close and reopen
\* descriptors while the list is being worked off.
WatchExact == ListExact /\ SelectCovers
=============================================================================
