---------------------------- MODULE NatTables ----------------------------
(***************************************************************************)
(* netd's NAT controller and the secondary routing tables it shares with   *)
(* the "route" command (netd/NatController.cpp,                            *)
(* netd/SecondaryTableController.cpp).  A slot of the table array belongs  *)
(* to an upstream interface from its first route until a count of routes   *)
(* and rules falls below one; a NAT adds two to the count and takes them   *)
(* off again.  Commands come one at a time; each runs several ip and       *)
(* iptables commands of which one may fail, and interfaces vanish in       *)
(* between, taking their routes with them.                                 *)
(***************************************************************************)
EXTENDS Integers, Sequences, FiniteSets, SequencesExt

CONSTANTS
    Ints,       \* tethered interfaces, each with its address
    Exts,       \* upstream interfaces
    Dests,      \* destinations of routes
    Slots,      \* 1..INTERFACES_TRACKED
    MaxFails,   \* commands that may fail
    MaxGone     \* interfaces that vanish

VARIABLES
    tab,        \* mInterfaceTable, mInterfaceRuleCount, and the kernel's tables and rules
    fwd,        \* natctrl_FORWARD, first rule to last
    masq,       \* upstreams masqueraded in natctrl_nat_POSTROUTING
    natCount,
    nats,       \* the NATs standing: [int, ext, slot], slot 0 when there was no table
    used,       \* upstreams enabled since the defaults were last set
    odd,        \* a NAT was taken down with another slot than it was put up with,
                \* or the drop rule could not be moved to the end
    lost,       \* an upstream vanished with routes still counted
    fails, gone

vars == <<tab, fwd, masq, natCount, nats, used, odd, lost, fails, gone>>

Free == ""
Drop == <<"drop", "", "">>
Est(i, e) == <<"established", e, i>>
Inv(i, e) == <<"invalid", i, e>>
Ret(i, e) == <<"return", i, e>>

Init ==
    /\ tab = [name |-> [s \in Slots |-> Free], count |-> [s \in Slots |-> 0],
              route |-> [s \in Slots |-> {}], local |-> [s \in Slots |-> {}], from |-> {}]
    /\ fwd = <<>> /\ masq = {} /\ natCount = 0 /\ nats = {} /\ used = {}
    /\ odd = FALSE /\ lost = FALSE /\ fails = 0 /\ gone = 0
--------------------------------------------------------------------------
\* findTableNumber, 0 for none: the first slot with that name.
Find(t, n) ==
    IF \E s \in Slots : t.name[s] = n
    THEN CHOOSE s \in Slots : t.name[s] = n /\ \A r \in Slots : t.name[r] = n => s <= r
    ELSE 0

CountUp(t, s) == [t EXCEPT !.count[s] = @ + 1]

\* The slot is freed one too early.
CountDownEarly(t, s) ==
    IF t.count[s] <= 2 THEN [t EXCEPT !.count[s] = 0, !.name[s] = Free]
    ELSE [t EXCEPT !.count[s] = @ - 1]

\* modifyRuleCount for a deletion: below one, the slot is free again.
CountDown(t, s) ==
    IF t.count[s] <= 1 THEN [t EXCEPT !.count[s] = 0, !.name[s] = Free]
    ELSE [t EXCEPT !.count[s] = @ - 1]

\* modifyFromRule: counted when the command succeeds.
FromAdd(t, s, i, ok) ==
    IF ok THEN CountUp([t EXCEPT !.from = @ \cup {<<i, s>>}], s) ELSE t

FromDel(t, s, i) ==
    IF t.name[s] # Free /\ <<i, s>> \in t.from
    THEN CountDown([t EXCEPT !.from = @ \ {<<i, s>>}], s) ELSE t

\* modifyLocalRoute: counted whether or not the command succeeds.
LocalAdd(t, s, i, ok) ==
    CountUp(IF ok THEN [t EXCEPT !.local[s] = @ \cup {i}] ELSE t, s)

\* A deletion that finds the slot empty leaves the count alone.
LocalDelIfThere(t, s, i) ==
    IF t.name[s] # Free /\ i \in t.local[s]
    THEN CountDown([t EXCEPT !.local[s] = @ \ {i}], s) ELSE t

LocalDel(t, s, i) ==
    IF t.name[s] # Free THEN CountDown([t EXCEPT !.local[s] = @ \ {i}], s) ELSE t

Fault(bad) ==
    /\ bad # "none" => fails < MaxFails
    /\ fails' = fails + (IF bad # "none" THEN 1 ELSE 0)
--------------------------------------------------------------------------
\* addRoute: the slot is named before the route is tried.  A route counts two.
AddRoute ==
    \E e \in Exts, d \in Dests, bad \in {"none", "route"} :
        LET s == IF Find(tab, e) # 0 THEN Find(tab, e) ELSE Find(tab, Free)
            t == [tab EXCEPT !.name[s] = e]
        IN  /\ s # 0
            /\ Fault(bad)
            /\ tab' = IF bad = "none" /\ d \notin t.route[s]
                      THEN CountUp(CountUp([t EXCEPT !.route[s] = @ \cup {d}], s), s)
                      ELSE t
            /\ UNCHANGED <<fwd, masq, natCount, nats, used, odd, lost, gone>>

\* removeRoute; a command that fails, as it does when the route is not there,
\* changes nothing.
RemoveRoute ==
    \E e \in Exts, d \in Dests :
        LET s == Find(tab, e)
        IN  /\ s # 0 /\ d \in tab.route[s]
            /\ tab' = CountDown(CountDown([tab EXCEPT !.route[s] = @ \ {d}], s), s)
            /\ UNCHANGED <<fwd, masq, natCount, nats, used, odd, lost, fails, gone>>
--------------------------------------------------------------------------
Without(seq, r) ==
    IF r \in Range(seq) THEN RemoveAt(seq, SelectInSeq(seq, LAMBDA x : x = r)) ELSE seq

\* The unwinding of the error paths: the local route, then the rule.
Unwind(t, s, i) == IF s = 0 THEN t ELSE FromDel(LocalDel(t, s, i), s, i)

\* Without the flush of the nat table.
DefaultsKeepNat(t) ==
    /\ fwd' = <<>> /\ natCount' = 0 /\ used' = {}
    /\ tab' = [t EXCEPT !.from = {}]
    /\ UNCHANGED masq

\* setDefaults: the chains and the rules are flushed.
Defaults(t) ==
    /\ fwd' = <<>> /\ masq' = {} /\ natCount' = 0 /\ used' = {}
    /\ tab' = [t EXCEPT !.from = {}]

\* The drop rule appended only for the first NAT.
MoveDropOnce(seq, i, e, bad) ==
    LET added == seq \o <<Est(i, e), Inv(i, e), Ret(i, e)>>
    IN  IF Drop \in Range(seq) THEN added ELSE Append(added, Drop)

\* setForwardRules(true), then the drop rule moved to the end.
MoveDrop(seq, i, e, bad) ==
    LET added == seq \o <<Est(i, e), Inv(i, e), Ret(i, e)>>
        cut == IF bad = "dropdel" THEN added ELSE Without(added, Drop)
    IN  IF bad = "dropadd" THEN cut ELSE Append(cut, Drop)

\* enableNat, for a pair the framework has not enabled.  An error among the
\* forward rules takes back those already added, so it leaves the chain as it was.
EnableNat ==
    \E i \in Ints, e \in Exts,
       bad \in {"none", "from", "local", "forward", "dropdel", "dropadd", "masq"} :
        LET s == Find(tab, e)
            t == IF s = 0 THEN tab
                 ELSE LocalAdd(FromAdd(tab, s, i, bad # "from"), s, i, bad # "local")
        IN  /\ ~\E n \in nats : n.int = i
            /\ bad \in {"from", "local"} => s # 0
            /\ bad = "dropdel" => Drop \in Range(fwd)
            /\ bad = "masq" => natCount = 0
            /\ Fault(bad)
            /\ CASE bad \in {"from", "local", "forward"} ->
                        /\ tab' = Unwind(t, s, i)
                        /\ UNCHANGED <<fwd, masq, natCount, nats, used, odd>>
                 [] bad = "masq" ->
                        /\ Defaults(Unwind(t, s, i))
                        /\ UNCHANGED <<nats, odd>>
                 [] OTHER ->
                        /\ tab' = t
                        /\ fwd' = MoveDrop(fwd, i, e, bad)
                        /\ natCount' = natCount + 1
                        /\ masq' = IF natCount = 0 THEN masq \cup {e} ELSE masq
                        /\ nats' = nats \cup {[int |-> i, ext |-> e, slot |-> s]}
                        /\ used' = used \cup {e}
                        /\ odd' = (odd \/ bad \in {"dropdel", "dropadd"})
            /\ UNCHANGED <<lost, gone>>

\* disableNat, for a NAT that stands; the last one sets the defaults.
DisableNat ==
    \E n \in nats :
        LET s == Find(tab, n.ext)
            t == Unwind(tab, s, n.int)
            left == Without(Without(Without(fwd, Est(n.int, n.ext)), Inv(n.int, n.ext)),
                            Ret(n.int, n.ext))
        IN  /\ nats' = nats \ {n}
            /\ odd' = (odd \/ s # n.slot)
            /\ IF natCount <= 1 THEN Defaults(t)
               ELSE /\ tab' = t /\ fwd' = left /\ natCount' = natCount - 1
                    /\ UNCHANGED <<masq, used>>
            /\ UNCHANGED <<lost, fails, gone>>
--------------------------------------------------------------------------
\* An interface vanishes: the kernel drops the routes through it.
TetherGone ==
    /\ gone < MaxGone
    /\ \E i \in Ints :
        /\ \E s \in Slots : i \in tab.local[s]
        /\ tab' = [tab EXCEPT !.local = [s \in Slots |-> @[s] \ {i}]]
    /\ gone' = gone + 1
    /\ UNCHANGED <<fwd, masq, natCount, nats, used, odd, lost, fails>>

UpstreamGone ==
    /\ gone < MaxGone
    /\ \E e \in Exts :
        /\ Find(tab, e) # 0 /\ tab.route[Find(tab, e)] # {}
        /\ tab' = [tab EXCEPT !.route[Find(tab, e)] = {}]
    /\ gone' = gone + 1 /\ lost' = TRUE
    /\ UNCHANGED <<fwd, masq, natCount, nats, used, odd, fails>>

Next ==
    \/ AddRoute \/ RemoveRoute \/ EnableNat \/ DisableNat
    \/ TetherGone \/ UpstreamGone

\* A bound for checking: nothing more is looked at once a NAT has been taken down
\* with another slot than it was put up with.
Regular == ~odd

Spec == Init /\ [][Next]_vars
--------------------------------------------------------------------------
\* A slot is handed back no sooner than the last route and the last NAT of its
\* upstream are gone, whatever commands failed and whatever interfaces vanished:
\* the next upstream to take the slot finds the table empty and no rule pointing
\* at it (modifyRuleCount, and the deletions that are counted although they fail).
FreeSlotsAreEmpty ==
    ~odd => \A s \in Slots :
        tab.name[s] = Free =>
            /\ tab.route[s] = {} /\ tab.local[s] = {}
            /\ ~\E r \in tab.from : r[2] = s

\* When no command failed and no upstream vanished, a slot in use has a route or
\* a NAT to show for it, so that removing what was added frees it, although the
\* kernel may have dropped a NAT's route long before its removal is asked for
\* ("some del's will fail as the iface is already gone",
\* SecondaryTableController.cpp:183).
NamedSlotsAreUsed ==
    (~odd /\ fails = 0 /\ ~lost) =>
        \A s \in Slots : tab.name[s] # Free =>
            tab.route[s] # {} \/ \E n \in nats : n.slot = s

\* The forward chain lets through exactly the pairs with a NAT and drops the rest:
\* the drop rule is there once, after all others ("Always make sure the drop rule
\* is at the end", NatController.cpp:142), also after an enable that failed half
\* way and was unwound.
ForwardExact ==
    ~odd =>
        /\ \A i \in Ints, e \in Exts :
            LET on == \E n \in nats : n.int = i /\ n.ext = e
            IN  \A r \in {Est(i, e), Inv(i, e), Ret(i, e)} :
                    Cardinality({j \in DOMAIN fwd : fwd[j] = r}) = (IF on THEN 1 ELSE 0)
        /\ nats # {} => Last(fwd) = Drop /\ Cardinality({j \in DOMAIN fwd : fwd[j] = Drop}) = 1
        /\ natCount = Cardinality(nats)

\* While all NATs go out by one upstream, it is masqueraded, and only it.
Masqueraded == Cardinality(used) <= 1 => masq = used

\* Whatever NATs and routes were added and removed, commands failed and
\* interfaces vanished, the rules of the kernel and the slots of the secondary
\* tables agree with the counts that NatController and
\* SecondaryTableController keep.
NatExact == FreeSlotsAreEmpty /\ NamedSlotsAreUsed /\ ForwardExact /\ Masqueraded
==========================================================================
