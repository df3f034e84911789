---------------------------- MODULE PropertyArea ----------------------------
(***************************************************************************)
(* The shared memory in which init publishes the properties:               *)
(* init_property_area, update_prop_info and the memory half of property_set *)
(* in core/init/property_service.c.                                        *)
(*                                                                         *)
(* init is the only writer; every process maps the area read-only and      *)
(* reads it without a lock.  The word `serial' of an entry holds the       *)
(* length of the value and a counter that is odd while init changes the    *)
(* value.  Readers are the C library's __system_property_find and          *)
(* __system_property_read, which are not part of this repository: a reader *)
(* waits while the serial is odd, copies as many bytes as it says, and     *)
(* starts again unless the serial is still the one it began with.          *)
(*                                                                         *)
(* Memory is sequentially consistent here, words are read and written at   *)
(* once and values byte by byte, in any order.                             *)
(***************************************************************************)
EXTENDS Integers, Sequences, FiniteSets

CONSTANTS
    Readers,       \* processes that read properties
    Names,         \* the properties
    ReadOnly,      \* those that cannot be changed once they are set
    Bytes,         \* the characters of values
    Nul,           \* the byte that ends a value
    Values,        \* values: sequences of characters
    PropValueMax,  \* PROP_VALUE_MAX: bytes in the value of an entry
    CountMax,      \* PA_COUNT_MAX: entries in the area
    Half,          \* half the number of values of the serial's counter (2^23)
    MaxSets        \* bound: calls of property_set

AreaConstants ==
    /\ ReadOnly \subseteq Names
    /\ PropValueMax \in Nat \ {0} /\ CountMax \in Nat /\ MaxSets \in Nat
    /\ Half \in Nat \ {0, 1}
    /\ Nul \notin Bytes
    /\ Values \subseteq Seq(Bytes)
    /\ \A v \in Values : Len(v) < PropValueMax

ASSUME AreaFits == AreaConstants

VARIABLES
    count,   \* pa->count
    info,    \* the entries: name, serial, bytes of the value
    value,   \* the value each entry stands for (the last one published)
    w,       \* init: where it is in property_set, entry, new value, bytes left
    rd,      \* each reader: where it is, entry, serial, bytes left and copied
    sets     \* calls of property_set so far

areaVars == <<count, info, value, w, rd, sets>>

Index == 1 .. CountMax
Place == 1 .. PropValueMax
Serial == [len : 0 .. PropValueMax - 1, ctr : 0 .. 2 * Half - 1]
Text == [Place -> Bytes \cup {Nul}]

(* The bytes memcpy(.., value, len + 1) moves, and what they are.          *)
Span(len) == 1 .. len + 1
ByteOf(v, k) == IF k <= Len(v) THEN v[k] ELSE Nul

Entry == [name : Names, serial : Serial, text : Text]
Blank == [serial |-> [len |-> 0, ctr |-> 0], text |-> [k \in Place |-> Nul]]

(* The type invariant.                                                     *)
AreaTypeOK ==
    /\ count \in 0 .. CountMax
    /\ info \in [1 .. count -> Entry]
    /\ value \in [1 .. count -> Values]
    /\ w \in [pc : {"idle", "copy", "wake"}, i : Index \cup {0},
              v : Values \cup {<<>>}, left : SUBSET Place]
    /\ rd \in [Readers -> [pc : {"idle", "serial", "wait", "copy", "check"},
                           i : Index \cup {0}, ser : Serial, left : SUBSET Place,
                           buf : Text, since : 0 .. Half - 1]]
    /\ sets \in Nat

AreaInit ==
    /\ count = 0
    /\ info = <<>>
    /\ value = <<>>
    /\ w = [pc |-> "idle", i |-> 0, v |-> <<>>, left |-> {}]
    /\ rd = [r \in Readers |->
                [pc |-> "idle", i |-> 0, ser |-> Blank.serial, left |-> {},
                 buf |-> Blank.text, since |-> 0]]
    /\ sets = 0

-----------------------------------------------------------------------------
(* init.                                                                   *)

(* property_set of a name that is not in the area: the entry is filled     *)
(* behind the last one before count makes it visible.                      *)
Insert(n, v) ==
    /\ w.pc = "idle" /\ sets < MaxSets
    /\ \A i \in 1 .. count : info[i].name # n
    /\ count < CountMax
    /\ info' = Append(info, [name |-> n, serial |-> [len |-> Len(v), ctr |-> 0],
                             text |-> [k \in Place |-> ByteOf(v, k)]])
    /\ value' = Append(value, v)
    /\ count' = count + 1
    /\ sets' = sets + 1
    /\ UNCHANGED <<w, rd>>

(* Mutant: the serial is not marked as dirty.                              *)
BeginUpdateClean(i, v) ==
    /\ w.pc = "idle" /\ sets < MaxSets
    /\ info[i].name \notin ReadOnly
    /\ w' = [pc |-> "copy", i |-> i, v |-> v, left |-> Span(Len(v))]
    /\ sets' = sets + 1
    /\ UNCHANGED <<count, info, value, rd>>

(* property_set of a name that is in the area; update_prop_info sets the   *)
(* low bit of the serial.                                                  *)
BeginUpdate(i, v) ==
    /\ w.pc = "idle" /\ sets < MaxSets
    /\ info[i].name \notin ReadOnly
    /\ info' = [info EXCEPT ![i].serial.ctr = IF @ % 2 = 0 THEN @ + 1 ELSE @]
    /\ w' = [pc |-> "copy", i |-> i, v |-> v, left |-> Span(Len(v))]
    /\ sets' = sets + 1
    /\ UNCHANGED <<count, value, rd>>

(* memcpy in update_prop_info moves one byte.                              *)
CopyIn(k) ==
    /\ w.pc = "copy" /\ k \in w.left
    /\ info' = [info EXCEPT ![w.i].text[k] = ByteOf(w.v, k)]
    /\ w' = [w EXCEPT !.left = @ \ {k}]
    /\ UNCHANGED <<count, value, rd, sets>>

(* A reader of entry i that has taken its serial and not yet compared it.  *)
Reading(r, i) == rd[r].i = i /\ rd[r].pc \in {"copy", "check"}

(* (serial + 1) & 0xffffff                                                 *)
Up(c) == IF c = 2 * Half - 1 THEN 0 ELSE c + 1

(* What Publish does to the readers' counts of updates since they began;   *)
(* that no read lasts for Half updates or more is assumed.                 *)
CountUpdate(i) ==
    /\ \A r \in Readers : Reading(r, i) => rd[r].since < Half - 1
    /\ rd' = [r \in Readers |->
                 IF Reading(r, i) THEN [rd[r] EXCEPT !.since = @ + 1] ELSE rd[r]]

(* Mutants: the counter does not wrap around; the serial is stored before  *)
(* the value is complete.                                                  *)
PublishNoWrap ==
    /\ w.pc = "copy" /\ w.left = {}
    /\ info' = [info EXCEPT ![w.i].serial = [len |-> Len(w.v), ctr |-> @.ctr + 1]]
    /\ value' = [value EXCEPT ![w.i] = w.v]
    /\ CountUpdate(w.i)
    /\ w' = [w EXCEPT !.pc = "wake"]
    /\ UNCHANGED <<count, sets>>
PublishTooSoon ==
    /\ w.pc = "copy"
    /\ info' = [info EXCEPT ![w.i].serial = [len |-> Len(w.v), ctr |-> Up(@.ctr)]]
    /\ value' = [value EXCEPT ![w.i] = w.v]
    /\ CountUpdate(w.i)
    /\ w' = [w EXCEPT !.pc = "wake"]
    /\ UNCHANGED <<count, sets>>

(* update_prop_info stores length and counter in one word.                 *)
Publish ==
    /\ w.pc = "copy" /\ w.left = {}
    /\ info' = [info EXCEPT ![w.i].serial = [len |-> Len(w.v), ctr |-> Up(@.ctr)]]
    /\ value' = [value EXCEPT ![w.i] = w.v]
    /\ CountUpdate(w.i)
    /\ w' = [w EXCEPT !.pc = "wake"]
    /\ UNCHANGED <<count, sets>>

(* Mutant: __futex_wake of nobody.                                         *)
NoWake ==
    /\ w.pc = "wake"
    /\ w' = [w EXCEPT !.pc = "idle"]
    /\ UNCHANGED <<count, info, value, rd, sets>>

(* __futex_wake(&pi->serial, INT32_MAX); a woken reader reads the serial   *)
(* again.                                                                  *)
Wake ==
    /\ w.pc = "wake"
    /\ w' = [w EXCEPT !.pc = "idle"]
    /\ rd' = [r \in Readers |->
                 IF rd[r].pc = "wait" /\ rd[r].i = w.i
                 THEN [rd[r] EXCEPT !.pc = "serial"] ELSE rd[r]]
    /\ UNCHANGED <<count, info, value, sets>>

-----------------------------------------------------------------------------
(* Readers.                                                                *)

(* __system_property_find: only entries below count are looked at.         *)
Find(r, i) ==
    /\ rd[r].pc = "idle"
    /\ rd' = [rd EXCEPT ![r].pc = "serial", ![r].i = i]
    /\ UNCHANGED <<count, info, value, w, sets>>

(* The serial is clean: the read begins.                                   *)
ReadSerial(r) ==
    LET s == info[rd[r].i].serial
    IN  /\ rd[r].pc = "serial" /\ s.ctr % 2 = 0
        /\ rd' = [rd EXCEPT ![r] = [@ EXCEPT !.pc = "copy", !.ser = s,
                                             !.left = Span(s.len), !.since = 0]]
        /\ UNCHANGED <<count, info, value, w, sets>>

(* The serial is dirty: __futex_wait sleeps, as it is still that serial.   *)
FutexWait(r) ==
    /\ rd[r].pc = "serial" /\ info[rd[r].i].serial.ctr % 2 = 1
    /\ rd' = [rd EXCEPT ![r].pc = "wait"]
    /\ UNCHANGED <<count, info, value, w, sets>>

(* memcpy moves one byte out.                                              *)
CopyOut(r, k) ==
    /\ rd[r].pc = "copy" /\ k \in rd[r].left
    /\ rd' = [rd EXCEPT ![r].buf[k] = info[rd[r].i].text[k], ![r].left = @ \ {k}]
    /\ UNCHANGED <<count, info, value, w, sets>>

Copied(r) ==
    /\ rd[r].pc = "copy" /\ rd[r].left = {}
    /\ rd' = [rd EXCEPT ![r].pc = "check"]
    /\ UNCHANGED <<count, info, value, w, sets>>

(* The serial is still the same: what was copied is returned.              *)
Return(r) ==
    /\ rd[r].pc = "check" /\ info[rd[r].i].serial = rd[r].ser
    /\ rd' = [rd EXCEPT ![r].pc = "idle"]
    /\ UNCHANGED <<count, info, value, w, sets>>

Again(r) ==
    /\ rd[r].pc = "check" /\ info[rd[r].i].serial # rd[r].ser
    /\ rd' = [rd EXCEPT ![r].pc = "serial"]
    /\ UNCHANGED <<count, info, value, w, sets>>

Write ==
    \/ \E k \in Place : CopyIn(k)
    \/ Publish
    \/ Wake

Read(r) ==
    \/ ReadSerial(r) \/ FutexWait(r)
    \/ \E k \in Place : CopyOut(r, k)
    \/ Copied(r) \/ Return(r) \/ Again(r)

AreaNext ==
    \/ \E n \in Names, v \in Values : Insert(n, v)
    \/ \E i \in 1 .. count, v \in Values : BeginUpdate(i, v)
    \/ Write
    \/ \E r \in Readers : Read(r) \/ \E i \in 1 .. count : Find(r, i)

AreaSpec == AreaInit /\ [][AreaNext]_areaVars

(* The scheduler runs init and the readers.                                *)
AreaFairSpec == AreaSpec /\ WF_areaVars(Write) /\ \A r \in Readers : WF_areaVars(Read(r))

-----------------------------------------------------------------------------
(* Properties.                                                             *)

(* A read is never torn and never old: whenever the final comparison of    *)
(* serials lets a reader return, its copy is, byte for byte, the value     *)
(* property_set published last, although init may be in the middle of an   *)
(* update and other updates may have come and gone while it copied.        *)
ReadIsCurrent ==
    \A r \in Readers :
        LET i == rd[r].i
        IN  rd[r].pc = "check" /\ info[i].serial = rd[r].ser =>
                /\ rd[r].ser.len = Len(value[i])
                /\ \A k \in Span(rd[r].ser.len) : rd[r].buf[k] = ByteOf(value[i], k)

(* A serial shows that an entry is being changed exactly while it is: the  *)
(* low bit is set from the first byte update_prop_info copies until the    *)
(* length and the value agree again.                                       *)
SerialTellsTruth ==
    \A i \in 1 .. count :
        IF w.pc = "copy" /\ w.i = i
        THEN info[i].serial.ctr % 2 = 1
        ELSE /\ info[i].serial.ctr % 2 = 0
             /\ info[i].serial.len = Len(value[i])
             /\ \A k \in Span(Len(value[i])) : info[i].text[k] = ByteOf(value[i], k)

(* Every read returns: no reader sleeps through the __futex_wake of        *)
(* update_prop_info, and retries end when the updates do.                  *)
Busy(r) == rd[r].pc # "idle"
ReadsReturn == \A r \in Readers : Busy(r) ~> ~Busy(r)
=============================================================================
