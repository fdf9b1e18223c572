----------------------- MODULE DetachedRegistryProofs -----------------------
(* The registry's counters are exact and its terminal records final, for any    *)
(* number of slots, execs, callers, crashes and faults.                         *)
EXTENDS DetachedRegistry, FiniteSetTheorems, TLAPS

Reconciling == {"check", "commit", "list", "stop", "lose", "after", "backstop", "relist"}

\* A create that is under way owns its slot behind the creating flag.
CreateOwns ==
    \A s \in Slot : create[s] \notin {"none", "helper"} => Taken(s) /\ entry[s].creating

\* A slot is hidden for one reason, and only while its record is live.
OneFlag ==
    \A s \in Slot :
        /\ ~(entry[s].creating /\ entry[s].hold)
        /\ IsTerminal(s) => ~Hidden(s)
        /\ ~Taken(s) => entry[s] = Free

\* A reconciliation is of a record that is there, in view, and not up for
\* collection; what it commits is terminal.
CallsVisible ==
    \A a \in Actor : call[a].pc \in Reconciling =>
        /\ call[a].slot \in Slot /\ Taken(call[a].slot) /\ ~Hidden(call[a].slot)
        /\ IsTerminal(call[a].slot) => call[a].slot \notin expired
        /\ call[a].pc = "commit" => call[a].phase \in Terminal

\* The hold that the reaper resolves stays a hold, the record that it collects
\* stays terminal and expired.
ReaperOwns ==
    /\ call[Reaper].pc \in {"hold", "holdlist"} =>
          call[Reaper].slot \in Slot /\ Taken(call[Reaper].slot) /\ entry[call[Reaper].slot].hold
    /\ call[Reaper].pc \in {"gc", "unlink"} =>
          call[Reaper].slot \in Slot /\ IsTerminal(call[Reaper].slot) /\ call[Reaper].slot \in expired

\* Startup runs alone and adopts into free slots.
StartupAlone ==
    /\ ~Up => /\ \A a \in Actor : call[a].pc = "idle"
              /\ \A s \in Slot : create[s] \in {"none", "helper"}
    /\ boot.pc = "down" => \A s \in Slot : entry[s] = Free
    /\ boot.pc = "adopt" => \A s \in boot.todo : entry[s] = Free

Control == CreateOwns /\ OneFlag /\ CallsVisible /\ ReaperOwns /\ StartupAlone

RegistryInv == RegistryTypeOK /\ AccountsExact /\ Control
-----------------------------------------------------------------------------
(* Counting.                                                                    *)

\* A counter of the slots with some property, when one slot may gain or lose it.
Delta(n, was, is) == IF was <=> is THEN n ELSE IF is THEN n + 1 ELSE n - 1

\* Only the entry of s changes, and the counters follow it.
EntryChange(s) ==
    /\ entry' \in [Slot -> Entry]
    /\ \A t \in Slot \ {s} : entry'[t] = entry[t]
    /\ entry'[s].counted <=> entry'[s].state # "free" /\ entry'[s].state \notin Terminal
    /\ active' = Delta(active, entry[s].counted, entry'[s].counted)
    /\ reserved' = Delta(reserved, Taken(s), entry'[s].state # "free")

\* The size of a set of slots follows the membership of one of them.
LEMMA CountOne ==
    ASSUME NEW A \in SUBSET Slot, NEW B \in SUBSET Slot, NEW s \in Slot,
           \A t \in Slot \ {s} : t \in A <=> t \in B
    PROVE  /\ Cardinality(B) = Delta(Cardinality(A), s \in A, s \in B)
           /\ Cardinality(A) \in Nat /\ (s \in A => Cardinality(A) > 0)
<1>1. IsFiniteSet(A) /\ IsFiniteSet(B)
  BY Zenon, FS_Subset, RegistryAssumption
<1>2. Cardinality(A) \in Nat /\ Cardinality(B) \in Nat
  BY <1>1, FS_CardinalityType, Zenon
<1>3. s \in A => Cardinality(A) > 0
  BY <1>1, <1>2, FS_EmptySet
<1>4. CASE s \in A <=> s \in B
  <2>1. A = B
    BY <1>4
  <2> QED BY <1>2, <1>3, <1>4, <2>1, Zenon DEF Delta
<1>5. CASE s \in B /\ s \notin A
  <2>1. B = A \union {s}
    BY <1>5, Zenon
  <2>2. Cardinality(B) = Cardinality(A) + 1
    BY <1>1, <1>5, <2>1, FS_AddElement, Zenon
  <2> QED BY <1>2, <1>3, <1>5, <2>2, Zenon DEF Delta
<1>6. CASE s \in A /\ s \notin B
  <2>1. B = A \ {s}
    BY <1>6, Zenon
  <2>2. Cardinality(B) = Cardinality(A) - 1
    BY <1>1, <1>6, <2>1, FS_RemoveElement, Zenon
  <2> QED BY <1>2, <1>3, <1>6, <2>2, Zenon DEF Delta
<1> QED BY <1>4, <1>5, <1>6, Zenon

\* The accounts stay exact when one entry changes and the counters follow.
LEMMA OneEntry ==
    ASSUME AccountsExact, NEW s \in Slot, EntryChange(s)
    PROVE  AccountsExact'
<1> DEFINE A == {t \in Slot : entry[t].counted}
           B == {t \in Slot : entry'[t].counted}
           C == {t \in Slot : entry[t].state # "free"}
           D == {t \in Slot : entry'[t].state # "free"}
<1>1. Cardinality(B) = Delta(Cardinality(A), s \in A, s \in B)
  <2>1. \A t \in Slot \ {s} : t \in A <=> t \in B
    BY Zenon DEF EntryChange
  <2> QED BY <2>1, CountOne, Zenon
<1>2. Cardinality(D) = Delta(Cardinality(C), s \in C, s \in D)
  <2>1. \A t \in Slot \ {s} : t \in C <=> t \in D
    BY Zenon DEF EntryChange
  <2> QED BY <2>1, CountOne, Zenon
<1>3. active = Cardinality(A) /\ reserved = Cardinality(C)
  BY Zenon DEF AccountsExact, Taken
<1>4. active' = Cardinality(B) /\ reserved' = Cardinality(D)
  BY <1>1, <1>2, <1>3, Zenon DEF EntryChange, Taken, Delta
<1>5. \A t \in Slot : entry'[t].counted <=> entry'[t].state # "free" /\ entry'[t].state \notin Terminal
  BY Zenon DEF EntryChange, AccountsExact, Taken, IsTerminal
<1> QED BY <1>4, <1>5, Zenon DEF AccountsExact, Taken, IsTerminal

\* A counted entry is in the counter, so that no decrement saturates.
LEMMA Positive ==
    ASSUME AccountsExact, NEW s \in Slot
    PROVE  /\ active \in Nat /\ reserved \in Nat
           /\ entry[s].counted => active > 0
           /\ Taken(s) => reserved > 0
<1> DEFINE A == {t \in Slot : entry[t].counted}
           C == {t \in Slot : Taken(t)}
<1>1. Cardinality(A) \in Nat /\ (s \in A => Cardinality(A) > 0)
  BY CountOne, Zenon
<1>2. Cardinality(C) \in Nat /\ (s \in C => Cardinality(C) > 0)
  BY CountOne, Zenon
<1> QED BY <1>1, <1>2, Zenon DEF AccountsExact
-----------------------------------------------------------------------------
(* What the registry's transitions do to the entry of a slot.                   *)

\* The record of s is there and in view: a terminal state stays, and a record
\* that becomes terminal starts its retention.
Shows(s) ==
    /\ EntryChange(s) /\ entry'[s].state # "free"
    /\ ~entry'[s].creating /\ ~entry'[s].hold
    /\ \A t \in Slot \ {s} : t \in expired' <=> t \in expired
    /\ IF IsTerminal(s) THEN entry'[s].state = entry[s].state /\ (s \in expired' <=> s \in expired)
       ELSE entry'[s].state \in Terminal => s \notin expired'

\* The entry of s is dropped.
Removes(s) ==
    /\ EntryChange(s) /\ entry'[s] = Free
    /\ \A t \in Slot \ {s} : t \in expired' <=> t \in expired

\* The entries have their type.
EntryTypes == entry \in [Slot -> Entry] /\ expired \subseteq Slot

LEMMA ShowRunning ==
    ASSUME EntryTypes, AccountsExact, NEW s \in Slot, Taken(s),
           CommitRunning(s) \/ (~entry[s].creating /\ Promote(s))
    PROVE  Shows(s)
<1> DEFINE e == entry'[s]
<1>1. /\ \A t \in Slot \ {s} : entry'[t] = entry[t]
      /\ e \in Entry /\ ~e.creating /\ ~e.hold /\ e.counted = entry[s].counted
      /\ e.state = IF entry[s].state = "dispatching" THEN "running" ELSE entry[s].state
  <2> DEFINE old == entry[s]
  <2>1. old \in Entry /\ old.counted \in BOOLEAN
    BY Zenon DEF EntryTypes, Entry
  <2>2. CASE CommitRunning(s)
    <3> DEFINE new == [old EXCEPT !.state = IF @ = "dispatching" THEN "running" ELSE @,
                                  !.creating = FALSE, !.hold = FALSE]
    <3>1. entry' = [entry EXCEPT ![s] = new]
      BY <2>2, Zenon DEF CommitRunning, Becomes
    <3>2. /\ new \in Entry /\ ~new.creating /\ ~new.hold /\ new.counted = old.counted
          /\ new.state = IF old.state = "dispatching" THEN "running" ELSE old.state
      BY Zenon, <2>1 DEF Entry, State
    <3> HIDE DEF new
    <3> QED BY <3>1, <3>2, Zenon DEF EntryTypes
  <2>3. CASE ~old.creating /\ Promote(s)
    <3> DEFINE new == [old EXCEPT !.hold = FALSE, !.state = IF @ = "dispatching" THEN "running" ELSE @]
    <3>1. entry' = [entry EXCEPT ![s] = new]
      BY <2>3, Zenon DEF Promote, Becomes
    <3>2. /\ new \in Entry /\ ~new.creating /\ ~new.hold /\ new.counted = old.counted
          /\ new.state = IF old.state = "dispatching" THEN "running" ELSE old.state
      BY Zenon, <2>1, <2>3 DEF Entry, State
    <3> HIDE DEF new
    <3> QED BY <3>1, <3>2, Zenon DEF EntryTypes
  <2> QED BY <2>2, <2>3, Zenon
<1>2. entry' \in [Slot -> Entry]
  BY <1>1, Zenon DEF EntryTypes, CommitRunning, Promote, Becomes
<1>3. active' = active /\ reserved' = reserved /\ expired' = expired
  BY Zenon DEF CommitRunning, Promote, clock
<1> HIDE DEF e
<1>4. e.counted <=> e.state # "free" /\ e.state \notin Terminal
  BY <1>1, Zenon DEF AccountsExact, Taken, IsTerminal, Terminal
<1>5. EntryChange(s)
  BY <1>1, <1>2, <1>3, <1>4, Zenon DEF EntryChange, Delta, Taken, e
<1> QED BY <1>1, <1>3, <1>5, Zenon DEF Shows, Taken, IsTerminal, Terminal, e

LEMMA ShowTerminal ==
    ASSUME EntryTypes, AccountsExact, NEW s \in Slot, Taken(s), NEW phase \in Terminal,
           CommitTerminal(s, phase)
    PROVE  Shows(s)
<1> DEFINE e == entry'[s]
<1>1. /\ \A t \in Slot \ {s} : entry'[t] = entry[t]
      /\ e \in Entry /\ ~e.creating /\ ~e.hold /\ e.counted = FALSE
      /\ e.state = IF IsTerminal(s) THEN entry[s].state ELSE phase
  BY ZenonT(60) DEF EntryTypes, CommitTerminal, Becomes, Entry, State, Terminal, IsTerminal
<1>2. entry' \in [Slot -> Entry]
  BY <1>1, Zenon DEF EntryTypes, CommitTerminal, Becomes
<1>3. active' = Released(s) /\ reserved' = reserved
      /\ expired' = IF IsTerminal(s) THEN expired ELSE expired \ {s}
  BY Zenon DEF CommitTerminal
<1> HIDE DEF e
<1>4. e.state \in Terminal
  BY <1>1, Zenon DEF IsTerminal
<1>5. active' = Delta(active, entry[s].counted, e.counted)
  BY <1>1, <1>3, Positive, Zenon DEF Released, Delta
<1>6. EntryChange(s)
  BY <1>1, <1>2, <1>3, <1>4, <1>5, Zenon DEF EntryChange, Delta, Taken, Terminal, e
<1> QED BY <1>1, <1>3, <1>4, <1>6, Zenon DEF Shows, IsTerminal, Terminal, e

LEMMA ShowLost ==
    ASSUME EntryTypes, AccountsExact, NEW s \in Slot, Taken(s), ~Hidden(s), MarkLost(s)
    PROVE  Shows(s)
<1>1. CASE IsTerminal(s)
  <2>1. UNCHANGED <<entry, active, reserved, expired>>
    BY <1>1, Zenon DEF MarkLost, registry, clock
  <2>2. EntryChange(s)
    BY <2>1, Zenon DEF EntryChange, EntryTypes, AccountsExact, Delta, Taken, IsTerminal
  <2> QED BY <1>1, <2>1, <2>2, Zenon DEF Shows, Hidden, Taken
<1>2. CASE ~IsTerminal(s)
  <2> DEFINE e == entry'[s]
  <2>1. /\ \A t \in Slot \ {s} : entry'[t] = entry[t]
        /\ e \in Entry /\ ~e.creating /\ ~e.hold /\ e.counted = FALSE /\ e.state = "cancelled"
    <3> DEFINE old == entry[s]
               new == [old EXCEPT !.state = "cancelled", !.lost = TRUE, !.counted = FALSE]
    <3>1. entry' = [entry EXCEPT ![s] = new]
      BY <1>2, Zenon DEF MarkLost, Becomes
    <3>2. old \in Entry /\ ~old.creating /\ ~old.hold
      BY Zenon DEF EntryTypes, Hidden
    <3>3. new \in Entry /\ ~new.creating /\ ~new.hold /\ new.counted = FALSE /\ new.state = "cancelled"
      BY Zenon, <3>2 DEF Entry, State, Terminal
    <3> HIDE DEF new
    <3> QED BY <3>1, <3>3, Zenon DEF EntryTypes
  <2>2. entry' \in [Slot -> Entry]
    BY <1>2, <2>1, Zenon DEF EntryTypes, MarkLost, Becomes
  <2>3. active' = Released(s) /\ reserved' = reserved /\ expired' = expired \ {s}
    BY <1>2, Zenon DEF MarkLost
  <2> HIDE DEF e
  <2>4. active' = Delta(active, entry[s].counted, e.counted)
    BY <2>1, <2>3, Positive, Zenon DEF Released, Delta
  <2>5. EntryChange(s)
    BY <2>1, <2>2, <2>3, <2>4, Zenon DEF EntryChange, Delta, Taken, Terminal, e
  <2> QED BY <1>2, <2>1, <2>3, <2>5, Zenon DEF Shows, IsTerminal, Terminal, e
<1> QED BY <1>1, <1>2, Zenon

LEMMA RemoveStep ==
    ASSUME EntryTypes, AccountsExact, NEW s \in Slot, RemoveEntry(s)
    PROVE  Removes(s)
<1>1. entry' = [entry EXCEPT ![s] = Free] /\ Free \in Entry
  BY RegistryAssumption, Zenon DEF RemoveEntry, Free, Entry, State
<1>2. entry'[s] = Free /\ Free.counted = FALSE /\ Free.state = "free"
  BY <1>1, Zenon DEF EntryTypes, Free
<1>3. entry' \in [Slot -> Entry] /\ \A t \in Slot \ {s} : entry'[t] = entry[t]
  BY <1>1, Zenon DEF EntryTypes
<1>4. active' = Delta(active, entry[s].counted, Free.counted)
  BY <1>2, Positive, Zenon DEF RemoveEntry, Released, Delta
<1>5. reserved' = Delta(reserved, Taken(s), Free.state # "free")
  BY <1>2, Positive, Zenon DEF RemoveEntry, Delta
<1>6. EntryChange(s)
  BY <1>2, <1>3, <1>4, <1>5, Zenon DEF EntryChange, Terminal
<1> QED BY <1>2, <1>6, Zenon DEF Removes, RemoveEntry

\* An entry put into a free slot.
LEMMA InsertStep ==
    ASSUME EntryTypes, AccountsExact, NEW s \in Slot, entry[s] = Free, NEW e \in Entry,
           e.state # "free", e.counted <=> e.state \notin Terminal,
           entry' = [entry EXCEPT ![s] = e], reserved' = reserved + 1,
           active' = IF e.counted THEN active + 1 ELSE active
    PROVE  EntryChange(s)
<1>1. ~Taken(s) /\ ~entry[s].counted
  BY DEF Taken, Free
<1>2. entry' \in [Slot -> Entry] /\ entry'[s] = e /\ \A t \in Slot \ {s} : entry'[t] = entry[t]
  BY Zenon DEF EntryTypes
<1> QED BY <1>1, <1>2, Positive, Zenon DEF EntryChange, Delta
-----------------------------------------------------------------------------
(* What keeps the control invariant.                                            *)

Holding == {"hold", "holdlist"}
Collecting == {"gc", "unlink"}

\* No call starts: what is under way was under way on the same slot.
CallsFrom ==
    /\ \A a \in Actor : call'[a].pc \in Reconciling =>
          /\ call[a].pc \in Reconciling /\ call'[a].slot = call[a].slot
          /\ call'[a].pc = "commit" => call'[a].phase \in Terminal
    /\ call'[Reaper].pc \in Holding => call[Reaper].pc \in Holding /\ call'[Reaper].slot = call[Reaper].slot
    /\ call'[Reaper].pc \in Collecting => call[Reaper].pc \in Collecting /\ call'[Reaper].slot = call[Reaper].slot

\* No create starts.
CreatesFrom ==
    \A s \in Slot : create'[s] \notin {"none", "helper"} => create[s] \notin {"none", "helper"}

LEMMA SameCalls ==
    ASSUME CallsVisible, UNCHANGED call
    PROVE  CallsFrom
BY Zenon DEF CallsVisible, CallsFrom

\* A step that leaves the entries alone.
LEMMA QuietControl ==
    ASSUME Control, UNCHANGED <<entry, expired, boot>>, CallsFrom, CreatesFrom, ~Up => UNCHANGED call
    PROVE  Control'
<1>1. CreateOwns'
  BY Zenon DEF Control, CreateOwns, CreatesFrom, Taken
<1>2. OneFlag'
  BY Zenon DEF Control, OneFlag, IsTerminal, Hidden, Taken
<1>3. CallsVisible'
  BY Zenon DEF Control, CallsVisible, CallsFrom, IsTerminal, Hidden, Taken
<1>4. ReaperOwns'
  BY Zenon DEF Control, ReaperOwns, CallsFrom, IsTerminal, Taken, Holding, Collecting
<1>5. StartupAlone'
  BY Zenon DEF Control, StartupAlone, CreatesFrom, Up
<1> QED BY <1>1, <1>2, <1>3, <1>4, <1>5, Zenon DEF Control

\* A step that leaves the flags and the state of every entry alone.
LEMMA GuardControl ==
    ASSUME Control, NEW s \in Slot, \A t \in Slot \ {s} : entry'[t] = entry[t],
           entry'[s].state = entry[s].state, entry'[s].creating = entry[s].creating,
           entry'[s].hold = entry[s].hold, ~Taken(s) => entry'[s] = entry[s],
           Up, UNCHANGED <<expired, boot, create>>, CallsFrom
    PROVE  Control'
<1>0. \A t \in Slot : /\ entry'[t].state = entry[t].state /\ entry'[t].creating = entry[t].creating
                      /\ entry'[t].hold = entry[t].hold /\ (~Taken(t) => entry'[t] = entry[t])
  BY Zenon
<1>1. CreateOwns'
  BY <1>0, Zenon DEF Control, CreateOwns, Taken
<1>2. OneFlag'
  BY <1>0, Zenon DEF Control, OneFlag, IsTerminal, Hidden, Taken
<1>3. CallsVisible'
  BY <1>0 DEF Control, CallsVisible, CallsFrom, IsTerminal, Hidden, Taken
<1>4. ReaperOwns'
  BY <1>0, Zenon DEF Control, ReaperOwns, CallsFrom, IsTerminal, Taken, Holding, Collecting
<1>5. StartupAlone'
  BY Zenon DEF Control, StartupAlone, Up
<1> QED BY <1>1, <1>2, <1>3, <1>4, <1>5, Zenon DEF Control

\* A step that leaves a record in view, by the actor that owned its flag.
LEMMA ShowControl ==
    ASSUME Control, NEW s \in Slot, Taken(s), Shows(s), Up, UNCHANGED boot, CallsFrom, CreatesFrom,
           create'[s] \in {"none", "helper"},
           call'[Reaper].pc \in Holding => call'[Reaper].slot # s
    PROVE  Control'
<1>0. /\ \A t \in Slot \ {s} : entry'[t] = entry[t] /\ (t \in expired' <=> t \in expired)
      /\ entry'[s].state # "free" /\ ~entry'[s].creating /\ ~entry'[s].hold
  BY Zenon DEF Shows, EntryChange
<1>1. CreateOwns'
  BY <1>0, Zenon DEF Control, CreateOwns, CreatesFrom, Taken
<1>2. OneFlag'
  BY <1>0, Zenon DEF Control, OneFlag, IsTerminal, Hidden, Taken
<1>3. CallsVisible'
  <2> SUFFICES ASSUME NEW a \in Actor, call'[a].pc \in Reconciling
               PROVE  /\ call'[a].slot \in Slot /\ Taken(call[a].slot)' /\ ~Hidden(call[a].slot)'
                      /\ IsTerminal(call[a].slot)' => call'[a].slot \notin expired'
                      /\ call'[a].pc = "commit" => call'[a].phase \in Terminal
    BY Zenon DEF CallsVisible
  <2> DEFINE t == call[a].slot
  <2>1. /\ call'[a].slot = t /\ t \in Slot /\ Taken(t) /\ ~Hidden(t) /\ (IsTerminal(t) => t \notin expired)
        /\ call'[a].pc = "commit" => call'[a].phase \in Terminal
    BY Zenon DEF Control, CallsVisible, CallsFrom
  <2> HIDE DEF t
  <2>2. CASE t # s
    BY <1>0, <2>1, <2>2, Zenon DEF Taken, Hidden, IsTerminal
  <2>3. CASE t = s
    <3>1. entry'[s].state \in Terminal => s \notin expired'
      BY <2>1, <2>3, Zenon DEF Shows
    <3> QED BY <1>0, <2>1, <2>3, <3>1, Zenon DEF Taken, Hidden, IsTerminal
  <2> QED BY <2>2, <2>3, Zenon
<1>4. ReaperOwns'
  <2>1. IsTerminal(s) => entry'[s].state = entry[s].state /\ (s \in expired' <=> s \in expired)
    BY Zenon DEF Shows
  <2> QED BY <1>0, <2>1, Zenon DEF Control, ReaperOwns, CallsFrom, IsTerminal, Taken, Holding, Collecting
<1>5. StartupAlone'
  BY Zenon DEF Control, StartupAlone, Up
<1> QED BY <1>1, <1>2, <1>3, <1>4, <1>5, Zenon DEF Control

\* A step that drops an entry no call is about.
LEMMA RemoveControl ==
    ASSUME Control, NEW s \in Slot, Removes(s), Up, UNCHANGED boot, CallsFrom, CreatesFrom,
           create'[s] \in {"none", "helper"},
           \A a \in Actor : call'[a].pc \in Reconciling => call'[a].slot # s,
           call'[Reaper].pc \in Holding \union Collecting => call'[Reaper].slot # s
    PROVE  Control'
<1>0. /\ \A t \in Slot \ {s} : entry'[t] = entry[t] /\ (t \in expired' <=> t \in expired)
      /\ entry'[s] = Free
  BY Zenon DEF Removes, EntryChange
<1>1. CreateOwns'
  BY <1>0, Zenon DEF Control, CreateOwns, CreatesFrom, Taken
<1>2. OneFlag'
  <2>1. ~Free.creating /\ ~Free.hold
    BY Zenon DEF Free
  <2> QED BY <1>0, <2>1, Zenon DEF Control, OneFlag, IsTerminal, Hidden, Taken
<1>3. CallsVisible'
  BY <1>0 DEF Control, CallsVisible, CallsFrom, IsTerminal, Hidden, Taken
<1>4. ReaperOwns'
  BY <1>0, Zenon DEF Control, ReaperOwns, CallsFrom, IsTerminal, Taken, Holding, Collecting
<1>5. StartupAlone'
  BY Zenon DEF Control, StartupAlone, Up
<1> QED BY <1>1, <1>2, <1>3, <1>4, <1>5, Zenon DEF Control
-----------------------------------------------------------------------------
(* The three kinds of steps.                                                    *)

\* What TerminalFinal says of a step.
Final ==
    Up /\ boot'.pc = "up" =>
      \A s \in Slot :
         /\ IsTerminal(s) => entry'[s].state \in {entry[s].state, "free"}
         /\ Taken(s) /\ ~Hidden(s) /\ entry'[s].state = "free" => IsTerminal(s) /\ s \in expired

Kept == AccountsExact' /\ Control' /\ Final

LEMMA QuietKept ==
    ASSUME RegistryInv, UNCHANGED <<entry, active, reserved, expired, boot>>, CallsFrom, CreatesFrom,
           ~Up => UNCHANGED call
    PROVE  Kept
<1>1. AccountsExact'
  BY Zenon DEF RegistryInv, AccountsExact, Taken, IsTerminal
<1>2. Control'
  BY QuietControl, Zenon DEF RegistryInv
<1>3. Final
  BY Zenon DEF Final, Taken
<1> QED BY <1>1, <1>2, <1>3, Zenon DEF Kept

LEMMA ShowKept ==
    ASSUME RegistryInv, NEW s \in Slot, Taken(s), Shows(s), Up, UNCHANGED boot, CallsFrom, CreatesFrom,
           create'[s] \in {"none", "helper"},
           call'[Reaper].pc \in Holding => call'[Reaper].slot # s
    PROVE  Kept
<1>1. AccountsExact'
  BY OneEntry, Zenon DEF RegistryInv, Shows
<1>2. Control'
  BY ShowControl, Zenon DEF RegistryInv
<1>3. Final
  <2>1. \A t \in Slot \ {s} : entry'[t] = entry[t]
    BY Zenon DEF Shows, EntryChange
  <2>2. entry'[s].state # "free" /\ (IsTerminal(s) => entry'[s].state = entry[s].state)
    BY Zenon DEF Shows
  <2> QED BY <2>1, <2>2, Zenon DEF Final, Taken
<1> QED BY <1>1, <1>2, <1>3, Zenon DEF Kept

LEMMA RemoveKept ==
    ASSUME RegistryInv, NEW s \in Slot, Removes(s), Up, UNCHANGED boot, CallsFrom, CreatesFrom,
           Hidden(s) \/ (IsTerminal(s) /\ s \in expired),
           create'[s] \in {"none", "helper"},
           \A a \in Actor : call'[a].pc \in Reconciling => call'[a].slot # s,
           call'[Reaper].pc \in Holding \union Collecting => call'[Reaper].slot # s
    PROVE  Kept
<1>1. AccountsExact'
  BY OneEntry, Zenon DEF RegistryInv, Removes
<1>2. Control'
  BY RemoveControl, Zenon DEF RegistryInv
<1>3. Final
  <2>1. \A t \in Slot \ {s} : entry'[t] = entry[t]
    BY Zenon DEF Removes, EntryChange
  <2>2. entry'[s].state = "free"
    BY DEF Removes, Free
  <2> QED BY <2>1, <2>2, Zenon DEF Final, Taken
<1> QED BY <1>1, <1>2, <1>3, Zenon DEF Kept

\* A call that goes on or ends.
LEMMA GotoCalls ==
    ASSUME RegistryInv, NEW a \in Actor, call[a].pc \in Reconciling, NEW c \in Call,
           call' = [call EXCEPT ![a] = c],
           c.pc \notin Holding \union Collecting,
           c.pc \in Reconciling => c.slot = call[a].slot,
           c.pc = "commit" => c.phase \in Terminal
    PROVE  CallsFrom
<1>1. call \in [Actor -> Call] /\ Reaper \in Actor
  BY Zenon DEF RegistryInv, RegistryTypeOK, Actor
<1>2. call'[a] = c /\ \A b \in Actor \ {a} : call'[b] = call[b]
  BY <1>1, Zenon
<1> QED BY <1>1, <1>2, Zenon DEF RegistryInv, Control, CallsVisible, CallsFrom

LEMMA DoneCalls ==
    ASSUME RegistryInv, NEW a \in Actor, Done(a)
    PROVE  /\ CallsFrom /\ call'[a].pc = "idle"
           /\ \A b \in Actor \ {a} : call'[b] = call[b]
<1>1. call \in [Actor -> Call] /\ Reaper \in Actor
  BY Zenon DEF RegistryInv, RegistryTypeOK, Actor
<1>2. call'[a] = IdleCall /\ IdleCall.pc = "idle" /\ \A b \in Actor \ {a} : call'[b] = call[b]
  BY <1>1, Zenon DEF Done, IdleCall
<1> QED BY <1>1, <1>2, Zenon
           DEF RegistryInv, Control, CallsVisible, CallsFrom, Reconciling, Holding, Collecting
-----------------------------------------------------------------------------
(* The actions.                                                                 *)

\* The runner and systemd leave the registry alone.
LEMMA RunnerKept ==
    ASSUME RegistryInv, NEW s \in Slot, Runner(s) \/ HelperRegisters(s)
    PROVE  Kept
<1>1. UNCHANGED <<entry, active, reserved, expired, boot, call>>
  BY Zenon DEF Runner, RunnerSpawn, RunnerStarted, WorkloadEnds, RunnerPublish, RunnerExit, RunnerDies,
         WorkloadUnbound, HelperRegisters, registry, clock
<1>2. CreatesFrom
  <2>1. CASE Runner(s)
    BY Zenon, <2>1
       DEF Runner, RunnerSpawn, RunnerStarted, WorkloadEnds, RunnerPublish, RunnerExit, RunnerDies,
         WorkloadUnbound, CreatesFrom
  <2>2. CASE HelperRegisters(s)
    BY <2>2, Zenon DEF HelperRegisters, CreatesFrom, RegistryInv, RegistryTypeOK
  <2> QED BY <2>1, <2>2, Zenon
<1>3. CallsFrom
  BY <1>1, SameCalls, Zenon DEF RegistryInv, Control
<1> QED BY <1>1, <1>2, <1>3, QuietKept, Zenon

\* Deadlines and retention.
LEMMA DeadlineKept ==
    ASSUME RegistryInv, NEW s \in Slot, DeadlinePasses(s)
    PROVE  Kept
<1>1. UNCHANGED <<entry, active, reserved, expired, boot, call>>
  BY Zenon DEF DeadlinePasses, registry
<1>2. CreatesFrom
  BY Zenon DEF DeadlinePasses, CreatesFrom, RegistryInv, RegistryTypeOK
<1>3. CallsFrom
  BY <1>1, SameCalls, Zenon DEF RegistryInv, Control
<1> QED BY <1>1, <1>2, <1>3, QuietKept, Zenon

LEMMA ExpireKept ==
    ASSUME RegistryInv, NEW s \in Slot, Expire(s)
    PROVE  Kept
<1>1. UNCHANGED <<entry, active, reserved, boot, call, create>> /\ expired' = expired \union {s}
  BY Zenon DEF Expire, registry
<1>2. \A a \in Actor : call[a].pc \in Reconciling => call[a].slot # s
  BY Zenon DEF Expire, Reconciling
<1>3. AccountsExact'
  BY <1>1, Zenon DEF RegistryInv, AccountsExact, Taken, IsTerminal
<1>4. CreateOwns' /\ OneFlag' /\ StartupAlone'
  BY <1>1, Zenon
     DEF RegistryInv, Control, CreateOwns, OneFlag, StartupAlone, Taken, IsTerminal, Hidden, Up
<1>5. CallsVisible' /\ ReaperOwns'
  BY <1>1, <1>2, Zenon DEF RegistryInv, Control, CallsVisible, ReaperOwns, Taken, IsTerminal, Hidden
<1>6. Final
  BY <1>1, Zenon DEF Final, Taken
<1> QED BY <1>3, <1>4, <1>5, <1>6, Zenon DEF Kept, Control

\* While a create is under way, guestd is up and the slot is its own.
LEMMA CreateOwner ==
    ASSUME RegistryInv, NEW s \in Slot, create[s] \notin {"none", "helper"}
    PROVE  /\ Up /\ Taken(s) /\ Hidden(s) /\ ~IsTerminal(s) /\ ~entry[s].hold
           /\ \A a \in Actor : call[a].pc \in Reconciling => call[a].slot # s
           /\ call[Reaper].pc \in Holding \union Collecting => call[Reaper].slot # s
BY Zenon
   DEF RegistryInv, Control, CreateOwns, OneFlag, CallsVisible, ReaperOwns, StartupAlone, Hidden,
     Holding, Collecting

LEMMA ReserveKept ==
    ASSUME RegistryInv, NEW x \in Exec, ReserveCreate(x)
    PROVE  Kept
<1> DEFINE e == [Free EXCEPT !.id = x, !.state = "dispatching", !.creating = TRUE, !.counted = TRUE]
<1> PICK s \in Slot : FreeSlot(s) /\ entry' = [entry EXCEPT ![s] = e] /\ create' = [create EXCEPT ![s] = "persist"]
  BY Zenon DEF ReserveCreate
<1>1. /\ e \in Entry /\ e.state = "dispatching" /\ e.creating /\ ~e.hold /\ e.counted
  BY Zenon DEF Free, Entry, State
<1> HIDE DEF e
<1>2. /\ entry[s] = Free /\ ~Taken(s) /\ Up
      /\ active' = active + 1 /\ reserved' = reserved + 1 /\ UNCHANGED <<call, boot, expired>>
  BY Zenon DEF ReserveCreate, RegistryInv, Control, OneFlag, FreeSlot
<1>3. EntryTypes /\ AccountsExact /\ create \in [Slot -> CreatePC]
  BY Zenon DEF RegistryInv, RegistryTypeOK, EntryTypes
<1>4. EntryChange(s)
  BY ZenonT(60), <1>1, <1>2, <1>3, InsertStep DEF Terminal
<1>5. entry'[s] = e /\ \A t \in Slot \ {s} : entry'[t] = entry[t] /\ create'[t] = create[t]
  BY <1>3, Zenon DEF EntryTypes
<1>6. CreateOwns' /\ OneFlag' /\ StartupAlone'
  BY <1>1, <1>2, <1>5
     DEF RegistryInv, Control, CreateOwns, OneFlag, StartupAlone, Taken, IsTerminal, Hidden, Up,
       Terminal
<1>7. CallsVisible' /\ ReaperOwns'
  <2>1. \A t \in Slot : Taken(t) => t # s /\ entry'[t] = entry[t]
    BY <1>2, <1>5, Zenon
  <2>2. \A t \in Slot : IsTerminal(t) => Taken(t)
    BY Zenon DEF IsTerminal, Taken, Terminal
  <2>3. CallsVisible'
    BY <1>2, <2>1, <2>2 DEF RegistryInv, Control, CallsVisible, Taken, IsTerminal, Hidden
  <2>4. ReaperOwns'
    BY <1>2, <2>1, <2>2, Zenon DEF RegistryInv, Control, ReaperOwns, Taken, IsTerminal, Hidden
  <2> QED BY <2>3, <2>4, Zenon
<1>8. Final
  BY <1>1, <1>2, <1>5, Zenon DEF Final, Taken, IsTerminal, Terminal
<1> QED BY <1>3, <1>4, <1>6, <1>7, <1>8, OneEntry, Zenon DEF Kept, Control

LEMMA CreateKept ==
    ASSUME RegistryInv, NEW s \in Slot, Create(s)
    PROVE  Kept
<1>1. create[s] \notin {"none", "helper"} /\ UNCHANGED <<call, boot>>
  BY Zenon
     DEF Create, PrepareSlot, WriteDispatch, StartUnit, Poll, PollFails, Query, AbortStop,
       AbortRemove
<1>2. /\ Up /\ Taken(s) /\ Hidden(s) /\ ~IsTerminal(s) /\ ~entry[s].hold
      /\ \A a \in Actor : call'[a].pc \in Reconciling => call'[a].slot # s
      /\ call'[Reaper].pc \in Holding \union Collecting => call'[Reaper].slot # s
  BY <1>1, CreateOwner, Zenon
<1>3. CallsFrom /\ EntryTypes /\ AccountsExact /\ create \in [Slot -> CreatePC] /\ disk[s].status \in Phase
  BY <1>1, SameCalls, Zenon DEF RegistryInv, Control, RegistryTypeOK, EntryTypes, Dir
<1>4. CreatesFrom
  BY <1>1, <1>3, Zenon
     DEF Create, PrepareSlot, WriteDispatch, StartUnit, Poll, PollFails, Query, AbortStop,
         AbortRemove, CreatesFrom
<1>5. CASE UNCHANGED <<registry, clock>>
  BY <1>1, <1>2, <1>3, <1>4, <1>5, QuietKept, Zenon DEF registry, clock
<1>6. CASE CommitRunning(s) /\ create' = [create EXCEPT ![s] = "none"]
  <2>1. Shows(s) /\ create'[s] = "none"
    BY <1>2, <1>3, <1>6, ShowRunning, Zenon
  <2> QED BY <1>1, <1>2, <1>3, <1>4, <2>1, ShowKept, Zenon
<1>7. CASE disk[s].status \in Terminal /\ CommitTerminal(s, disk[s].status) /\ create' = [create EXCEPT ![s] = "none"]
  <2>1. Shows(s) /\ create'[s] = "none"
    BY <1>2, <1>3, <1>7, ShowTerminal, Zenon
  <2> QED BY <1>1, <1>2, <1>3, <1>4, <2>1, ShowKept, Zenon
<1>8. CASE AbortRemove(s)
  <2>1. Removes(s) /\ create'[s] = "none"
    BY <1>3, <1>8, RemoveStep, Zenon DEF AbortRemove
  <2> QED BY <1>1, <1>2, <1>3, <1>4, <2>1, RemoveKept, Zenon
<1>9. CASE PrepareSlot(s) \/ WriteDispatch(s) \/ StartUnit(s) \/ PollFails(s) \/ AbortStop(s)
  BY <1>5, <1>9, Zenon DEF PrepareSlot, WriteDispatch, StartUnit, PollFails, AbortStop
<1>10. CASE Poll(s)
  BY <1>5, <1>6, <1>7, <1>10, Zenon DEF Poll
<1>11. CASE Query(s)
  BY <1>5, <1>6, <1>11, Zenon DEF Query
<1> QED BY <1>8, <1>9, <1>10, <1>11, Zenon DEF Create

\* A call begins on a live record in view.
LEMMA BeginKept ==
    ASSUME RegistryInv, NEW c \in Caller, NEW x \in Exec, NEW then, Begin(c, x, then)
    PROVE  Kept
<1> DEFINE r(s) == [IdleCall EXCEPT !.pc = "check", !.slot = s, !.then = then, !.id = x]
<1> PICK s \in Slot : ~Hidden(s) /\ ~IsTerminal(s) /\ entry[s].id = x /\ call' = [call EXCEPT ![c] = r(s)]
  BY Zenon DEF Begin
<1>1. r(s).pc = "check" /\ r(s).slot = s
  BY Zenon DEF IdleCall
<1> HIDE DEF r
<1>2. /\ call \in [Actor -> Call] /\ c \in Actor /\ Reaper \in Actor /\ c # Reaper
      /\ UNCHANGED <<entry, active, reserved, expired, boot, create>> /\ Up
  BY RegistryAssumption, Zenon DEF RegistryInv, RegistryTypeOK, Actor, Begin, registry, clock
<1>3. call'[c] = r(s) /\ \A b \in Actor \ {c} : call'[b] = call[b]
  BY <1>2, Zenon
<1>4. Taken(s)
  <2>1. Free.id = NoExec
    BY Zenon DEF Free
  <2> QED BY <2>1, RegistryAssumption, Zenon DEF RegistryInv, Control, OneFlag
<1>5. CreateOwns' /\ OneFlag' /\ StartupAlone' /\ AccountsExact' /\ Final
  BY ZenonT(60), <1>2
     DEF RegistryInv, Control, CreateOwns, OneFlag, StartupAlone, AccountsExact, Final, Taken,
       IsTerminal, Hidden, Up
<1>6. CallsVisible'
  BY ZenonT(60), <1>1, <1>2, <1>3, <1>4
     DEF RegistryInv, Control, CallsVisible, Taken, IsTerminal, Hidden
<1>7. ReaperOwns'
  BY <1>2, <1>3, Zenon DEF RegistryInv, Control, ReaperOwns, Taken, IsTerminal
<1> QED BY <1>5, <1>6, <1>7, Zenon DEF Kept, Control

\* Guards change nothing but their count.
LEMMA GuardKept ==
    ASSUME RegistryInv, NEW s \in Slot, NEW n \in Nat, entry' = [entry EXCEPT ![s].guards = n],
           ~Taken(s) => n = entry[s].guards,
           Up, UNCHANGED <<active, reserved, expired, boot, create>>, CallsFrom
    PROVE  Kept
<1> DEFINE old == entry[s]
           e == [old EXCEPT !.guards = n]
<1>1. EntryTypes /\ AccountsExact /\ Control /\ old \in Entry
  BY Zenon DEF RegistryInv, RegistryTypeOK, EntryTypes
<1>2. entry' = [entry EXCEPT ![s] = e]
  BY <1>1, Zenon DEF EntryTypes
<1>3. /\ e \in Entry /\ e.state = old.state /\ e.creating = old.creating /\ e.hold = old.hold
      /\ e.counted = old.counted /\ (n = old.guards => e = old)
  BY <1>1, Zenon DEF Entry
<1> HIDE DEF e
<1>4. /\ entry' \in [Slot -> Entry] /\ entry'[s] = e
      /\ \A t \in Slot \ {s} : entry'[t] = entry[t]
  BY <1>1, <1>2, <1>3, Zenon DEF EntryTypes
<1>5. EntryChange(s)
  BY <1>1, <1>3, <1>4, Zenon DEF EntryChange, Delta, Taken, AccountsExact, IsTerminal
<1>6. Control'
  BY <1>1, <1>3, <1>4, GuardControl, Zenon DEF Taken
<1>7. Final
  BY <1>3, <1>4, Zenon DEF Final, Taken
<1> QED BY <1>1, <1>5, <1>6, <1>7, OneEntry, Zenon DEF Kept

LEMMA ReadLogsKept ==
    ASSUME RegistryInv, NEW c \in Caller, NEW x \in Exec, ReadLogs(c, x)
    PROVE  Kept
<1> DEFINE r(s) == [IdleCall EXCEPT !.pc = "read", !.slot = s, !.id = x]
<1> PICK s \in Slot : /\ entry[s].id = x /\ entry' = [entry EXCEPT ![s].guards = @ + 1]
                      /\ call' = [call EXCEPT ![c] = r(s)]
  BY Zenon DEF ReadLogs
<1>1. r(s).pc = "read"
  BY Zenon DEF IdleCall
<1> HIDE DEF r
<1>2. /\ call \in [Actor -> Call] /\ c \in Actor /\ Reaper \in Actor /\ entry \in [Slot -> Entry]
      /\ UNCHANGED <<active, reserved, expired, boot, create>> /\ Up
  BY Zenon DEF RegistryInv, RegistryTypeOK, Actor, ReadLogs, clock
<1>3. CallsFrom
  <2>1. call'[c] = r(s) /\ \A b \in Actor \ {c} : call'[b] = call[b]
    BY <1>2, Zenon
  <2> QED BY <1>1, <1>2, <2>1, Zenon
             DEF RegistryInv, Control, CallsVisible, CallsFrom, Reconciling, Holding, Collecting
<1>4. Taken(s)
  <2>1. Free.id = NoExec
    BY Zenon DEF Free
  <2> QED BY <2>1, RegistryAssumption, Zenon DEF RegistryInv, Control, OneFlag
<1>5. entry[s].guards + 1 \in Nat
  BY <1>2 DEF Entry
<1> QED BY Zenon, <1>2, <1>3, <1>4, <1>5, GuardKept

LEMMA DropGuardKept ==
    ASSUME RegistryInv, NEW c \in Caller, DropGuard(c)
    PROVE  Kept
<1> DEFINE s == call[c].slot
           n == IF entry[s].guards > 0 THEN entry[s].guards - 1 ELSE 0
<1>0. s \in Slot
  BY Zenon DEF RegistryInv, RegistryTypeOK, Actor, Call
<1> HIDE DEF s
<1>1. c \in Actor /\ Done(c) /\ UNCHANGED <<active, reserved, expired, boot, create>>
      /\ entry' = [entry EXCEPT ![s].guards = n]
  BY Zenon DEF Actor, DropGuard, clock, s
<1>2. Up
  BY <1>1, Zenon DEF RegistryInv, Control, StartupAlone, DropGuard
<1>3. entry[s] \in Entry /\ entry[s].guards \in Nat /\ n \in Nat
  BY <1>0 DEF RegistryInv, RegistryTypeOK, Entry
<1>4. ~Taken(s) => n = entry[s].guards
  <2>1. Free.guards = 0
    BY Zenon DEF Free
  <2> QED BY <1>0, <2>1 DEF RegistryInv, Control, OneFlag
<1> HIDE DEF n
<1> QED BY Zenon, <1>0, <1>1, <1>2, <1>3, <1>4, DoneCalls, GuardKept

\* A call that reconciles finds its record in view and goes on or ends.
LEMMA ReconcileKept ==
    ASSUME RegistryInv, NEW a \in Actor, Reconcile(a)
    PROVE  Kept
<1> DEFINE s == call[a].slot
           old == call[a]
<1>1. call[a].pc \in Reconciling /\ UNCHANGED <<create, boot>>
  BY Zenon
     DEF Reconcile, Check, Commit, List, StopOrphan, Lose, After, Backstop, Relist, Reconciling
<1>2. /\ s \in Slot /\ Taken(s) /\ ~Hidden(s)
      /\ call[a].pc = "commit" => call[a].phase \in Terminal
  BY <1>1, Zenon DEF RegistryInv, Control, CallsVisible
<1>3. /\ EntryTypes /\ AccountsExact /\ call \in [Actor -> Call] /\ old \in Call /\ Reaper \in Actor
      /\ Up /\ CreatesFrom /\ create[s] \in {"none", "helper"}
      /\ call[Reaper].pc \in Holding => call[Reaper].slot # s
  BY <1>1, <1>2, Zenon
     DEF RegistryInv, Control, CreateOwns, StartupAlone, ReaperOwns, RegistryTypeOK, EntryTypes,
     CreatesFrom, Hidden, Holding, Reconciling, Actor
<1>4. \E c \in Call : /\ call' = [call EXCEPT ![a] = c]
                      /\ c.pc \notin Holding \union Collecting
                      /\ c.pc \in Reconciling => c.slot = s
                      /\ c.pc = "commit" => c.phase \in Terminal
  <2>1. ASSUME NEW pc \in Reconciling \ {"commit"}, NEW then \in {"return", "cancel", "poll", "last", "lastStopped"}
        PROVE  LET c == [old EXCEPT !.pc = pc, !.then = then]
               IN c \in Call /\ c.pc = pc /\ c.slot = s
    BY ZenonT(60), <1>3 DEF Call, Reconciling
  <2>2. ASSUME NEW phase \in Terminal
        PROVE  LET c == [old EXCEPT !.pc = "commit", !.phase = phase]
               IN c \in Call /\ c.pc = "commit" /\ c.slot = s /\ c.phase = phase
    BY Zenon, <1>3 DEF Call, Phase
  <2>3. ASSUME NEW pc \in Reconciling \ {"commit"}
        PROVE  LET c == [old EXCEPT !.pc = pc]
               IN c \in Call /\ c.pc = pc /\ c.slot = s
    BY <1>3, Zenon DEF Call, Reconciling
  <2>4. IdleCall \in Call /\ IdleCall.pc = "idle"
    BY RegistryAssumption, Zenon DEF IdleCall, Call, Phase
  <2>5. CASE \E pc \in Reconciling \ {"commit"} : Goto(a, pc)
    BY Zenon, <2>3, <2>5 DEF Goto, Holding, Collecting, Reconciling
  <2>6. CASE Done(a)
    BY Zenon, <2>4, <2>6 DEF Done, Holding, Collecting, Reconciling
  <2>7. CASE \E pc \in Reconciling \ {"commit"}, then \in {"return", "cancel", "poll", "last", "lastStopped"} :
                call' = [call EXCEPT ![a].pc = pc, ![a].then = then]
    <3> PICK pc \in Reconciling \ {"commit"}, then \in {"return", "cancel", "poll", "last", "lastStopped"} :
                call' = [call EXCEPT ![a].pc = pc, ![a].then = then]
      BY Zenon, <2>7
    <3> DEFINE c == [old EXCEPT !.pc = pc, !.then = then]
    <3>1. c \in Call /\ c.pc = pc /\ c.slot = s
      BY ZenonT(60), <2>1
    <3>2. call' = [call EXCEPT ![a] = c]
      BY Zenon
    <3>3. pc \notin Holding \union Collecting /\ pc # "commit"
      BY Zenon DEF Holding, Collecting, Reconciling
    <3> HIDE DEF c
    <3> QED BY ZenonT(60), <3>1, <3>2, <3>3
  <2>8. CASE \E phase \in Terminal : call' = [call EXCEPT ![a].pc = "commit", ![a].phase = phase]
    <3> PICK phase \in Terminal : call' = [call EXCEPT ![a].pc = "commit", ![a].phase = phase]
      BY Zenon, <2>8
    <3> DEFINE c == [old EXCEPT !.pc = "commit", !.phase = phase]
    <3>1. c \in Call /\ c.pc = "commit" /\ c.slot = s /\ c.phase = phase
      BY Zenon, <2>2
    <3>2. call' = [call EXCEPT ![a] = c]
      BY Zenon
    <3>3. "commit" \notin Holding \union Collecting
      BY Zenon DEF Holding, Collecting
    <3> HIDE DEF c
    <3> QED BY Zenon, <3>1, <3>2, <3>3
  <2>9. CASE Check(a)
    BY <2>5, <2>8, <2>9, Zenon DEF Check, Reconciling
  <2>10. CASE Commit(a) \/ Lose(a)
    BY <2>5, <2>10, Zenon DEF Commit, Lose, Reconciling
  <2>11. CASE List(a)
    BY <2>5, <2>11, Zenon DEF List, Reconciling
  <2>12. CASE StopOrphan(a)
    BY <2>5, <2>12, Zenon DEF StopOrphan, Reconciling
  <2>13. CASE After(a)
    <3>1. \/ Done(a) \/ Goto(a, "relist")
          \/ call' = [call EXCEPT ![a].pc = "check", ![a].then = "poll"]
          \/ call' = [call EXCEPT ![a].pc = "backstop", ![a].then = "last"]
      BY <2>13, Zenon DEF After
    <3>2. {"check", "backstop", "relist"} \subseteq Reconciling \ {"commit"}
      BY Zenon DEF Reconciling
    <3> QED BY <2>5, <2>6, <2>7, <3>1, <3>2, Zenon
  <2>14. CASE Backstop(a)
    <3>1. \E then \in {"last", "lastStopped"} : call' = [call EXCEPT ![a].pc = "check", ![a].then = then]
      BY Zenon, <2>14 DEF Backstop
    <3>2. "check" \in Reconciling \ {"commit"}
      BY Zenon DEF Reconciling
    <3> QED BY Zenon, <2>7, <3>1, <3>2
  <2>15. CASE Relist(a)
    BY <2>6, <2>15, Zenon DEF Relist
  <2> QED BY <2>9, <2>10, <2>11, <2>12, <2>13, <2>14, <2>15, Zenon DEF Reconcile
<1>5. CallsFrom
  BY ZenonT(60), <1>1, <1>4, GotoCalls
<1>6. call'[Reaper].pc \in Holding => call'[Reaper].slot # s
  BY <1>3, <1>5, Zenon DEF CallsFrom
<1>7. UNCHANGED <<registry, clock>> \/ Shows(s)
  <2>1. CASE Check(a)
    BY <1>2, <1>3, <2>1, ShowRunning, Zenon DEF Check
  <2>2. CASE Commit(a)
    BY <1>2, <1>3, <2>2, ShowTerminal, Zenon DEF Commit
  <2>3. CASE List(a) \/ StopOrphan(a) \/ Backstop(a)
    BY <2>3, Zenon DEF List, StopOrphan, Backstop
  <2>4. CASE Lose(a)
    BY ZenonT(60), <1>2, <1>3, <2>4, ShowLost DEF Lose
  <2>5. CASE After(a)
    BY <1>2, <1>3, <2>5, ShowLost, Zenon DEF After
  <2>6. CASE Relist(a)
    BY <1>2, <1>3, <2>6, ShowLost, Zenon DEF Relist
  <2> QED BY <2>1, <2>2, <2>3, <2>4, <2>5, <2>6, Zenon DEF Reconcile
<1> HIDE DEF s
<1>8. CASE UNCHANGED <<registry, clock>>
  BY <1>1, <1>3, <1>5, <1>8, QuietKept, Zenon DEF registry, clock
<1>9. CASE Shows(s)
  BY <1>1, <1>2, <1>3, <1>5, <1>6, <1>9, ShowKept, Zenon
<1> QED BY <1>7, <1>8, <1>9, Zenon

\* The reaper's sweep and its stops touch no entry.
LEMMA SweepKept ==
    ASSUME RegistryInv, SweepList \/ SweepAdopted \/ SweepStop \/ HoldUnknown \/ GcStop
    PROVE  Kept
<1>1. /\ call \in [Actor -> Call] /\ Reaper \in Actor /\ UNCHANGED <<entry, active, reserved, expired, boot, create>>
  BY Zenon
     DEF RegistryInv, RegistryTypeOK, Actor, SweepList, SweepAdopted, SweepStop, HoldUnknown,
       GcStop, registry, clock
<1>2. CreatesFrom
  BY <1>1, Zenon DEF CreatesFrom
<1>3. Up
  <2>1. CASE SweepList
    BY <2>1, Zenon DEF SweepList, ReaperIdle
  <2>2. CASE ~SweepList
    BY <1>1, <2>2, Zenon
       DEF RegistryInv, Control, StartupAlone, SweepAdopted, SweepStop, HoldUnknown, GcStop
  <2> QED BY <2>1, <2>2, Zenon
<1>4. \A b \in Actor \ {Reaper} : call'[b] = call[b]
  BY <1>1, Zenon DEF SweepList, SweepAdopted, SweepStop, HoldUnknown, GcStop, Done, Goto
<1>5. /\ call'[Reaper].pc \notin Reconciling \union Holding
      /\ call'[Reaper].pc \in Collecting => call[Reaper].pc \in Collecting /\ call'[Reaper].slot = call[Reaper].slot
  <2>1. CASE SweepList \/ SweepAdopted
    BY <1>1, <2>1 DEF SweepList, SweepAdopted, Reconciling, Holding, Collecting, Call
  <2>2. CASE SweepStop
    <3>1. call[Reaper].pc = "sweep" /\ call[Reaper] \in Call
      BY <1>1, <2>2, Zenon DEF SweepStop
    <3>2. call'[Reaper].pc \in {"idle", "sweep"}
      BY <1>1, <2>2, <3>1 DEF SweepStop, Done, IdleCall, Call
    <3> QED BY <3>2, Zenon DEF Reconciling, Holding, Collecting
  <2>3. CASE HoldUnknown
    BY <1>1, <2>3, DoneCalls, Zenon DEF HoldUnknown, Reconciling, Holding, Collecting
  <2>4. CASE GcStop
    BY <1>1, <2>4, Zenon DEF GcStop, Goto, Reconciling, Holding, Collecting, Call
  <2> QED BY <2>1, <2>2, <2>3, <2>4, Zenon
<1>6. CallsFrom
  BY <1>1, <1>4, <1>5, Zenon DEF RegistryInv, Control, CallsVisible, CallsFrom
<1> QED BY <1>1, <1>2, <1>3, <1>6, QuietKept, Zenon

\* The reaper takes up a slot.
LEMMA ReapSlotKept ==
    ASSUME RegistryInv, NEW s \in Slot, ReapSlot(s)
    PROVE  Kept
<1>1. /\ call \in [Actor -> Call] /\ Reaper \in Actor /\ UNCHANGED <<entry, active, reserved, expired, boot, create>>
      /\ Up /\ Taken(s) /\ ~entry[s].creating
  BY Zenon DEF RegistryInv, RegistryTypeOK, Actor, ReapSlot, ReaperIdle, registry, clock
<1>2. \A b \in Actor \ {Reaper} : call'[b] = call[b]
  BY <1>1, Zenon DEF ReapSlot
<1>3. call'[Reaper].slot = s
      /\ call'[Reaper].pc = IF entry[s].hold THEN "hold" ELSE IF IsTerminal(s) THEN "gc" ELSE "check"
  BY <1>1, Zenon DEF ReapSlot, Call
<1>4. entry[s].hold \/ ~IsTerminal(s) \/ s \in expired
  BY Zenon DEF ReapSlot
<1>5. CreateOwns' /\ OneFlag' /\ StartupAlone' /\ AccountsExact' /\ Final
  BY ZenonT(60), <1>1
     DEF RegistryInv, Control, CreateOwns, OneFlag, StartupAlone, AccountsExact, Final, Taken,
       IsTerminal, Hidden, Up
<1>6. CallsVisible'
  BY ZenonT(60), <1>1, <1>2, <1>3
     DEF RegistryInv, Control, CallsVisible, Taken, IsTerminal, Hidden, Reconciling
<1>7. ReaperOwns'
  BY <1>1, <1>3, <1>4, Zenon DEF ReaperOwns, Taken, IsTerminal
<1> QED BY <1>5, <1>6, <1>7, Zenon DEF Kept, Control

\* The hold that the reaper resolves comes into view, goes or stays.
LEMMA HoldKept ==
    ASSUME RegistryInv, HoldStatus \/ HoldUnits
    PROVE  Kept
<1> DEFINE s == call[Reaper].slot
<1>1. call[Reaper].pc \in Holding /\ Reaper \in Actor /\ UNCHANGED <<create, boot>>
  BY ZenonT(60) DEF HoldStatus, HoldUnits, Holding, Actor
<1>2. /\ s \in Slot /\ Taken(s) /\ Hidden(s) /\ ~IsTerminal(s) /\ ~entry[s].creating
      /\ Up /\ create[s] \in {"none", "helper"}
  BY ZenonT(60), <1>1
     DEF RegistryInv, Control, ReaperOwns, OneFlag, CreateOwns, StartupAlone, Holding, Hidden
<1>3. /\ EntryTypes /\ AccountsExact /\ call \in [Actor -> Call] /\ CreatesFrom
      /\ \A a \in Actor : call[a].pc \in Reconciling => call[a].slot # s
  BY <1>1, <1>2, Zenon
     DEF RegistryInv, Control, RegistryTypeOK, EntryTypes, CreatesFrom, CallsVisible
<1>4. /\ CallsFrom /\ call'[Reaper].pc \notin Reconciling \union Collecting
      /\ \A b \in Actor \ {Reaper} : call'[b] = call[b]
      /\ Done(Reaper) \/ UNCHANGED <<registry, clock>>
  <2>1. CASE Done(Reaper)
    BY <1>1, <2>1, DoneCalls, Zenon DEF Reconciling, Collecting
  <2>2. CASE Goto(Reaper, "holdlist") /\ UNCHANGED <<registry, clock>>
    <3>1. /\ call'[Reaper].pc = "holdlist" /\ call'[Reaper].slot = s
          /\ \A b \in Actor \ {Reaper} : call'[b] = call[b]
      BY <1>1, <1>3, <2>2, Zenon DEF Goto, Call
    <3> QED BY <1>1, <2>2, <3>1, Zenon
               DEF RegistryInv, Control, CallsVisible, CallsFrom, Reconciling, Holding, Collecting
  <2>3. CASE HoldUnits
    BY ZenonT(60), <2>1, <2>3 DEF HoldUnits
  <2>4. CASE HoldStatus
    BY Zenon, <2>1, <2>2, <2>4 DEF HoldStatus
  <2> QED BY <2>3, <2>4, Zenon
<1>5. UNCHANGED <<registry, clock>> \/ (Done(Reaper) /\ (Shows(s) \/ Removes(s) \/ UNCHANGED <<entry, active, reserved, expired>>))
  <2>1. ASSUME NEW r, DeleteHold(s, r)
        PROVE  Removes(s) \/ UNCHANGED <<entry, active, reserved, expired>>
    <3>1. CASE r = "ok"
      <4>1. RemoveEntry(s)
        BY Zenon, <2>1, <3>1 DEF DeleteHold
      <4> QED BY Zenon, <1>2, <1>3, <4>1, RemoveStep
    <3>2. CASE r # "ok"
      BY Zenon, <2>1, <3>2 DEF DeleteHold
    <3> QED BY Zenon, <3>1, <3>2
  <2>2. ASSUME Promote(s) PROVE Shows(s)
    BY <1>2, <1>3, <2>2, ShowRunning, Zenon
  <2>3. ASSUME disk[s].status \in Terminal, CommitTerminal(s, disk[s].status) PROVE Shows(s)
    BY <1>2, <1>3, <2>3, ShowTerminal, Zenon
  <2> HIDE DEF s
  <2>4. CASE HoldStatus
    BY ZenonT(60), <1>4, <2>1, <2>2, <2>3, <2>4 DEF HoldStatus, s
  <2>5. CASE HoldUnits
    BY ZenonT(60), <1>4, <2>1, <2>2, <2>5 DEF HoldUnits, s, registry, clock
  <2> QED BY <2>4, <2>5, Zenon
<1> HIDE DEF s
<1>6. CASE UNCHANGED <<entry, active, reserved, expired>>
  BY <1>1, <1>2, <1>3, <1>4, <1>6, QuietKept, Zenon
<1>7. CASE Done(Reaper) /\ (Shows(s) \/ Removes(s))
  <2>1. call'[Reaper].pc = "idle"
    BY <1>1, <1>7, DoneCalls, Zenon
  <2>2. \A a \in Actor : call'[a].pc \in Reconciling => call'[a].slot # s
    BY <1>3, <1>4, Zenon
  <2>3. call'[Reaper].pc \notin Holding \union Collecting
    BY <2>1, Zenon DEF Holding, Collecting
  <2>4. create'[s] \in {"none", "helper"}
    BY <1>1, <1>2, Zenon
  <2>5. CASE Shows(s)
    BY <1>1, <1>2, <1>3, <1>4, <2>3, <2>4, <2>5, ShowKept, Zenon
  <2>6. CASE Removes(s)
    BY ZenonT(60), <1>1, <1>2, <1>3, <1>4, <2>2, <2>3, <2>4, <2>6, RemoveKept
  <2> QED BY <1>7, <2>5, <2>6, Zenon
<1> QED BY <1>5, <1>6, <1>7, Zenon DEF registry, clock

\* A collected record was terminal and past its TTL, so that no call is about it.
LEMMA GcKept ==
    ASSUME RegistryInv, GcUnlink
    PROVE  Kept
<1> DEFINE s == call[Reaper].slot
<1>1. call[Reaper].pc = "unlink" /\ Reaper \in Actor /\ UNCHANGED <<create, boot>> /\ Done(Reaper)
  BY ZenonT(60) DEF GcUnlink, Actor
<1>2. s \in Slot /\ IsTerminal(s) /\ s \in expired /\ Up
  BY ZenonT(60), <1>1 DEF RegistryInv, Control, ReaperOwns, StartupAlone
<1>3. /\ EntryTypes /\ AccountsExact /\ CreatesFrom
      /\ \A a \in Actor : call[a].pc \in Reconciling => call[a].slot # s
      /\ create[s] \in {"none", "helper"}
  BY <1>1, <1>2, Zenon DEF RegistryInv, Control, RegistryTypeOK, EntryTypes, CreatesFrom, CallsVisible,
                    CreateOwns, OneFlag, Hidden
<1>4. /\ CallsFrom /\ call'[Reaper].pc = "idle" /\ \A b \in Actor \ {Reaper} : call'[b] = call[b]
  BY <1>1, DoneCalls, Zenon
<1>5. /\ \A a \in Actor : call'[a].pc \in Reconciling => call'[a].slot # s
      /\ call'[Reaper].pc \notin Holding \union Collecting
  BY <1>3, <1>4, Zenon DEF Reconciling, Holding, Collecting
<1>6. RemoveEntry(s) \/ UNCHANGED <<entry, active, reserved, expired>>
  BY Zenon DEF GcUnlink, registry, clock
<1>7. CASE RemoveEntry(s)
  <2>1. Removes(s)
    BY <1>2, <1>3, <1>7, RemoveStep, Zenon
  <2> QED BY <1>1, <1>2, <1>3, <1>4, <1>5, <2>1, RemoveKept, Zenon
<1>8. CASE UNCHANGED <<entry, active, reserved, expired>>
  BY Zenon, <1>1, <1>2, <1>3, <1>4, <1>8, QuietKept
<1> QED BY <1>6, <1>7, <1>8, Zenon

LEMMA ReapKept ==
    ASSUME RegistryInv, Reap
    PROVE  Kept
BY SweepKept, ReapSlotKept, HoldKept, GcKept, Zenon DEF Reap

\* What startup makes of a directory: an entry, at most a hold, or none.
Adopts(s, e) ==
    /\ e \in Entry /\ e.state # "free" /\ (e.counted <=> e.state \notin Terminal)
    /\ ~e.creating /\ (e.state \in Terminal => ~e.hold)
    /\ entry' = [entry EXCEPT ![s] = e] /\ reserved' = reserved + 1
    /\ active' = IF e.counted THEN active + 1 ELSE active

LEMMA AdoptedEntry ==
    ASSUME RegistryInv, NEW s \in Slot, NEW state \in {"dispatching", "running"} \union Terminal, NEW l \in BOOLEAN,
           Insert(s, Adopted(s, state, l))
    PROVE  \E e : Adopts(s, e)
<1> DEFINE e == Adopted(s, state, l)
<1>1. disk[s] \in Dir
  BY Zenon DEF RegistryInv, RegistryTypeOK
<1>2. disk[s].id \in Exec \union {NoExec}
  BY <1>1, Zenon DEF Dir
<1>3. /\ e.state = state /\ e.creating = FALSE /\ e.hold = (state = "dispatching")
      /\ e.counted = (state \notin Terminal)
  BY ZenonT(60) DEF Adopted
<1>4. e \in Entry
  <2>1. (state = "dispatching") \in BOOLEAN /\ (state \notin Terminal) \in BOOLEAN /\ state \in State
    BY Zenon DEF State
  <2> QED BY Zenon, <1>2, <2>1 DEF Adopted, Entry
<1>5. state # "free" /\ (state \in Terminal => state # "dispatching")
  BY Zenon DEF Terminal
<1>6. Insert(s, e)
  BY Zenon
<1> HIDE DEF e
<1> QED BY Zenon, <1>3, <1>4, <1>5, <1>6 DEF Insert, Adopts

LEMMA AdoptStep ==
    ASSUME RegistryInv, NEW s \in Slot, AdoptSlot(s)
    PROVE  /\ expired' \subseteq expired
           /\ UNCHANGED <<entry, active, reserved>> \/ \E e : Adopts(s, e)
<1>0. disk[s].lost \in BOOLEAN
  BY Zenon DEF RegistryInv, RegistryTypeOK, Dir
<1>1. ASSUME NEW r, AdoptNoUnit(s, r)
      PROVE  /\ expired' \subseteq expired
             /\ UNCHANGED <<entry, active, reserved>> \/ \E e : Adopts(s, e)
  <2>1. "cancelled" \in Terminal
    BY Zenon DEF Terminal
  <2> QED BY Zenon, <1>0, <1>1, <2>1, AdoptedEntry DEF AdoptNoUnit
<1>2. ASSUME NEW status \in Terminal, Insert(s, Adopted(s, status, disk[s].lost)) PROVE \E e : Adopts(s, e)
  BY Zenon, <1>0, <1>2, AdoptedEntry
<1>3. ASSUME NEW state \in {"dispatching", "running"}, Insert(s, Adopted(s, state, disk[s].lost))
      PROVE  \E e : Adopts(s, e)
  BY <1>0, <1>3, AdoptedEntry, Zenon
<1> QED BY <1>1, <1>2, <1>3 DEF AdoptSlot

\* The states of startup.
Boot == [pc : {"down", "adopt", "orphans", "up"}, todo : SUBSET Slot, units : SUBSET Slot, live : [Slot -> Live]]

LEMMA AdoptKept ==
    ASSUME RegistryInv, NEW s \in Slot, AdoptSlot(s)
    PROVE  Kept
<1>1. /\ boot \in Boot /\ boot.pc = "adopt" /\ s \in boot.todo
      /\ boot' = [boot EXCEPT !.todo = @ \ {s}] /\ UNCHANGED <<create, call>>
  BY Zenon DEF AdoptSlot, RegistryInv, RegistryTypeOK, Boot
<1>2. boot'.pc = "adopt" /\ boot'.todo = boot.todo \ {s}
  BY <1>1, Zenon DEF Boot
<1>3. /\ ~Up /\ entry[s] = Free /\ EntryTypes /\ AccountsExact /\ Reaper \in Actor
      /\ \A a \in Actor : call[a].pc = "idle"
      /\ \A t \in Slot : create[t] \in {"none", "helper"}
  BY <1>1, Zenon DEF Up, RegistryInv, RegistryTypeOK, EntryTypes, Control, StartupAlone, Actor
<1>4. Final /\ CreateOwns' /\ CallsVisible' /\ ReaperOwns'
  BY <1>1, <1>3, Zenon DEF Final, CreateOwns, CallsVisible, ReaperOwns, Reconciling
<1>5. CASE UNCHANGED <<entry, active, reserved>>
  <2>1. AccountsExact' /\ OneFlag'
    BY <1>5, Zenon DEF RegistryInv, Control, AccountsExact, OneFlag, Taken, IsTerminal, Hidden
  <2>2. StartupAlone'
    BY <1>1, <1>2, <1>3, <1>5, Zenon DEF RegistryInv, Control, StartupAlone
  <2> QED BY <1>4, <2>1, <2>2, Zenon DEF Kept, Control
<1>6. ASSUME NEW e, Adopts(s, e) PROVE Kept
  <2>1. EntryChange(s)
    BY ZenonT(60), <1>3, <1>6, InsertStep DEF Adopts
  <2>2. AccountsExact'
    BY <1>3, <2>1, OneEntry, Zenon
  <2>3. entry'[s] = e /\ \A t \in Slot \ {s} : entry'[t] = entry[t]
    BY <1>3, <1>6, Zenon DEF Adopts, EntryTypes
  <2>4. OneFlag'
    BY <1>6, <2>3, Zenon DEF RegistryInv, Control, OneFlag, Adopts, Taken, IsTerminal, Hidden
  <2>5. StartupAlone'
    BY <1>1, <1>2, <1>3, <2>3, Zenon DEF RegistryInv, Control, StartupAlone, Boot
  <2> QED BY <1>4, <2>2, <2>4, <2>5, Zenon DEF Kept, Control
<1> QED BY <1>5, <1>6, AdoptStep, Zenon

\* Startup lists, stops what nobody claims, and opens.
LEMMA StartupKept ==
    ASSUME RegistryInv, Startup
    PROVE  Kept
<1>1. CASE \E s \in Slot : AdoptSlot(s)
  BY <1>1, AdoptKept, Zenon
<1>2. CASE StartupList \/ StartupOrphans \/ StartupStop
  <2>1. ~Up /\ UNCHANGED <<entry, active, reserved, expired, create, call>>
    BY <1>2, Zenon DEF StartupList, StartupOrphans, StartupStop, Up, registry, clock
  <2>2. AccountsExact' /\ Final /\ CreateOwns' /\ OneFlag' /\ CallsVisible' /\ ReaperOwns'
    BY Zenon, <2>1
       DEF RegistryInv, Control, AccountsExact, Final, CreateOwns, OneFlag, CallsVisible,
         ReaperOwns,
                Taken, IsTerminal, Hidden
  <2>3. boot \in Boot
    BY Zenon DEF RegistryInv, RegistryTypeOK, Boot
  <2>4. /\ boot'.pc # "down"
        /\ boot'.pc = "adopt" => boot.pc = "down" /\ boot'.todo \subseteq Slot
    <3>1. CASE StartupList
      <4> DEFINE dirs == {s \in Slot : disk[s].dir}
      <4>1. dirs \subseteq Slot
        BY Zenon
      <4> HIDE DEF dirs
      <4>2. boot'.pc = "adopt" /\ boot'.todo = dirs
        <5>1. ASSUME NEW U, NEW L, boot' = [pc |-> "adopt", todo |-> dirs, units |-> U, live |-> L]
              PROVE  boot'.pc = "adopt" /\ boot'.todo = dirs
          BY <5>1, Zenon
        <5>2. ASSUME boot' = [Down EXCEPT !.pc = "adopt", !.todo = dirs]
              PROVE  boot'.pc = "adopt" /\ boot'.todo = dirs
          BY <5>2, Zenon DEF Down
        <5> QED BY <3>1, <5>1, <5>2, Zenon DEF StartupList, dirs
      <4>3. boot.pc = "down"
        BY <3>1, Zenon DEF StartupList
      <4> QED BY <4>1, <4>2, <4>3, Zenon
    <3>2. CASE StartupOrphans
      BY <2>3, <3>2, Zenon DEF StartupOrphans, Boot
    <3>3. CASE StartupStop
      <4>1. boot.pc = "orphans"
        BY <3>3, Zenon DEF StartupStop
      <4>2. CASE boot' = [Down EXCEPT !.pc = "up"]
        BY <4>2, Zenon DEF Down
      <4>3. ASSUME NEW s, boot' = [boot EXCEPT !.todo = @ \ {s}] PROVE boot'.pc = "orphans"
        BY <2>3, <4>1, <4>3, Zenon DEF Boot
      <4> QED BY ZenonT(60), <3>3, <4>2, <4>3 DEF StartupStop
    <3> QED BY Zenon, <1>2, <3>1, <3>2, <3>3
  <2>5. StartupAlone'
    BY <2>1, <2>4, Zenon DEF RegistryInv, Control, StartupAlone
  <2> QED BY <2>2, <2>5, Zenon DEF Kept, Control
<1> QED BY <1>1, <1>2, Zenon DEF Startup

\* The registry is empty, whatever it held.
LEMMA EmptyAccounts ==
    ASSUME NEW e, e = [s \in Slot |-> Free]
    PROVE  /\ Cardinality({s \in Slot : e[s].counted}) = 0
           /\ Cardinality({s \in Slot : e[s].state # "free"}) = 0
           /\ \A s \in Slot : e[s] = Free
           /\ Free.state = "free" /\ ~Free.counted /\ ~Free.creating /\ ~Free.hold
<1>1. Free.state = "free" /\ ~Free.counted /\ ~Free.creating /\ ~Free.hold
  BY Zenon DEF Free
<1>2. \A s \in Slot : e[s] = Free
  BY Zenon
<1>3. {s \in Slot : e[s].counted} = {} /\ {s \in Slot : e[s].state # "free"} = {}
  BY <1>1, <1>2, Zenon
<1> QED BY <1>1, <1>2, <1>3, FS_EmptySet, Zenon

LEMMA CrashKept ==
    ASSUME RegistryInv, Crash
    PROVE  Kept
<1>1. /\ \A s \in Slot : entry'[s] = Free
      /\ Free.state = "free" /\ ~Free.counted /\ ~Free.creating /\ ~Free.hold
      /\ Cardinality({s \in Slot : entry'[s].counted}) = 0
      /\ Cardinality({s \in Slot : entry'[s].state # "free"}) = 0
  BY Zenon, EmptyAccounts DEF Crash
<1>2. active' = 0 /\ reserved' = 0 /\ boot'.pc = "down" /\ Reaper \in Actor
  BY Zenon DEF Crash, Down, Actor
<1>3. /\ \A a \in Actor : call'[a].pc = "idle"
      /\ \A s \in Slot : create'[s] \in {"none", "helper"}
  BY Zenon DEF Crash, IdleCall
<1>4. AccountsExact'
  BY <1>1, <1>2, Zenon DEF AccountsExact, Taken, IsTerminal
<1>5. OneFlag'
  BY <1>1, Zenon DEF OneFlag, Taken, IsTerminal, Hidden, Terminal
<1>6. CreateOwns' /\ CallsVisible' /\ ReaperOwns' /\ StartupAlone' /\ Final
  BY ZenonT(60), <1>1, <1>2, <1>3
     DEF CreateOwns, CallsVisible, ReaperOwns, StartupAlone, Final, Reconciling
<1> QED BY <1>4, <1>5, <1>6, Zenon DEF Kept, Control
-----------------------------------------------------------------------------
(* Types.  A record that is there names its exec, so that what gc_slot pushes    *)
(* on the tombstones is an exec's id.                                           *)

NamedEntry == {e \in Entry : e.state # "free" => e.id \in Exec}
RegTypes == entry \in [Slot -> NamedEntry] /\ tombstones \in Seq(Exec) /\ late \subseteq Slot /\ expired \subseteq Slot
ActorTypes == create \in [Slot -> CreatePC] /\ call \in [Actor -> Call]
SysTypes == disk \in [Slot -> Dir] /\ unit \in [Slot -> Unit]
BootTypes == boot \in Boot /\ crashes \in 0..MaxCrashes
FaultTypes == faults \in 0..MaxFaults
Types == RegTypes /\ ActorTypes /\ SysTypes /\ BootTypes /\ FaultTypes

LEMMA TypesFromInv ==
    ASSUME Types
    PROVE  /\ entry \in [Slot -> Entry]
           /\ \A a \in Actor : call[a] \in Call /\ call[a].slot \in Slot
           /\ \A s \in Slot : /\ entry[s] \in Entry /\ disk[s] \in Dir /\ unit[s] \in Unit
                              /\ disk[s].status \in Phase /\ disk[s].id \in Exec \union {NoExec}
                              /\ unit[s].id \in Exec \union {NoExec} /\ unit[s].phase \in Phase
                              /\ Taken(s) => entry[s].id \in Exec
BY Zenon DEF Types, RegTypes, NamedEntry, ActorTypes, SysTypes, Call, Dir, Unit, Taken

\* The constants of the record types.
LEMMA TypeConstants ==
    /\ Free \in NamedEntry /\ NoDir \in Dir /\ NoUnit \in Unit /\ IdleCall \in Call
    /\ Down \in Boot /\ [Down EXCEPT !.pc = "up"] \in Boot
<1>1. Free \in NamedEntry
  BY Zenon DEF NamedEntry, Free, Entry, State
<1>2. NoDir \in Dir /\ NoUnit \in Unit
  BY Zenon DEF NoDir, Dir, State, Phase, NoUnit, Unit
<1>3. IdleCall \in Call
  BY RegistryAssumption, Zenon DEF IdleCall, Call, Phase
<1>4. Down \in Boot
  BY Zenon DEF Down, Boot, Live
<1>5. [Down EXCEPT !.pc = "up"] \in Boot
  BY <1>4, Zenon DEF Boot
<1> QED BY <1>1, <1>2, <1>3, <1>4, <1>5, Zenon

\* Faults are spent within their bound.
LEMMA Spending ==
    ASSUME FaultTypes, Fault \/ NoFault \/ \E r, q : Spend(r, q)
    PROVE  FaultTypes'
BY RegistryAssumption DEF FaultTypes, Fault, NoFault, Spend, Cost

\* Stopping units leaves units.
LEMMA StopTypes ==
    ASSUME SysTypes, FaultTypes, NEW s \in Slot
    PROVE  /\ \A r : Stop(s, r) \/ StopChecked(s, r) => unit' \in [Slot -> Unit]
           /\ StopOnly(s) => unit' \in [Slot -> Unit] /\ FaultTypes'
<1>1. unit \in [Slot -> Unit] /\ [unit EXCEPT ![s] = NoUnit] \in [Slot -> Unit]
  BY TypeConstants, Zenon DEF SysTypes
<1>2. ASSUME NEW r, Stop(s, r) PROVE unit' \in [Slot -> Unit]
  BY <1>1, <1>2, Zenon DEF Stop
<1>3. ASSUME NEW r, StopChecked(s, r) PROVE unit' \in [Slot -> Unit]
  <2>1. unit[s] \in Unit
    BY <1>1, Zenon
  <2>2. [unit[s] EXCEPT !.work = FALSE] \in Unit
    BY Zenon, <2>1 DEF Unit
  <2> DEFINE u == [unit[s] EXCEPT !.work = FALSE]
  <2>3. [unit EXCEPT ![s].work = FALSE] = [unit EXCEPT ![s] = u]
    BY Zenon
  <2> HIDE DEF u
  <2>4. [unit EXCEPT ![s] = u] \in [Slot -> Unit]
    BY <1>1, <2>2, Zenon DEF u
  <2> QED BY Zenon, <1>2, <1>3, <2>3, <2>4 DEF StopChecked
<1>4. StopOnly(s) => unit' \in [Slot -> Unit] /\ FaultTypes'
  BY <1>2, Spending, Zenon DEF StopOnly
<1> QED BY <1>2, <1>3, <1>4, Zenon

\* A record written into a directory leaves a directory.
LEMMA RecordedTypes ==
    ASSUME NEW d \in Dir, NEW e \in Entry
    PROVE  Recorded(d, e) \in Dir
<1>1. e.id \in Exec \union {NoExec} /\ e.state \in State /\ e.lost \in BOOLEAN
  BY Zenon DEF Entry
<1> QED BY Zenon, <1>1 DEF Recorded, Dir

\* What the registry's transitions write is well typed.
DiskTypes == disk \in [Slot -> Dir]

LEMMA BecomesTypes ==
    ASSUME Types, NEW s \in Slot, NEW e \in NamedEntry, Becomes(s, e)
    PROVE  entry' \in [Slot -> NamedEntry] /\ DiskTypes'
<1>1. e \in Entry
  BY Zenon DEF NamedEntry
<1>2. Recorded(disk[s], e) \in Dir
  BY <1>1, TypesFromInv, RecordedTypes, Zenon
<1> QED BY <1>2, Zenon DEF Types, RegTypes, SysTypes, DiskTypes, Becomes

LEMMA NamedChange ==
    ASSUME Types, NEW s \in Slot, Taken(s), NEW e \in Entry, e.id = entry[s].id
    PROVE  e \in NamedEntry
BY TypesFromInv, Zenon DEF NamedEntry

LEMMA TransitionTypes ==
    ASSUME Types, NEW s \in Slot,
           \/ CommitRunning(s) \/ Promote(s) \/ MarkLost(s)
           \/ \E phase \in Terminal : CommitTerminal(s, phase)
    PROVE  RegTypes' /\ DiskTypes'
<1> DEFINE old == entry[s]
<1>1. old \in Entry /\ (Taken(s) => old.id \in Exec)
  BY TypesFromInv, Zenon
<1>2. ASSUME NEW e \in Entry, e.id = old.id, Becomes(s, e)
      PROVE  entry' \in [Slot -> NamedEntry] /\ DiskTypes'
  <2>1. CASE Taken(s)
    BY ZenonT(60), <1>2, <2>1, NamedChange, BecomesTypes
  <2>2. CASE ~Taken(s)
    BY <1>2, <2>2, Zenon DEF Becomes, Types, RegTypes, SysTypes, DiskTypes
  <2> QED BY <2>1, <2>2, Zenon
<1>3. CASE CommitRunning(s)
  <2> DEFINE e == [old EXCEPT !.state = IF @ = "dispatching" THEN "running" ELSE @, !.creating = FALSE, !.hold = FALSE]
  <2>1. e \in Entry /\ e.id = old.id
    BY Zenon, <1>1 DEF Entry, State
  <2>2. Becomes(s, e)
    BY <1>3, Zenon DEF CommitRunning
  <2> HIDE DEF e
  <2> QED BY <1>2, <1>3, <2>1, <2>2, Zenon DEF CommitRunning, Types, RegTypes, clock
<1>4. CASE Promote(s)
  <2> DEFINE e == [old EXCEPT !.hold = FALSE, !.state = IF @ = "dispatching" THEN "running" ELSE @]
  <2>1. e \in Entry /\ e.id = old.id
    BY Zenon, <1>1 DEF Entry, State
  <2>2. Becomes(s, e)
    BY <1>4, Zenon DEF Promote
  <2> HIDE DEF e
  <2> QED BY <1>2, <1>4, <2>1, <2>2, Zenon DEF Promote, Types, RegTypes, clock
<1>5. CASE MarkLost(s)
  <2> DEFINE e == [old EXCEPT !.state = "cancelled", !.lost = TRUE, !.counted = FALSE]
  <2>1. e \in Entry /\ e.id = old.id
    BY Zenon, <1>1 DEF Entry, State, Terminal
  <2>2. IsTerminal(s) \/ Becomes(s, e)
    BY <1>5, Zenon DEF MarkLost
  <2> HIDE DEF e
  <2> QED BY <1>2, <1>5, <2>1, <2>2, Zenon
             DEF MarkLost, Types, RegTypes, SysTypes, DiskTypes, registry, clock
<1>6. ASSUME NEW phase \in Terminal, CommitTerminal(s, phase) PROVE RegTypes' /\ DiskTypes'
  <2> DEFINE e == [old EXCEPT !.state = IF IsTerminal(s) THEN @ ELSE phase,
                              !.creating = FALSE, !.hold = FALSE, !.counted = FALSE]
  <2>1. e \in Entry /\ e.id = old.id
    BY Zenon, <1>1 DEF Entry, State
  <2>2. Becomes(s, e)
    BY Zenon, <1>6 DEF CommitTerminal
  <2> HIDE DEF e
  <2> QED BY Zenon, <1>2, <1>6, <2>1, <2>2 DEF CommitTerminal, Types, RegTypes
<1> QED BY <1>3, <1>4, <1>5, <1>6, Zenon

LEMMA RemoveTypes ==
    ASSUME Types, NEW s \in Slot, RemoveEntry(s)
    PROVE  entry' \in [Slot -> NamedEntry] /\ expired' \subseteq Slot
BY TypeConstants, Zenon DEF Types, RegTypes, RemoveEntry

LEMMA DeleteTypes ==
    ASSUME Types, NEW s \in Slot, NEW r, DeleteDir(s, r)
    PROVE  DiskTypes'
BY TypeConstants, Zenon DEF Types, SysTypes, DiskTypes, DeleteDir

LEMMA DeleteHoldTypes ==
    ASSUME Types, NEW s \in Slot, NEW r, DeleteHold(s, r)
    PROVE  RegTypes' /\ DiskTypes'
BY RemoveTypes, DeleteTypes, Zenon DEF Types, RegTypes, DeleteHold

\* The runner writes its status, its rings and its unit's state.
LEMMA RunnerTypes ==
    ASSUME Types, NEW s \in Slot, Runner(s)
    PROVE  Types'
<1> DEFINE u == unit[s]
<1>1. /\ UNCHANGED <<registry, create, call, clock, boot, crashes>>
      /\ u \in Unit /\ u.id \in Exec \union {NoExec} /\ u.phase \in Phase
      /\ disk[s] \in Dir /\ DiskTypes
  BY TypesFromInv, Zenon
     DEF Types, SysTypes, DiskTypes, Runner, RunnerSpawn, RunnerStarted, WorkloadEnds,
       RunnerPublish,
     RunnerExit, RunnerDies, WorkloadUnbound, bounds
<1>2. ASSUME NEW phase \in Phase, Publish(s, phase) PROVE DiskTypes'
  <2> DEFINE d == [disk[s] EXCEPT !.status = phase, !.by = u.id]
  <2>1. d \in Dir
    BY Zenon, <1>1 DEF Dir
  <2>2. disk' = [disk EXCEPT ![s] = d]
    BY Zenon, <1>2 DEF Publish
  <2> HIDE DEF d
  <2> QED BY <1>1, <2>1, <2>2, Zenon DEF DiskTypes
<1>3. /\ \A r \in {"failed", "started", "published"} : [u EXCEPT !.run = r] \in Unit
      /\ [u EXCEPT !.run = "failed", !.work = FALSE] \in Unit
      /\ [u EXCEPT !.run = "spawned", !.work = TRUE] \in Unit
      /\ [u EXCEPT !.work = FALSE] \in Unit
  BY Zenon, <1>1 DEF Unit
<1>4. \A p \in Phase : [u EXCEPT !.run = "reaped", !.work = FALSE, !.phase = p] \in Unit
  BY Zenon, <1>1 DEF Unit
<1>5. \A v \in Unit : [unit EXCEPT ![s] = v] \in [Slot -> Unit]
  BY Zenon DEF Types, SysTypes
<1>6. [disk EXCEPT ![s].log = u.id] \in [Slot -> Dir]
  <2> DEFINE d == [disk[s] EXCEPT !.log = u.id]
  <2>1. d \in Dir
    BY <1>1, Zenon DEF Dir
  <2>2. [disk EXCEPT ![s].log = u.id] = [disk EXCEPT ![s] = d]
    BY Zenon
  <2> HIDE DEF d
  <2> QED BY <1>1, <2>1, <2>2, Zenon DEF DiskTypes
<1>7. unit' \in [Slot -> Unit]
  <2>1. \A r : [unit EXCEPT ![s].run = r] = [unit EXCEPT ![s] = [u EXCEPT !.run = r]]
    BY Zenon
  <2>2. [unit EXCEPT ![s].run = "failed", ![s].work = FALSE] = [unit EXCEPT ![s] = [u EXCEPT !.run = "failed", !.work = FALSE]]
    BY Zenon
  <2>3. [unit EXCEPT ![s].run = "spawned", ![s].work = TRUE] = [unit EXCEPT ![s] = [u EXCEPT !.run = "spawned", !.work = TRUE]]
    BY Zenon
  <2>4. [unit EXCEPT ![s].work = FALSE] = [unit EXCEPT ![s] = [u EXCEPT !.work = FALSE]]
    BY Zenon
  <2>5. \A p : [unit EXCEPT ![s].run = "reaped", ![s].work = FALSE, ![s].phase = p]
                 = [unit EXCEPT ![s] = [u EXCEPT !.run = "reaped", !.work = FALSE, !.phase = p]]
    BY Zenon
  <2>6. "exited" \in Phase /\ "cancelled" \in Phase
    BY Zenon DEF Phase, Terminal
  <2> QED
    <3>1. CASE WorkloadEnds(s)
      <4>1. PICK p \in {"exited", "cancelled"} :
               unit' = [unit EXCEPT ![s].run = "reaped", ![s].work = FALSE, ![s].phase = p]
        BY Zenon, <3>1 DEF WorkloadEnds
      <4> QED BY ZenonT(60), <1>4, <1>5, <2>5, <2>6, <4>1
    <3>2. CASE RunnerSpawn(s)
      <4>1. \/ unit' = [unit EXCEPT ![s].run = "failed"]
            \/ unit' = [unit EXCEPT ![s].run = "spawned", ![s].work = TRUE]
            \/ unit' = [unit EXCEPT ![s] = NoUnit]
        BY <3>2, Zenon DEF RunnerSpawn
      <4>2. CASE unit' = [unit EXCEPT ![s].run = "failed"]
        BY <1>3, <1>5, <2>1, <4>2, Zenon
      <4>3. CASE unit' = [unit EXCEPT ![s].run = "spawned", ![s].work = TRUE]
        BY Zenon, <1>3, <1>5, <2>3, <4>3
      <4> QED BY <1>5, <4>1, <4>2, <4>3, TypeConstants, Zenon
    <3>3. CASE RunnerStarted(s)
      <4>1. \/ unit' = [unit EXCEPT ![s].run = "started"]
            \/ unit' = [unit EXCEPT ![s].run = "failed", ![s].work = FALSE]
        BY <3>3, Zenon DEF RunnerStarted
      <4> QED BY <1>3, <1>5, <2>1, <2>2, <4>1, Zenon
    <3>4. CASE RunnerPublish(s) \/ RunnerDies(s)
      <4>1. \E r \in {"published", "failed"} : unit' = [unit EXCEPT ![s].run = r]
        BY <3>4, Zenon DEF RunnerPublish, RunnerDies
      <4> QED BY <1>3, <1>5, <2>1, <4>1, Zenon
    <3>5. CASE RunnerExit(s)
      BY <1>5, <3>5, TypeConstants, Zenon DEF RunnerExit
    <3>6. CASE WorkloadUnbound(s)
      BY <1>3, <1>5, <2>4, <3>6, Zenon DEF WorkloadUnbound
    <3> QED BY <3>1, <3>2, <3>3, <3>4, <3>5, <3>6, Zenon DEF Runner
<1>8. DiskTypes' /\ FaultTypes'
  <2> HIDE DEF u
  <2>1. {"started", "spawn_failed", "infra_failed"} \subseteq Phase /\ FaultTypes
    BY Zenon DEF Phase, Terminal, Types
  <2>2. DiskTypes'
    <3>1. \/ UNCHANGED disk \/ disk' = [disk EXCEPT ![s].log = unit[s].id]
          \/ \E phase \in Phase : Publish(s, phase)
      BY <1>1, <2>1, Zenon
         DEF Runner, RunnerSpawn, RunnerStarted, WorkloadEnds, RunnerPublish, RunnerExit,
           RunnerDies,
         WorkloadUnbound, u
    <3> QED BY <1>1, <1>2, <1>6, <3>1, Zenon DEF DiskTypes, u
  <2>3. Fault \/ NoFault
    BY Zenon
       DEF Runner, RunnerSpawn, RunnerStarted, WorkloadEnds, RunnerPublish, RunnerExit, RunnerDies,
         WorkloadUnbound, NoFault, bounds
  <2> QED BY <2>1, <2>2, <2>3, Spending, Zenon
<1> QED BY <1>1, <1>7, <1>8, Zenon
           DEF Types, RegTypes, ActorTypes, SysTypes, DiskTypes, BootTypes, registry, clock

LEMMA RegisteredTypes ==
    ASSUME Types, NEW s \in Slot
    PROVE  [unit EXCEPT ![s] = Registered(s)] \in [Slot -> Unit]
<1>1. disk[s].id \in Exec \union {NoExec} /\ unit \in [Slot -> Unit]
  BY TypesFromInv, Zenon DEF Types, SysTypes
<1>2. Registered(s) \in Unit
  BY ZenonT(60), <1>1 DEF Registered, NoUnit, Unit, Phase
<1> QED BY <1>1, <1>2, Zenon

LEMMA HelperTypes ==
    ASSUME Types, NEW s \in Slot, HelperRegisters(s)
    PROVE  Types'
<1>1. unit' \in [Slot -> Unit]
  BY RegisteredTypes, Zenon DEF Types, SysTypes, HelperRegisters
<1>2. create' \in [Slot -> CreatePC]
  BY Zenon DEF Types, ActorTypes, HelperRegisters, CreatePC
<1> QED BY Zenon, <1>1, <1>2
           DEF Types, RegTypes, ActorTypes, SysTypes, BootTypes, FaultTypes, HelperRegisters,
           registry, clock, bounds

LEMMA ReserveTypes ==
    ASSUME Types, NEW x \in Exec, ReserveCreate(x)
    PROVE  Types'
<1>1. PICK s \in Slot :
        /\ entry' = [entry EXCEPT ![s] = [Free EXCEPT !.id = x, !.state = "dispatching",
                                                      !.creating = TRUE, !.counted = TRUE]]
        /\ create' = [create EXCEPT ![s] = "persist"] /\ late' = late \ {s}
  BY Zenon DEF ReserveCreate
<1> DEFINE e == [Free EXCEPT !.id = x, !.state = "dispatching", !.creating = TRUE, !.counted = TRUE]
<1>2. e \in NamedEntry
  BY Zenon DEF Free, Entry, State, NamedEntry
<1> HIDE DEF e
<1>3. entry' \in [Slot -> NamedEntry]
  BY <1>1, <1>2, Zenon DEF Types, RegTypes, e
<1>4. create' \in [Slot -> CreatePC]
  BY <1>1, Zenon DEF Types, ActorTypes, CreatePC
<1> QED BY <1>1, <1>3, <1>4, Zenon
           DEF Types, RegTypes, ActorTypes, SysTypes, BootTypes, FaultTypes, ReserveCreate, bounds

LEMMA CreateTypes ==
    ASSUME Types, NEW s \in Slot, Create(s)
    PROVE  Types'
<1>1. create' \in [Slot -> CreatePC] /\ UNCHANGED <<call, boot, crashes>>
  <2>1. \A p \in CreatePC : [create EXCEPT ![s] = p] \in [Slot -> CreatePC]
    BY Zenon DEF Types, ActorTypes
  <2>2. {"none", "record", "start", "poll", "query", "stop", "remove"} \subseteq CreatePC
    BY Zenon DEF CreatePC
  <2> QED BY <2>1, <2>2, Zenon
             DEF Create, PrepareSlot, WriteDispatch, StartUnit, Poll, PollFails, Query, AbortStop,
                            AbortRemove, bounds
<1>2. SysTypes /\ FaultTypes /\ RegTypes
  BY Zenon DEF Types
<1>3. FaultTypes'
  <2>1. Fault \/ NoFault \/ (\E r, q : Spend(r, q))
    BY Zenon
       DEF Create, PrepareSlot, WriteDispatch, StartUnit, Poll, PollFails, Query, AbortStop,
         StopOnly,
           AbortRemove, bounds, NoFault
  <2> QED BY <1>2, <2>1, Spending, Zenon
<1>4. RegTypes' /\ SysTypes'
  <2>1. CASE PrepareSlot(s)
    <3> DEFINE d == [disk[s] EXCEPT !.dir = TRUE, !.status = "none", !.by = NoExec, !.cancel = FALSE, !.log = NoExec]
    <3>1. disk[s] \in Dir
      BY TypesFromInv, Zenon
    <3>2. d \in Dir
      BY ZenonT(60), <3>1 DEF Dir, Phase
    <3>3. UNCHANGED disk \/ disk' = [disk EXCEPT ![s] = d]
      BY <2>1, Zenon DEF PrepareSlot
    <3> HIDE DEF d
    <3> QED BY SMTT(30), <1>2, <2>1, <3>2, <3>3 DEF PrepareSlot, SysTypes, RegTypes, registry, clock
  <2>2. CASE WriteDispatch(s)
    <3>1. Recorded(disk[s], entry[s]) \in Dir
      BY TypesFromInv, RecordedTypes, Zenon
    <3> QED BY <1>2, <2>2, <3>1, Zenon DEF WriteDispatch, SysTypes, RegTypes, registry, clock
  <2>3. CASE StartUnit(s)
    BY <1>2, <2>3, RegisteredTypes, Zenon DEF StartUnit, SysTypes, RegTypes, registry, clock
  <2>4. CASE Poll(s) \/ Query(s)
    <3>1. \/ CommitRunning(s) \/ (\E phase \in Terminal : CommitTerminal(s, phase)) \/ UNCHANGED <<registry, disk, clock>>
      BY ZenonT(60), <2>4 DEF Poll, Query
    <3>2. UNCHANGED unit
      BY <2>4, Zenon DEF Poll, Query
    <3> QED BY <1>2, <3>1, <3>2, TransitionTypes, Zenon
               DEF SysTypes, DiskTypes, RegTypes, registry, clock
  <2>5. CASE PollFails(s)
    BY <1>2, <2>5, Zenon DEF PollFails, SysTypes, RegTypes, registry, clock
  <2>6. CASE AbortStop(s)
    BY <1>2, <2>6, StopTypes, Zenon DEF AbortStop, SysTypes, RegTypes, registry, clock
  <2>7. CASE AbortRemove(s)
    BY <1>2, <2>7, RemoveTypes, DeleteTypes, Zenon DEF AbortRemove, SysTypes, DiskTypes, RegTypes
  <2> QED BY <2>1, <2>2, <2>3, <2>4, <2>5, <2>6, <2>7, Zenon DEF Create
<1> QED BY <1>1, <1>3, <1>4, Zenon DEF Types, ActorTypes, BootTypes

LEMMA CallTypes ==
    ASSUME Types, NEW c \in Caller,
           DropGuard(c) \/ \E x \in Exec : Inspect(c, x) \/ Cancel(c, x) \/ ReadLogs(c, x)
    PROVE  Types'
<1>1. UNCHANGED <<active, reserved, tombstones, create, disk, unit, clock, boot, bounds>> /\ c \in Actor
  BY ZenonT(60) DEF DropGuard, Inspect, Cancel, Begin, ReadLogs, registry, Actor
<1>2. call' \in [Actor -> Call]
  <2>1. \A k \in Call : [call EXCEPT ![c] = k] \in [Actor -> Call]
    BY <1>1, Zenon DEF Types, ActorTypes
  <2>2. \A s \in Slot, x \in Exec :
           /\ \A then \in {"return", "cancel"} : [IdleCall EXCEPT !.pc = "check", !.slot = s, !.then = then, !.id = x] \in Call
           /\ [IdleCall EXCEPT !.pc = "read", !.slot = s, !.id = x] \in Call
    BY ZenonT(60) DEF IdleCall, Call, Phase
  <2>3. \/ call' = [call EXCEPT ![c] = IdleCall]
        \/ \E s \in Slot, x \in Exec :
             \/ \E then \in {"return", "cancel"} :
                  call' = [call EXCEPT ![c] = [IdleCall EXCEPT !.pc = "check", !.slot = s, !.then = then, !.id = x]]
             \/ call' = [call EXCEPT ![c] = [IdleCall EXCEPT !.pc = "read", !.slot = s, !.id = x]]
    BY ZenonT(60) DEF DropGuard, Done, Inspect, Cancel, Begin, ReadLogs
  <2>4. IdleCall \in Call
    BY Zenon, TypeConstants
  <2> QED BY <2>1, <2>2, <2>3, <2>4, ZenonT(40)
<1>3. entry' \in [Slot -> NamedEntry]
  <2>1. UNCHANGED entry \/ \E s \in Slot, g \in Nat : entry' = [entry EXCEPT ![s] = [entry[s] EXCEPT !.guards = g]]
    <3>1. CASE DropGuard(c)
      <4>1. call[c].slot \in Slot /\ entry[call[c].slot] \in Entry
        BY Zenon, <1>1, TypesFromInv
      <4> DEFINE s == call[c].slot
                 g == IF entry[s].guards > 0 THEN entry[s].guards - 1 ELSE 0
      <4>2. g \in Nat
        BY <4>1 DEF Entry
      <4>3. entry' = [entry EXCEPT ![s] = [entry[s] EXCEPT !.guards = g]]
        BY <3>1, Zenon DEF DropGuard
      <4> HIDE DEF g
      <4> QED BY ZenonT(60), <4>1, <4>2, <4>3
    <3>2. ASSUME NEW x \in Exec, ReadLogs(c, x) PROVE \E s \in Slot, g \in Nat : entry' = [entry EXCEPT ![s] = [entry[s] EXCEPT !.guards = g]]
      <4>1. PICK s \in Slot : entry' = [entry EXCEPT ![s].guards = @ + 1]
        BY Zenon, <3>2 DEF ReadLogs
      <4> DEFINE g == entry[s].guards + 1
      <4>2. entry[s] \in Entry
        BY Zenon, TypesFromInv
      <4>3. g \in Nat
        BY <4>2 DEF Entry
      <4>4. entry' = [entry EXCEPT ![s] = [entry[s] EXCEPT !.guards = g]]
        BY <4>1, Zenon
      <4> HIDE DEF g
      <4> QED BY Zenon, <4>3, <4>4
    <3> QED BY Zenon, <3>1, <3>2 DEF Inspect, Cancel, Begin, registry
  <2>2. ASSUME NEW s \in Slot, NEW g \in Nat PROVE [entry[s] EXCEPT !.guards = g] \in NamedEntry
    <3>1. entry[s] \in NamedEntry
      BY Zenon DEF Types, RegTypes
    <3> QED BY <3>1, Zenon DEF NamedEntry, Entry
  <2> QED BY <2>1, <2>2, Zenon DEF Types, RegTypes
<1> QED BY <1>1, <1>2, <1>3, Zenon
           DEF Types, RegTypes, ActorTypes, SysTypes, BootTypes, FaultTypes, bounds, clock

\* A call moves between the steps of its kind.
LEMMA GotoTypes ==
    ASSUME Types, NEW a \in Actor
    PROVE  /\ Done(a) => call' \in [Actor -> Call]
           /\ \A pc \in {"list", "after", "lose", "stop", "relist", "holdlist", "unlink"} :
                 Goto(a, pc) => call' \in [Actor -> Call]
           /\ \A pc \in {"check", "backstop"}, then \in {"poll", "last", "lastStopped"} :
                 call' = [call EXCEPT ![a].pc = pc, ![a].then = then] => call' \in [Actor -> Call]
           /\ \A phase \in Phase :
                 call' = [call EXCEPT ![a].pc = "commit", ![a].phase = phase] => call' \in [Actor -> Call]
           /\ \A pc \in {"adopted", "sweep"}, todo \in SUBSET Slot :
                 call' = [call EXCEPT ![a].pc = pc, ![a].todo = todo] => call' \in [Actor -> Call]
           /\ \A todo \in SUBSET Slot : call' = [call EXCEPT ![a].todo = todo] => call' \in [Actor -> Call]
           /\ \A s \in Slot, pc \in {"hold", "gc", "check"}, todo \in SUBSET Slot :
                 call' = [call EXCEPT ![a].slot = s, ![a].pc = pc, ![a].todo = todo] => call' \in [Actor -> Call]
<1> DEFINE k == call[a]
<1>1. k \in Call /\ \A m \in Call : [call EXCEPT ![a] = m] \in [Actor -> Call]
  BY Zenon DEF Types, ActorTypes
<1>2. Done(a) => call' \in [Actor -> Call]
  BY <1>1, TypeConstants, Zenon DEF Done
<1>3. ASSUME NEW pc \in {"list", "after", "lose", "stop", "relist", "holdlist", "unlink"}, Goto(a, pc)
      PROVE  call' \in [Actor -> Call]
  <2>1. [k EXCEPT !.pc = pc] \in Call
    BY <1>1, Zenon DEF Call
  <2>2. call' = [call EXCEPT ![a] = [k EXCEPT !.pc = pc]]
    BY <1>3, Zenon DEF Goto
  <2> QED BY <1>1, <2>1, <2>2, Zenon
<1>4. ASSUME NEW pc \in {"check", "backstop"}, NEW then \in {"poll", "last", "lastStopped"},
             call' = [call EXCEPT ![a].pc = pc, ![a].then = then]
      PROVE  call' \in [Actor -> Call]
  <2>1. [k EXCEPT !.pc = pc, !.then = then] \in Call
    BY Zenon, <1>1 DEF Call
  <2>2. call' = [call EXCEPT ![a] = [k EXCEPT !.pc = pc, !.then = then]]
    BY <1>4, Zenon
  <2> QED BY <1>1, <2>1, <2>2, Zenon
<1>5. ASSUME NEW phase \in Phase, call' = [call EXCEPT ![a].pc = "commit", ![a].phase = phase]
      PROVE  call' \in [Actor -> Call]
  <2>1. [k EXCEPT !.pc = "commit", !.phase = phase] \in Call
    BY Zenon, <1>1 DEF Call
  <2>2. call' = [call EXCEPT ![a] = [k EXCEPT !.pc = "commit", !.phase = phase]]
    BY <1>5, Zenon
  <2> QED BY <1>1, <2>1, <2>2, Zenon
<1>6. ASSUME NEW pc \in {"adopted", "sweep"}, NEW todo \in SUBSET Slot,
             call' = [call EXCEPT ![a].pc = pc, ![a].todo = todo]
      PROVE  call' \in [Actor -> Call]
  <2>1. [k EXCEPT !.pc = pc, !.todo = todo] \in Call
    BY Zenon, <1>1 DEF Call
  <2>2. call' = [call EXCEPT ![a] = [k EXCEPT !.pc = pc, !.todo = todo]]
    BY <1>6, Zenon
  <2> QED BY <1>1, <2>1, <2>2, Zenon
<1>7. ASSUME NEW todo \in SUBSET Slot, call' = [call EXCEPT ![a].todo = todo]
      PROVE  call' \in [Actor -> Call]
  <2>1. [k EXCEPT !.todo = todo] \in Call
    BY <1>1, Zenon DEF Call
  <2>2. call' = [call EXCEPT ![a] = [k EXCEPT !.todo = todo]]
    BY <1>7, Zenon
  <2> QED BY <1>1, <2>1, <2>2, Zenon
<1>8. ASSUME NEW s \in Slot, NEW pc \in {"hold", "gc", "check"}, NEW todo \in SUBSET Slot,
             call' = [call EXCEPT ![a].slot = s, ![a].pc = pc, ![a].todo = todo]
      PROVE  call' \in [Actor -> Call]
  <2>1. [k EXCEPT !.slot = s, !.pc = pc, !.todo = todo] \in Call
    BY ZenonT(60), <1>1 DEF Call
  <2>2. call' = [call EXCEPT ![a] = [k EXCEPT !.slot = s, !.pc = pc, !.todo = todo]]
    BY <1>8, Zenon
  <2> QED BY <1>1, <2>1, <2>2, Zenon
<1> HIDE DEF k
<1> QED BY <1>2, <1>3, <1>4, <1>5, <1>6, <1>7, <1>8, Zenon

\* The phase that a reconciliation commits is terminal, so that a record's state
\* is never a status that is none.
LEMMA ReconcileTypes ==
    ASSUME RegistryInv, Types, NEW a \in Actor, Reconcile(a)
    PROVE  Types'
<1> DEFINE s == call[a].slot
<1>1. /\ s \in Slot /\ UNCHANGED <<create, boot, crashes>> /\ SysTypes /\ FaultTypes /\ RegTypes /\ Terminal \subseteq Phase
  BY Zenon, TypesFromInv
     DEF Types, Reconcile, Check, Commit, List, StopOrphan, Lose, After, Backstop, Relist, bounds,
       Phase
<1> HIDE DEF s
<1>2. call' \in [Actor -> Call]
  <2>1. CASE Check(a)
    BY <1>1, <2>1, GotoTypes, Zenon DEF Check
  <2>2. CASE Commit(a) \/ List(a) \/ Lose(a)
    BY <2>2, GotoTypes, Zenon DEF Commit, List, Lose
  <2>3. CASE StopOrphan(a)
    <3>1. Goto(a, "lose") \/ Goto(a, "after")
      BY <2>3, Zenon DEF StopOrphan
    <3> QED BY <3>1, GotoTypes, ZenonT(60)
  <2>4. CASE Backstop(a)
    <3>1. \E then \in {"last", "lastStopped"} : call' = [call EXCEPT ![a].pc = "check", ![a].then = then]
      BY <2>4, Zenon DEF Backstop
    <3> QED BY <3>1, GotoTypes, Zenon
  <2>5. CASE After(a) \/ Relist(a)
    BY <2>5, GotoTypes, Zenon DEF After, Relist
  <2> QED BY <2>1, <2>2, <2>3, <2>4, <2>5, Zenon DEF Reconcile
<1>3. FaultTypes'
  <2>1. Fault \/ NoFault \/ \E r, q : Spend(r, q)
    BY Zenon
       DEF Reconcile, Check, Commit, List, StopOrphan, StopOnly, Lose, After, Backstop, Relist,
         bounds, NoFault
  <2> QED BY <1>1, <2>1, Spending, Zenon
<1>4. unit' \in [Slot -> Unit]
  <2>1. UNCHANGED unit \/ StopOnly(s) \/ \E r : StopChecked(s, r)
    BY Zenon DEF Reconcile, Check, Commit, List, StopOrphan, Lose, After, Backstop, Relist, s
  <2> QED BY <1>1, <2>1, StopTypes, Zenon DEF SysTypes
<1>5. RegTypes' /\ DiskTypes'
  <2>1. \/ UNCHANGED <<registry, disk, clock>> \/ CommitRunning(s) \/ MarkLost(s)
        \/ (call[a].pc = "commit" /\ CommitTerminal(s, call[a].phase))
        \/ (UNCHANGED <<registry, clock>> /\ disk' = [disk EXCEPT ![s].cancel = TRUE])
    BY ZenonT(60)
       DEF Reconcile, Check, Commit, List, StopOrphan, Lose, After, Backstop, Relist, s, registry,
         clock
  <2>2. call[a].pc = "commit" => call[a].phase \in Terminal
    BY Zenon DEF RegistryInv, Control, CallsVisible, Reconciling
  <2>3. [disk EXCEPT ![s].cancel = TRUE] \in [Slot -> Dir]
    <3> DEFINE d == [disk[s] EXCEPT !.cancel = TRUE]
    <3>1. disk[s] \in Dir
      BY <1>1, TypesFromInv, Zenon
    <3>2. d \in Dir
      BY Zenon, <3>1 DEF Dir
    <3>3. [disk EXCEPT ![s].cancel = TRUE] = [disk EXCEPT ![s] = d]
      BY Zenon
    <3> HIDE DEF d
    <3> QED BY Zenon, <1>1, <3>2, <3>3 DEF SysTypes
  <2>4. CASE UNCHANGED <<registry, disk, clock>>
    BY <1>1, <2>4, Zenon DEF RegTypes, SysTypes, DiskTypes, registry, clock
  <2>5. CASE UNCHANGED <<registry, clock>> /\ disk' = [disk EXCEPT ![s].cancel = TRUE]
    BY <1>1, <2>3, <2>5, Zenon DEF RegTypes, DiskTypes, registry, clock
  <2> QED BY <1>1, <2>1, <2>2, <2>4, <2>5, TransitionTypes, Zenon
<1> QED BY <1>1, <1>2, <1>3, <1>4, <1>5, Zenon DEF Types, ActorTypes, SysTypes, DiskTypes, BootTypes

LEMMA ReapTypes ==
    ASSUME RegistryInv, Types, Reap
    PROVE  Types'
<1> DEFINE s == call[Reaper].slot
<1>0. Reaper \in Actor
  BY Zenon DEF Actor
<1>1. /\ s \in Slot /\ call[Reaper] \in Call /\ UNCHANGED <<create, boot, crashes>>
      /\ SysTypes /\ FaultTypes /\ RegTypes
  BY ZenonT(60), <1>0, TypesFromInv
     DEF Types, Reap, SweepList, SweepAdopted, SweepStop, ReapSlot, HoldStatus, HoldUnits,
                            HoldUnknown, GcStop, GcUnlink, bounds
<1> HIDE DEF s
<1>2. CASE SweepList \/ SweepAdopted \/ SweepStop \/ \E t \in Slot : ReapSlot(t)
  <2>1. call[Reaper].todo \in SUBSET Slot
    BY Zenon, <1>1 DEF Call
  <2>2. call' \in [Actor -> Call]
    <3>1. CASE SweepList
      <4>1. {t \in Slot : Loaded(unit[t])} \in SUBSET Slot
        BY Zenon
      <4> QED BY <1>0, <3>1, <4>1, GotoTypes, ZenonT(60) DEF SweepList
    <3>2. CASE SweepAdopted
      <4>1. {t \in call[Reaper].todo : ~Taken(t)} \in SUBSET Slot
        BY <2>1, Zenon
      <4> QED BY <1>0, <3>2, <4>1, GotoTypes, ZenonT(60) DEF SweepAdopted
    <3>3. CASE SweepStop
      <4>1. CASE Done(Reaper)
        BY Zenon, <1>0, <4>1, GotoTypes
      <4>2. ASSUME NEW t, call' = [call EXCEPT ![Reaper].todo = @ \ {t}] PROVE call' \in [Actor -> Call]
        <5> DEFINE todo == call[Reaper].todo \ {t}
        <5>1. todo \in SUBSET Slot
          BY <2>1, Zenon
        <5>2. call' = [call EXCEPT ![Reaper].todo = todo]
          BY <4>2, Zenon
        <5> HIDE DEF todo
        <5> QED BY <1>0, <5>1, <5>2, GotoTypes, ZenonT(60)
      <4> QED BY <3>3, <4>1, <4>2, ZenonT(60) DEF SweepStop
    <3>4. ASSUME NEW t \in Slot, ReapSlot(t) PROVE call' \in [Actor -> Call]
      <4>1. \E pc \in {"hold", "gc", "check"}, todo \in SUBSET Slot :
               call' = [call EXCEPT ![Reaper].slot = t, ![Reaper].pc = pc, ![Reaper].todo = todo]
        <5> DEFINE pc == IF entry[t].hold THEN "hold" ELSE IF IsTerminal(t) THEN "gc" ELSE "check"
                   todo == IF t \in late THEN {t} ELSE {}
        <5>1. pc \in {"hold", "gc", "check"} /\ todo \in SUBSET Slot
          BY Zenon
        <5>2. call' = [call EXCEPT ![Reaper].slot = t, ![Reaper].pc = pc, ![Reaper].todo = todo]
          BY <3>4, Zenon DEF ReapSlot
        <5> HIDE DEF pc, todo
        <5> QED BY Zenon, <5>1, <5>2
      <4> QED BY <1>0, <4>1, GotoTypes, ZenonT(60)
    <3> QED BY <1>2, <3>1, <3>2, <3>3, <3>4, Zenon
  <2>3. unit' \in [Slot -> Unit] /\ FaultTypes'
    <3>1. (UNCHANGED unit /\ NoFault) \/ \E t \in Slot : StopOnly(t)
      BY <1>2, <2>1, ZenonT(60) DEF SweepList, SweepAdopted, SweepStop, ReapSlot, bounds, NoFault
    <3> QED BY <1>1, <3>1, StopTypes, Spending, Zenon DEF SysTypes
  <2>4. UNCHANGED <<registry, clock, disk>>
    BY Zenon, <1>2 DEF SweepList, SweepAdopted, SweepStop, ReapSlot
  <2> QED BY <1>1, <2>2, <2>3, <2>4, Zenon
             DEF Types, RegTypes, ActorTypes, SysTypes, BootTypes, registry, clock
<1>3. CASE HoldStatus \/ HoldUnits \/ HoldUnknown \/ GcStop \/ GcUnlink
  <2>1. call' \in [Actor -> Call]
    BY <1>0, <1>3, GotoTypes, ZenonT(60) DEF HoldStatus, HoldUnits, HoldUnknown, GcStop, GcUnlink
  <2>2. FaultTypes'
    <3>1. Fault \/ NoFault \/ \E r, q : Spend(r, q)
      BY <1>3, Zenon
         DEF HoldStatus, HoldUnits, HoldUnknown, GcStop, GcUnlink, StopOnly, NoFault, bounds
    <3> QED BY <1>1, <3>1, Spending, Zenon
  <2>3. unit' \in [Slot -> Unit]
    <3>1. UNCHANGED unit \/ StopOnly(s) \/ (\E r : Stop(s, r)) \/ (\E r : StopChecked(s, r))
      BY <1>3, Zenon DEF HoldStatus, HoldUnits, HoldUnknown, GcStop, GcUnlink, s
    <3> QED BY <1>1, <3>1, StopTypes, Zenon DEF SysTypes
  <2>4. RegTypes' /\ DiskTypes'
    <3>1. CASE GcUnlink
      <4>1. CASE RemoveEntry(s) /\ PushTombstone(entry[s].id) /\ Taken(s) /\ UNCHANGED late /\ \E r : DeleteDir(s, r)
        <5>1. entry[s].id \in Exec
          BY <1>1, <4>1, TypesFromInv, Zenon
        <5>2. tombstones' \in Seq(Exec)
          <6> DEFINE kept == IF Len(tombstones) >= Cardinality(Slot) THEN Tail(tombstones) ELSE tombstones
          <6>1. Cardinality(Slot) \in Nat /\ Cardinality(Slot) > 0
            <7>1. IsFiniteSet(Slot) /\ Slot # {}
              BY RegistryAssumption, Zenon
            <7> QED BY <7>1, FS_CardinalityType, FS_EmptySet
          <6>2. tombstones \in Seq(Exec)
            BY <1>1, Zenon DEF RegTypes
          <6>3. kept \in Seq(Exec)
            BY <6>1, <6>2
          <6>4. tombstones' = Append(kept, entry[s].id)
            BY <4>1, Zenon DEF PushTombstone
          <6> HIDE DEF kept
          <6> QED BY SMTT(30), <5>1, <6>3, <6>4
        <5> QED BY <1>1, <4>1, <5>2, RemoveTypes, DeleteTypes, Zenon DEF RegTypes
      <4>2. CASE UNCHANGED <<registry, clock>> /\ (UNCHANGED disk \/ \E r : DeleteDir(s, r))
        BY <1>1, <4>2, DeleteTypes, Zenon DEF RegTypes, SysTypes, DiskTypes, registry, clock
      <4>3. \/ RemoveEntry(s) /\ PushTombstone(entry[s].id) /\ Taken(s) /\ UNCHANGED late /\ \E r : DeleteDir(s, r)
            \/ UNCHANGED <<registry, clock>> /\ (UNCHANGED disk \/ \E r : DeleteDir(s, r))
        BY Zenon, <3>1 DEF GcUnlink, s, registry, clock
      <4> QED BY <4>1, <4>2, <4>3, Zenon
    <3>2. CASE ~GcUnlink
      <4>1. \/ UNCHANGED <<registry, disk, clock>> \/ Promote(s) \/ (\E phase \in Terminal : CommitTerminal(s, phase))
            \/ \E r : DeleteHold(s, r)
        BY <1>3, <3>2, ZenonT(60) DEF HoldStatus, HoldUnits, HoldUnknown, GcStop, s
      <4>2. CASE UNCHANGED <<registry, disk, clock>>
        BY <1>1, <4>2, Zenon DEF RegTypes, SysTypes, DiskTypes, registry, clock
      <4> QED BY <1>1, <4>1, <4>2, TransitionTypes, DeleteHoldTypes, Zenon
    <3> QED BY <3>1, <3>2, Zenon
  <2> QED BY <1>1, <2>1, <2>2, <2>3, <2>4, Zenon DEF Types, ActorTypes, SysTypes, DiskTypes, BootTypes
<1> QED BY <1>2, <1>3, Zenon DEF Reap

LEMMA StartupTypes ==
    ASSUME Types, Startup
    PROVE  Types'
<1>1. UNCHANGED <<tombstones, create, call, late, crashes>> /\ RegTypes /\ SysTypes /\ FaultTypes /\ boot \in Boot
  BY Zenon
     DEF Types, BootTypes, Startup, StartupList, AdoptSlot, StartupOrphans, StartupStop, registry,
       clock, bounds
<1>2. ASSUME NEW T \in SUBSET Slot, NEW pc \in {"adopt", "orphans"}
      PROVE  /\ [boot EXCEPT !.todo = T] \in Boot /\ [boot EXCEPT !.pc = pc, !.todo = T] \in Boot
             /\ [Down EXCEPT !.pc = pc, !.todo = T] \in Boot
  BY ZenonT(60), <1>1, TypeConstants DEF Boot
<1>3. boot' \in Boot
  <2>1. boot.todo \in SUBSET Slot /\ boot.units \in SUBSET Slot
    BY <1>1, Zenon DEF Boot
  <2>2. CASE StartupList
    <3> DEFINE dirs == {s \in Slot : disk[s].dir}
               units == {s \in Slot : Loaded(unit[s])}
               live == [s \in Slot |-> Classified(unit[s])]
    <3>1. dirs \in SUBSET Slot /\ units \in SUBSET Slot /\ live \in [Slot -> Live]
      BY Zenon DEF Classified, Live
    <3>2. \/ boot' = [pc |-> "adopt", todo |-> dirs, units |-> units, live |-> live]
          \/ boot' = [Down EXCEPT !.pc = "adopt", !.todo = dirs]
      BY <2>2, Zenon DEF StartupList
    <3> HIDE DEF dirs, units, live
    <3>3. [pc |-> "adopt", todo |-> dirs, units |-> units, live |-> live] \in Boot
      BY <3>1, Zenon DEF Boot
    <3> QED BY Zenon, <1>2, <3>1, <3>2, <3>3
  <2>3. ASSUME NEW s \in Slot, AdoptSlot(s) PROVE boot' \in Boot
    <3>1. boot.todo \ {s} \in SUBSET Slot
      BY <2>1, Zenon
    <3> QED BY Zenon, <1>2, <2>3, <3>1 DEF AdoptSlot
  <2>4. CASE StartupOrphans
    <3>1. {s \in boot.units : ~Taken(s)} \in SUBSET Slot
      BY <2>1, Zenon
    <3> QED BY Zenon, <1>2, <2>4, <3>1 DEF StartupOrphans
  <2>5. CASE StartupStop
    <3>1. \A s : boot.todo \ {s} \in SUBSET Slot
      BY <2>1, Zenon
    <3> QED BY <1>2, <2>5, <3>1, TypeConstants, Zenon DEF StartupStop
  <2> QED BY <2>2, <2>3, <2>4, <2>5, Zenon DEF Startup
<1>4. CASE StartupList \/ StartupOrphans \/ StartupStop
  <2>1. UNCHANGED <<registry, clock, disk>> /\ ((UNCHANGED unit /\ NoFault) \/ \E s \in boot.todo : StopOnly(s))
    BY <1>4, Zenon DEF StartupList, StartupOrphans, StartupStop, NoFault, bounds
  <2>2. boot.todo \subseteq Slot
    BY <1>1, Zenon DEF Boot
  <2>3. unit' \in [Slot -> Unit] /\ FaultTypes'
    BY ZenonT(60), <1>1, <2>1, <2>2, StopTypes, Spending DEF SysTypes
  <2> QED BY Zenon, <1>1, <1>3, <2>1, <2>3
             DEF Types, RegTypes, ActorTypes, SysTypes, BootTypes, registry, clock
<1>5. ASSUME NEW s \in Slot, AdoptSlot(s) PROVE Types'
  <2>1. unit' \in [Slot -> Unit]
    <3>1. UNCHANGED unit \/ (\E q : Stop(s, q)) \/ (\E q : StopChecked(s, q))
      BY <1>5 DEF AdoptSlot
    <3> QED BY <1>1, <3>1, StopTypes, Zenon DEF SysTypes
  <2>2. FaultTypes'
    <3>1. \E p, n, m : faults' = faults + Cost(p) + Cost(n) + Cost(m) /\ faults' <= MaxFaults
      BY SMTT(30), <1>5 DEF AdoptSlot
    <3> QED BY <1>1, <3>1, RegistryAssumption DEF FaultTypes, Cost
  <2>3. expired' \subseteq Slot /\ entry' \in [Slot -> NamedEntry] /\ DiskTypes'
    <3>1. /\ \A r : DeleteDir(s, r) => DiskTypes'
          /\ entry \in [Slot -> NamedEntry] /\ expired \in SUBSET Slot /\ disk[s].lost \in BOOLEAN
          /\ \A r : expired \ {r} \in SUBSET Slot
      BY ZenonT(60), <1>1, DeleteTypes, TypesFromInv DEF RegTypes, Dir
    <3>2. ASSUME NEW state \in {"dispatching", "running"} \union Terminal, NEW l \in BOOLEAN,
                 disk[s].id # NoExec, Insert(s, Adopted(s, state, l))
          PROVE  entry' \in [Slot -> NamedEntry] /\ DiskTypes'
      <4> DEFINE e == Adopted(s, state, l)
      <4>1. disk[s].id \in Exec
        BY Zenon, <3>2, TypesFromInv
      <4>2. (state = "dispatching") \in BOOLEAN /\ (state \notin Terminal) \in BOOLEAN /\ state \in State
        BY Zenon DEF State
      <4>3. e \in Entry /\ e.id = disk[s].id
        BY ZenonT(60), <4>1, <4>2 DEF Adopted, Entry
      <4>4. Insert(s, e)
        BY <3>2, Zenon
      <4> HIDE DEF e
      <4>5. e \in NamedEntry
        BY <4>1, <4>3, Zenon DEF NamedEntry
      <4>6. Recorded(disk[s], e) \in Dir
        BY <4>3, TypesFromInv, RecordedTypes, Zenon
      <4> QED BY <1>1, <3>1, <4>4, <4>5, <4>6, Zenon DEF Insert, DiskTypes, SysTypes
    <3>3. {"cancelled"} \subseteq Terminal
      BY Zenon DEF Terminal
    <3>4. ASSUME NEW r, disk[s].id # NoExec, AdoptNoUnit(s, r)
          PROVE  expired' \in SUBSET Slot /\ entry' \in [Slot -> NamedEntry] /\ DiskTypes'
      <4>1. CASE disk[s].state # "dispatching"
        BY ZenonT(60), <3>1, <3>2, <3>3, <3>4, <4>1 DEF AdoptNoUnit
      <4>2. CASE disk[s].state = "dispatching"
        BY ZenonT(60), <3>1, <3>2, <3>4, <4>2 DEF AdoptNoUnit
      <4> QED BY <4>1, <4>2, Zenon
    <3>5. \/ UNCHANGED <<entry, expired>> /\ \E r : DeleteDir(s, r)
          \/ disk[s].id # NoExec /\ \E r : AdoptNoUnit(s, r)
          \/ disk[s].id # NoExec /\ (expired' = expired \/ expired' = expired \ {s})
             /\ \E state \in {"dispatching", "running"} \union Terminal : Insert(s, Adopted(s, state, disk[s].lost))
      BY <1>5 DEF AdoptSlot
    <3> QED BY ZenonT(60), <3>1, <3>2, <3>4, <3>5
  <2> QED BY <1>1, <1>3, <2>1, <2>2, <2>3, Zenon
             DEF Types, RegTypes, ActorTypes, SysTypes, DiskTypes, BootTypes
<1> QED BY <1>4, <1>5, Zenon DEF Startup

LEMMA OtherTypes ==
    ASSUME Types, Crash \/ \E s \in Slot : DeadlinePasses(s) \/ Expire(s)
    PROVE  Types'
<1>1. CASE Crash
  <2>1. entry' \in [Slot -> NamedEntry] /\ call' \in [Actor -> Call] /\ boot' \in Boot
    BY <1>1, TypeConstants, Zenon DEF Crash
  <2>2. create' \in [Slot -> CreatePC] /\ tombstones' \in Seq(Exec)
    BY SMTT(30), <1>1 DEF Crash, CreatePC
  <2>3. crashes' \in 0..MaxCrashes
    BY SMTT(30), <1>1, RegistryAssumption DEF Crash, Types, BootTypes
  <2> QED BY <1>1, <2>1, <2>2, <2>3, Zenon
             DEF Crash, Types, RegTypes, ActorTypes, SysTypes, BootTypes, FaultTypes, clock
<1>2. ASSUME NEW s \in Slot, DeadlinePasses(s) PROVE Types'
  <2>1. create' \in [Slot -> CreatePC] /\ late' \subseteq Slot
    BY ZenonT(60), <1>2 DEF DeadlinePasses, Types, RegTypes, ActorTypes, CreatePC
  <2> QED BY ZenonT(60), <1>2, <2>1
             DEF DeadlinePasses, Types, RegTypes, ActorTypes, SysTypes, BootTypes, FaultTypes,
               registry, bounds
<1>3. ASSUME NEW s \in Slot, Expire(s) PROVE Types'
  BY <1>3, Zenon DEF Expire, Types, RegTypes, ActorTypes, SysTypes, BootTypes, FaultTypes, registry, bounds
<1> QED BY <1>1, <1>2, <1>3, Zenon
-----------------------------------------------------------------------------
(* The theorems.                                                                *)

Inductive == RegistryInv /\ Types

LEMMA InductiveInit == RegistryInit => Inductive
<1> SUFFICES ASSUME RegistryInit PROVE Inductive
  BY Zenon
<1>1. Types
  <2>1. RegTypes /\ SysTypes /\ call \in [Actor -> Call] /\ boot \in Boot
    BY TypeConstants DEF RegistryInit, RegTypes, SysTypes
  <2> QED BY <2>1, RegistryAssumption
             DEF RegistryInit, Types, ActorTypes, BootTypes, FaultTypes, CreatePC
<1>2. /\ \A s \in Slot : entry[s] = Free
      /\ Free.state = "free" /\ ~Free.counted /\ ~Free.creating /\ ~Free.hold
      /\ Cardinality({s \in Slot : entry[s].counted}) = 0
      /\ Cardinality({s \in Slot : entry[s].state # "free"}) = 0
  BY Zenon, EmptyAccounts DEF RegistryInit
<1>3. active = 0 /\ reserved = 0 /\ boot.pc = "up" /\ Reaper \in Actor
  BY Zenon DEF RegistryInit, Down, Actor
<1>4. AccountsExact
  BY <1>2, <1>3, Zenon DEF AccountsExact, Taken, IsTerminal
<1>5. OneFlag
  BY <1>2, Zenon DEF OneFlag, Taken, IsTerminal, Hidden, Terminal
<1>6. (\A a \in Actor : call[a].pc = "idle") /\ \A s \in Slot : create[s] = "none"
  BY Zenon DEF RegistryInit, IdleCall
<1>7. CreateOwns /\ CallsVisible /\ ReaperOwns /\ StartupAlone
  BY ZenonT(60), <1>2, <1>3, <1>6
     DEF CreateOwns, CallsVisible, ReaperOwns, StartupAlone, Reconciling
<1>8. RegistryTypeOK
  BY Zenon, <1>1, <1>3, TypesFromInv
     DEF Types, RegTypes, ActorTypes, SysTypes, BootTypes, FaultTypes, Boot, RegistryTypeOK
<1> QED BY <1>1, <1>4, <1>5, <1>7, <1>8, Zenon DEF Inductive, RegistryInv, Control

\* One step per action: the invariant holds after it, and it reopens or drops no
\* record that it must keep.
LEMMA InductiveStep ==
    ASSUME Inductive, [RegistryNext]_vars
    PROVE  Inductive' /\ (RegistryNext => Final)
<1>1. CASE RegistryNext
  <2>1. Kept
    <3>1. CASE \E x \in Exec : ReserveCreate(x)
      BY <3>1, ReserveKept, Zenon DEF Inductive
    <3>2. CASE \E s \in Slot : Create(s) \/ Runner(s) \/ HelperRegisters(s) \/ DeadlinePasses(s) \/ Expire(s)
      BY <3>2, CreateKept, RunnerKept, DeadlineKept, ExpireKept, Zenon DEF Inductive
    <3>3. CASE \E c \in Caller, x \in Exec : Inspect(c, x) \/ Cancel(c, x) \/ ReadLogs(c, x)
      BY <3>3, BeginKept, ReadLogsKept, Zenon DEF Inductive, Inspect, Cancel
    <3>4. CASE \E a \in Actor : Reconcile(a)
      BY <3>4, ReconcileKept, Zenon DEF Inductive
    <3>5. CASE \E c \in Caller : DropGuard(c)
      BY <3>5, DropGuardKept, Zenon DEF Inductive
    <3>6. CASE Reap \/ Crash \/ Startup
      BY <3>6, ReapKept, CrashKept, StartupKept, Zenon DEF Inductive
    <3> QED BY <1>1, <3>1, <3>2, <3>3, <3>4, <3>5, <3>6, Zenon DEF RegistryNext
  <2>2. Types'
    <3>1. CASE \E x \in Exec : ReserveCreate(x)
      BY <3>1, ReserveTypes, Zenon DEF Inductive
    <3>2. CASE \E s \in Slot : Create(s) \/ Runner(s) \/ HelperRegisters(s) \/ DeadlinePasses(s) \/ Expire(s)
      BY <3>2, CreateTypes, RunnerTypes, HelperTypes, OtherTypes, Zenon DEF Inductive
    <3>3. CASE \E c \in Caller, x \in Exec : Inspect(c, x) \/ Cancel(c, x) \/ ReadLogs(c, x)
      BY <3>3, CallTypes, Zenon DEF Inductive
    <3>4. CASE \E a \in Actor : Reconcile(a)
      BY <3>4, ReconcileTypes, Zenon DEF Inductive
    <3>5. CASE \E c \in Caller : DropGuard(c)
      BY <3>5, CallTypes, Zenon DEF Inductive
    <3>6. CASE Reap \/ Crash \/ Startup
      BY <3>6, ReapTypes, OtherTypes, StartupTypes, Zenon DEF Inductive
    <3> QED BY <1>1, <3>1, <3>2, <3>3, <3>4, <3>5, <3>6, Zenon DEF RegistryNext
  <2>3. RegistryTypeOK'
    <3>1. active' \in Nat /\ reserved' \in Nat
      <4>1. \A A \in SUBSET Slot : Cardinality(A) \in Nat
        BY ZenonT(60), FS_Subset, FS_CardinalityType, RegistryAssumption
      <4> QED BY <2>1, <4>1, Zenon DEF Kept, AccountsExact
    <3>2. entry' \in [Slot -> Entry]
      BY <2>2, Zenon DEF Types, RegTypes, NamedEntry
    <3> QED BY <2>2, <3>1, <3>2, Zenon
               DEF Types, RegTypes, ActorTypes, SysTypes, BootTypes, FaultTypes, Boot,
                 RegistryTypeOK
  <2> QED BY <2>1, <2>2, <2>3, Zenon DEF Kept, Inductive, RegistryInv
<1>2. CASE UNCHANGED vars /\ ~RegistryNext
  <2>1. RegistryTypeOK' /\ AccountsExact' /\ Types'
    BY ZenonT(60), <1>2
       DEF vars, Inductive, RegistryInv, RegistryTypeOK, AccountsExact, Types, RegTypes,
         ActorTypes, SysTypes,
                BootTypes, FaultTypes, Taken, IsTerminal
  <2>2. Control'
    BY Zenon, <1>2
       DEF vars, Inductive, RegistryInv, Control, CreateOwns, OneFlag, CallsVisible, ReaperOwns,
         StartupAlone,
                Taken, IsTerminal, Hidden, Up
  <2> QED BY <1>2, <2>1, <2>2, Zenon DEF Inductive, RegistryInv
<1> QED BY <1>1, <1>2, Zenon

LEMMA RegistryInductive == RegistrySpec => []Inductive
<1>1. Inductive /\ [RegistryNext]_vars => Inductive'
  BY InductiveStep, Zenon
<1> QED BY <1>1, InductiveInit, PTL DEF RegistrySpec

\* Every record, call, directory and unit has its type: a reconciliation commits
\* only terminal phases, gc_slot pushes only exec ids.
THEOREM RegistryTypes == RegistrySpec => []RegistryTypeOK
<1>1. Inductive => RegistryTypeOK
  BY Zenon DEF Inductive, RegistryInv
<1> QED BY <1>1, RegistryInductive, PTL

\* release_active, remove_entry and insert_adopted keep the counters exact for any
\* number of slots, callers, crashes and faults: no saturating decrement ever
\* saturates, no exec holds a unit of the active limit after its end, none is
\* counted twice.
THEOREM Accounts == RegistrySpec => []AccountsExact
<1>1. Inductive => AccountsExact
  BY Zenon DEF Inductive, RegistryInv
<1> QED BY <1>1, RegistryInductive, PTL

\* No interleaving of creates, calls, reconciliations and the reaper reopens a
\* terminal record, and none drops a visible one before its TTL.
THEOREM FinalRecords == RegistrySpec => TerminalFinal
<1>1. Inductive /\ [RegistryNext]_vars => [Final]_vars
  BY InductiveStep, Zenon
<1>2. RegistrySpec => [][Final]_vars
  BY <1>1, RegistryInductive, PTL DEF RegistrySpec
<1> QED BY <1>2, PTL DEF TerminalFinal, Final
=============================================================================
