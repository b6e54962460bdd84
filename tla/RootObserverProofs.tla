------------------------- MODULE RootObserverProofs -------------------------
(***************************************************************************)
(* Proofs about RootObserver.  The argument: a thread that is about to     *)
(* accuse holds two roots that really contradict each other, and what it   *)
(* saves stays saved; and a lone observer compares a root with the largest *)
(* of the chain it has, so what is recorded next to it fits the others.    *)
(***************************************************************************)
EXTENDS RootObserver, WellFoundedInduction, SequenceTheorems, TLAPS

-----------------------------------------------------------------------------
(* Roots *)

\* A set of naturals that is not empty has a least element.
LEMMA LeastNatural ==
    ASSUME NEW T, T \subseteq Nat, T # {}
    PROVE  \E x \in T : \A y \in T : x <= y
<1>1. PICK x \in T : \A y \in T : ~(<<y, x>> \in OpToRel(<, Nat))
  BY WFMin, NatLessThanWellFounded, Zenon
<1>2. \A y \in T : ~(y < x)
  BY <1>1 DEF OpToRel
<1> QED
  BY <1>2

\* A bounded measure has a greatest value.
LEMMA Greatest ==
    ASSUME NEW R, R # {}, NEW f, NEW B \in Nat,
           \A r \in R : f[r] \in Nat /\ f[r] <= B
    PROVE  \E r \in R : \A s \in R : f[s] <= f[r]
<1> DEFINE S == {B - f[r] : r \in R}
<1>1. S \subseteq Nat /\ S # {}
  OBVIOUS
<1>2. PICK x \in S : \A y \in S : x <= y
  <2> HIDE DEF S
  <2> QED
    BY <1>1, LeastNatural, Zenon
<1>3. PICK r \in R : x = B - f[r]
  OBVIOUS
<1>4. \A s \in R : B - f[r] <= B - f[s]
  BY <1>2, <1>3
<1> QED
  BY <1>4

\* Sizes and times are natural numbers within the horizon.
LEMMA RootNumbers ==
    ASSUME NEW r \in Roots
    PROVE  /\ Size(r) \in Nat /\ Size(r) <= Horizon
           /\ Time[r] \in Nat /\ Time[r] <= Horizon
           /\ Tree[r] \in Seq(Leaves)
  BY RootAssumption DEF Size

\* Two prefixes of one tree are prefixes one of the other.
LEMMA PrefixesOfOne ==
    ASSUME NEW r \in Roots, NEW s \in Roots, NEW t \in Roots, Prefix(r, t), Prefix(s, t)
    PROVE  Comparable(r, s)
  BY RootNumbers DEF Prefix, Comparable

\* A prefix of a prefix is a prefix.
LEMMA PrefixTransitive ==
    ASSUME NEW r \in Roots, NEW s \in Roots, NEW t \in Roots, Prefix(r, s), Prefix(s, t)
    PROVE  Prefix(r, t)
  BY RootNumbers DEF Prefix

\* A comparable root that is not larger is a prefix.
LEMMA SmallerIsPrefix ==
    ASSUME NEW r \in Roots, NEW s \in Roots, Comparable(r, s), Size(r) <= Size(s)
    PROVE  Prefix(r, s)
  BY RootNumbers DEF Prefix, Comparable


\* The latest root exists and is the newest of the largest.
IsLatest(r) ==
    /\ r \in ObservedRoots
    /\ \A s \in ObservedRoots : Size(s) < Size(r) \/ (Size(s) = Size(r) /\ Time[s] <= Time[r])

LEMMA LatestIsLatest ==
    ASSUME ObservedRoots \subseteq Roots, ObservedRoots # {}
    PROVE  IsLatest(Latest)
<1> DEFINE sizes == [r \in Roots |-> Size(r)]
           Largest == {r \in ObservedRoots : \A s \in ObservedRoots : Size(s) <= Size(r)}
<1>1. \E r \in ObservedRoots : \A s \in ObservedRoots : sizes[s] <= sizes[r]
  <2>1. \A r \in ObservedRoots : sizes[r] \in Nat /\ sizes[r] <= Horizon
    BY RootNumbers
  <2> HIDE DEF sizes
  <2> QED
    BY <2>1, Greatest, RootAssumption
<1>2. Largest # {}
  BY <1>1
<1>3. \E r \in Largest : \A s \in Largest : Time[s] <= Time[r]
  <2>1. \A r \in Largest : Time[r] \in Nat /\ Time[r] <= Horizon
    BY RootNumbers
  <2> HIDE DEF Largest
  <2> QED
    BY <1>2, <2>1, Greatest, RootAssumption
<1>4. PICK r \in Largest : \A s \in Largest : Time[s] <= Time[r]
  BY <1>3
<1>5. IsLatest(r)
  <2> SUFFICES ASSUME NEW s \in ObservedRoots, ~(Size(s) < Size(r))
               PROVE  Size(s) = Size(r) /\ Time[s] <= Time[r]
    BY <1>4 DEF IsLatest
  <2>1. Size(s) = Size(r)
    BY <1>4, RootNumbers
  <2>2. s \in Largest
    BY <1>4, <2>1
  <2> QED
    BY <1>4, <2>1, <2>2
<1> QED
  BY <1>5 DEF Latest, IsLatest

-----------------------------------------------------------------------------
(* Type correctness *)

Rows == [root : Roots, peer : Peers]

\* Leaving out a row and adding one leaves rows.
LEMMA RecordType ==
    ASSUME NEW rows \in Seq(Rows), NEW r \in Roots, NEW p \in Peers
    PROVE  Record(rows, r, p) \in Seq(Rows)
<1> DEFINE row == [root |-> r, peer |-> p]
           added == IF \E i \in DOMAIN rows : rows[i] = row THEN rows ELSE Append(rows, row)
           surplus == {i \in DOMAIN added : Surplus(added, p, i)}
<1>1. added \in Seq(Rows)
  <2>1. row \in Rows
    BY DEF Rows
  <2> QED
    BY <2>1
<1>2. ASSUME NEW i \in DOMAIN added
      PROVE  Without(added, i) \in Seq(Rows)
  <2>1. SubSeq(added, 1, i - 1) \in Seq(Rows)
    BY <1>1, <1>2
  <2>2. SubSeq(added, i + 1, Len(added)) \in Seq(Rows)
    BY <1>1, <1>2
  <2> QED
    BY <2>1, <2>2 DEF Without
<1>3. surplus # {} => (CHOOSE i \in surplus : TRUE) \in DOMAIN added
  OBVIOUS
<1> QED
  BY <1>1, <1>2, <1>3 DEF Record

\* What a thread that has come so far knows.
Judging == {"find", "previous", "prove", "record", "activate", "silent", "enforce",
            "collision", "failure", "violation", "announced"}

Sound(t, lied, cause) ==
    /\ t.stage \in Observing => t.got # <<>>
    /\ t.stage \in Judging => t.root \in Roots
    /\ t.stage \in {"prove", "collision", "failure"} => t.other \in Roots
    /\ t.stage = "collision" => Collide(t.root, t.other)
    /\ t.stage = "failure" => Contradict(t.other, t.root) \/ <<t.other, t.root>> \in lied
    /\ t.stage = "violation" => t.root \in Violating
    /\ t.stage = "mark" => cause

Inv ==
    /\ TypeOK
    /\ \A x \in Threads : Sound(thread[x], lies, Cause)
    /\ BlamedForCause

\* Nothing that was saved is lost.
Growing ==
    /\ evidence \subseteq evidence' /\ failures \subseteq failures'
    /\ violations \subseteq violations' /\ lies \subseteq lies'

\* A cause lasts.
LEMMA CauseLasts == Growing /\ Cause => Cause'
  BY DEF Growing, Cause, Contradict, Comparable, Prefix, Collide, RolledBack, Size

\* A thread that does not move stays sound.
LEMMA SoundLasts ==
    ASSUME NEW t, Growing, Sound(t, lies, Cause)
    PROVE  Sound(t, lies', Cause')
  BY CauseLasts DEF Growing, Sound

\* A step of one thread leaves the others sound.
LEMMA OneThread ==
    ASSUME Inv, Growing, NEW x \in Threads, NEW new \in ThreadStates,
           thread' = [thread EXCEPT ![x] = new], Sound(new, lies', Cause')
    PROVE  /\ thread' \in [Threads -> ThreadStates]
           /\ \A y \in Threads : Sound(thread'[y], lies', Cause')
<1>1. thread' \in [Threads -> ThreadStates]
  BY DEF Inv, TypeOK
<1>2. ASSUME NEW y \in Threads, y # x
      PROVE  Sound(thread'[y], lies', Cause')
  <2>1. thread'[y] = thread[y]
    BY <1>2 DEF Inv, TypeOK
  <2>2. Sound(thread[y], lies, Cause)
    BY DEF Inv
  <2> QED
    BY <2>1, <2>2, SoundLasts
<1>3. thread'[x] = new
  BY DEF Inv, TypeOK
<1> QED
  BY <1>1, <1>2, <1>3

\* The tables and counters, without the threads.
Tables ==
    /\ anchor \in Anchors
    /\ observed \subseteq [root : Roots, source : Sources \cup {Anchored}]
    /\ heard \in Seq([root : Roots, peer : Peers])
    /\ evidence \subseteq SUBSET Roots
    /\ failures \subseteq Roots \X Roots
    /\ violations \subseteq Roots
    /\ status \in {"none", "active", "unresponsive", "blacklisted"}
    /\ lies \subseteq Roots \X Roots
    /\ cut \subseteq Roots
    /\ rounds \in 0..MaxRounds /\ gossiped \in 0..MaxGossip /\ stops \in 0..MaxStops

\* A step of one thread that blacklists for a cause keeps the invariant.
LEMMA ThreadStep ==
    ASSUME Inv, Tables', Growing, NEW x \in Threads, NEW new \in ThreadStates,
           thread' = [thread EXCEPT ![x] = new], Sound(new, lies', Cause'),
           status' = "blacklisted" => status = "blacklisted" \/ Cause'
    PROVE  Inv'
<1>1. TypeOK'
  BY OneThread DEF Tables, TypeOK
<1>2. (\A y \in Threads : Sound(thread[y], lies, Cause))'
  BY OneThread
<1>3. BlamedForCause'
  BY CauseLasts DEF Inv, BlamedForCause
<1> QED
  BY <1>1, <1>2, <1>3 DEF Inv

\* A step that writes no table keeps the invariant.
LEMMA QuietStep ==
    ASSUME Inv, NEW x \in Threads, NEW new \in ThreadStates,
           thread' = [thread EXCEPT ![x] = new], Sound(new, lies, Cause),
           UNCHANGED <<anchor, observed, heard, saved, status, lies, cut, counters>>
    PROVE  Inv'
<1>1. Tables' /\ Growing
  BY DEF Inv, TypeOK, Tables, Growing, saved, counters
<1>2. Sound(new, lies', Cause')
  BY <1>1, SoundLasts
<1>3. status' = "blacklisted" => status = "blacklisted"
  OBVIOUS
<1> QED
  BY <1>1, <1>2, <1>3, ThreadStep

\* A thread at rest is well typed and sound.
LEMMA IdleSound == Idle \in ThreadStates /\ Sound(Idle, lies, Cause) /\ Sound(Idle, lies', Cause')
<1>1. Len(Mirrors) \in Nat
  BY SourceAssumption
<1> QED
  BY <1>1 DEF Idle, ThreadStates, Sound, Observing, Judging, Accusing

\* A thread's own record, and that it is sound.
LEMMA OwnState ==
    ASSUME Inv, NEW x \in Threads
    PROVE  thread[x] \in ThreadStates /\ Sound(thread[x], lies, Cause)
  BY DEF Inv, TypeOK

LEMMA ObserversAct == Observers \subseteq Threads /\ Gossips \subseteq Threads
  BY DEF Threads

\* Observed and announced roots are roots.
LEMMA HeldRoots == ASSUME Inv PROVE ObservedRoots \subseteq Roots /\ HeardRoots \subseteq Roots
<1>1. observed \subseteq [root : Roots, source : Sources \cup {Anchored}]
  BY DEF Inv, TypeOK
<1>2. heard \in Seq([root : Roots, peer : Peers])
  BY DEF Inv, TypeOK
<1>3. ObservedRoots \subseteq Roots
  BY <1>1 DEF ObservedRoots
<1>4. ASSUME NEW i \in DOMAIN heard
      PROVE  heard[i].root \in Roots
  <2>1. heard \in Seq(Rows)
    BY <1>2 DEF Rows
  <2>2. heard[i] \in Rows
    BY <2>1
  <2> QED
    BY <2>2 DEF Rows
<1> QED
  BY <1>3, <1>4 DEF HeardRoots

-----------------------------------------------------------------------------
(* A round *)

LEMMA RaiseStep ==
    ASSUME Inv, NEW x \in Threads, Raise(x),
           UNCHANGED <<anchor, observed, heard, saved, status, lies, cut, counters>>
    PROVE  Inv'
  BY IdleSound, QuietStep DEF Raise

\* A thread that goes on to a stage for which it knows enough.
LEMMA GotoStep ==
    ASSUME Inv, NEW x \in Threads, NEW stage, Goto(x, stage),
           [thread[x] EXCEPT !.stage = stage] \in ThreadStates,
           Sound([thread[x] EXCEPT !.stage = stage], lies, Cause),
           UNCHANGED <<anchor, observed, heard, saved, status, lies, cut, counters>>
    PROVE  Inv'
<1>1. thread' = [thread EXCEPT ![x] = [thread[x] EXCEPT !.stage = stage]]
  BY DEF Goto, Inv, TypeOK
<1> QED
  BY <1>1, QuietStep

LEMMA BeginRoundStep ==
    ASSUME Inv, NEW o \in Threads, NEW kind \in {"current", "history"}, BeginRound(o, kind)
    PROVE  Inv'
<1> DEFINE new == [Idle EXCEPT !.stage = "fetch", !.kind = kind]
<1>1. new \in ThreadStates /\ Sound(new, lies', Cause')
  BY IdleSound DEF ThreadStates, Sound, Idle, Observing, Judging, Accusing
<1>2. thread' = [thread EXCEPT ![o] = new]
  BY DEF BeginRound
<1>3. Tables' /\ Growing /\ status' = status
  BY BoundAssumption DEF BeginRound, Inv, TypeOK, Tables, Growing, saved
<1> QED
  BY <1>1, <1>2, <1>3, ThreadStep

\* A smaller root later than all is a rollback of the latest one.
LEMMA FetchRootStep ==
    ASSUME Inv, NEW o \in Threads, NEW r \in Roots, FetchRoot(o, r)
    PROVE  Inv'
<1>1. CASE thread[o].kind = "current" /\ Smaller(r) /\ Newer(r)
  <2> DEFINE new == [Idle EXCEPT !.stage = "failure", !.root = r, !.other = Latest]
  <2>1. IsLatest(Latest) /\ Latest \in Roots
    BY <1>1, LatestIsLatest, HeldRoots DEF Smaller, IsLatest
  <2>2. Contradict(Latest, r)
    <3>1. PICK s \in ObservedRoots : Size(r) < Size(s)
      BY <1>1 DEF Smaller
    <3>2. Size(r) < Size(Latest)
      BY <2>1, <3>1, RootNumbers, HeldRoots DEF IsLatest
    <3>3. Time[r] > Time[Latest]
      BY <1>1, <2>1 DEF Newer, IsLatest
    <3> QED
      BY <3>2, <3>3 DEF Contradict, RolledBack
  <2>3. new \in ThreadStates
    BY <2>1, IdleSound DEF ThreadStates, Idle, Accusing
  <2>4. Sound(new, lies, Cause)
    BY <2>1, <2>2 DEF Sound, Idle, Observing
  <2>5. thread' = [thread EXCEPT ![o] = new]
    BY <1>1 DEF FetchRoot
  <2> QED
    BY <2>3, <2>4, <2>5, QuietStep DEF FetchRoot
<1>2. CASE ~(thread[o].kind = "current" /\ Smaller(r) /\ Newer(r))
  <2> DEFINE t == thread[o]
             n == t.asked + 1
             row == [root |-> r, source |-> Mirrors[n]]
             new == [t EXCEPT !.asked = n, !.got = Append(@, row)]
  <2>1. t \in ThreadStates /\ Sound(t, lies, Cause) /\ t.stage = "fetch" /\ t.asked < Len(Mirrors)
    BY OwnState DEF FetchRoot
  <2>2. n \in 1..Len(Mirrors) /\ n \in 0..Len(Mirrors) /\ Mirrors[n] \in Sources
    BY <2>1, SourceAssumption DEF ThreadStates, Sources
  <2>3. row \in [root : Roots, source : Sources]
    BY <2>2
  <2>4. Append(t.got, row) \in Seq([root : Roots, source : Sources])
    <3>1. t.got \in Seq([root : Roots, source : Sources])
      BY <2>1 DEF ThreadStates
    <3> HIDE DEF row, t
    <3> QED
      BY <2>3, <3>1
  <2>5. new \in ThreadStates
    BY <2>1, <2>2, <2>4 DEF ThreadStates
  <2>6. Sound(new, lies, Cause)
    BY <2>1 DEF Sound, ThreadStates, Observing, Judging
  <2>7. thread' = [thread EXCEPT ![o] = new]
    BY <1>2 DEF FetchRoot, Keep, Inv, TypeOK
  <2> QED
    BY <2>5, <2>6, <2>7, QuietStep DEF FetchRoot
<1> QED
  BY <1>1, <1>2

LEMMA FetchNothingStep ==
    ASSUME Inv, NEW o \in Threads, FetchNothing(o)
    PROVE  Inv'
<1> DEFINE t == thread[o]
           new == [t EXCEPT !.asked = @ + 1]
<1>1. t \in ThreadStates /\ Sound(t, lies, Cause) /\ t.stage = "fetch" /\ t.asked < Len(Mirrors)
  BY OwnState DEF FetchNothing
<1>2. t.asked + 1 \in 0..Len(Mirrors)
  BY <1>1, SourceAssumption DEF ThreadStates
<1>3. new \in ThreadStates
  BY <1>1, <1>2 DEF ThreadStates
<1>4. Sound(new, lies, Cause)
  BY <1>1 DEF Sound, ThreadStates, Observing, Judging
<1>5. thread' = [thread EXCEPT ![o] = new]
  BY DEF FetchNothing, Inv, TypeOK
<1> QED
  BY <1>3, <1>4, <1>5, QuietStep DEF FetchNothing

LEMMA GatheredStep ==
    ASSUME Inv, NEW o \in Threads, Gathered(o)
    PROVE  Inv'
<1> DEFINE got == thread[o].got
           ends == Len(got) < MinMirrors \/ \E i, j \in DOMAIN got : Collide(got[i].root, got[j].root)
           new == [Idle EXCEPT !.stage = "status", !.got = got]
<1>1. CASE ends
  BY <1>1, RaiseStep DEF Gathered
<1>2. CASE ~ends
  <2>1. got \in Seq([root : Roots, source : Sources]) /\ got # <<>>
    <3>1. got \in Seq([root : Roots, source : Sources])
      BY OwnState DEF ThreadStates
    <3>2. Len(got) >= 1
      BY <1>2, <3>1, SourceAssumption
    <3> QED
      BY <3>1, <3>2
  <2>2. new \in ThreadStates
    BY <2>1, IdleSound DEF ThreadStates, Idle, Observing
  <2>3. Sound(new, lies, Cause)
    BY <2>1 DEF Sound, Idle, Observing, Judging
  <2>4. thread' = [thread EXCEPT ![o] = new]
    BY <1>2 DEF Gathered
  <2> QED
    BY <2>2, <2>3, <2>4, QuietStep DEF Gathered
<1> QED
  BY <1>1, <1>2

-----------------------------------------------------------------------------
(* observe_root *)

LEMMA CheckStatusStep ==
    ASSUME Inv, NEW o \in Threads, CheckStatus(o)
    PROVE  Inv'
<1> DEFINE t == thread[o]
           new == [t EXCEPT !.stage = "find", !.root = Current(o)]
<1>1. t \in ThreadStates /\ Sound(t, lies, Cause) /\ t.stage = "status"
  BY OwnState DEF CheckStatus
<1>2. Current(o) \in Roots
  <2> DEFINE Got == [root : Roots, source : Sources]
  <2>1. t.got \in Seq(Got) /\ t.got # <<>>
    BY <1>1 DEF ThreadStates, Sound, Observing
  <2>2. t.got[1] \in Got
    <3> HIDE DEF Got, t
    <3> QED
      BY <2>1
  <2> QED
    BY <2>2 DEF Current
<1>3. CASE status = "blacklisted"
  BY <1>3, RaiseStep DEF CheckStatus
<1>4. CASE status # "blacklisted"
  <2>1. new \in ThreadStates
    BY <1>1, <1>2 DEF ThreadStates, Observing
  <2>2. Sound(new, lies, Cause)
    BY <1>1, <1>2 DEF Sound, ThreadStates, Observing, Judging
  <2>3. thread' = [thread EXCEPT ![o] = new]
    BY <1>4 DEF CheckStatus, Inv, TypeOK
  <2> QED
    BY <2>1, <2>2, <2>3, QuietStep DEF CheckStatus
<1> QED
  BY <1>3, <1>4

\* A root that collides with one that is held is a collision to save.
LEMMA CollisionStep ==
    ASSUME Inv, NEW x \in Threads, thread[x].root \in Roots, NEW s \in Held,
           Collide(s, thread[x].root),
           thread' = [thread EXCEPT ![x] = [Idle EXCEPT !.stage = "collision",
                                                        !.root = thread[x].root, !.other = s]],
           UNCHANGED <<anchor, observed, heard, saved, status, lies, cut, counters>>
    PROVE  Inv'
<1> DEFINE new == [Idle EXCEPT !.stage = "collision", !.root = thread[x].root, !.other = s]
<1>1. s \in Roots
  BY HeldRoots DEF Held
<1>2. new \in ThreadStates
  BY <1>1, IdleSound DEF ThreadStates, Idle, Accusing
<1>3. Collide(thread[x].root, s)
  BY DEF Collide
<1>4. Sound(new, lies, Cause)
  BY <1>1, <1>3 DEF Sound, Idle, Observing
<1> QED
  BY <1>2, <1>4, QuietStep

LEMMA FindBeforeRecordStep ==
    ASSUME Inv, NEW o \in Threads, FindBeforeRecord(o)
    PROVE  Inv'
<1>1. thread[o] \in ThreadStates /\ Sound(thread[o], lies, Cause) /\ thread[o].stage = "find"
  BY OwnState DEF FindBeforeRecord
<1>2. thread[o].root \in Roots
  BY <1>1 DEF Sound, Judging
<1>3. CASE Goto(o, "previous")
  <2>1. [thread[o] EXCEPT !.stage = "previous"] \in ThreadStates
    BY <1>1 DEF ThreadStates, Observing
  <2>2. Sound([thread[o] EXCEPT !.stage = "previous"], lies, Cause)
    BY <1>1, <1>2 DEF Sound, ThreadStates, Observing
  <2> QED
    BY <1>3, <2>1, <2>2, GotoStep DEF FindBeforeRecord
<1> QED
  BY <1>2, <1>3, CollisionStep DEF FindBeforeRecord, FindCollision

LEMMA FindAfterRecordStep ==
    ASSUME Inv, NEW g \in Threads, FindAfterRecord(g)
    PROVE  Inv'
<1>1. thread[g].root \in Roots
  BY OwnState DEF FindAfterRecord, Sound, Judging
<1> QED
  BY <1>1, CollisionStep, RaiseStep DEF FindAfterRecord, FindCollision

LEMMA ReadPreviousStep ==
    ASSUME Inv, NEW o \in Threads, ReadPrevious(o)
    PROVE  Inv'
<1> DEFINE t == thread[o]
           r == t.root
           p == IF observed = {} THEN NoRoot ELSE Latest
           stage == IF p = NoRoot \/ Tree[p] = Tree[r] THEN "record"
                    ELSE IF Size(p) = Size(r) THEN "failure" ELSE "prove"
           new == [t EXCEPT !.other = p, !.stage = stage]
<1>1. t \in ThreadStates /\ Sound(t, lies, Cause) /\ t.stage = "previous"
  BY OwnState DEF ReadPrevious
<1>2. r \in Roots /\ t.got # <<>>
  BY <1>1 DEF Sound, Observing, Judging
<1>3. p \in Roots \cup {NoRoot}
  <2>1. observed # {} => ObservedRoots # {}
    BY DEF ObservedRoots
  <2> QED
    BY <2>1, LatestIsLatest, HeldRoots DEF IsLatest
<1>4. stage = "failure" => Contradict(p, r)
  BY DEF Contradict, Collide
<1>5. new \in ThreadStates
  BY <1>1, <1>3 DEF ThreadStates, Observing, Accusing
<1>6. Sound(new, lies, Cause)
  <2> HIDE DEF p
  <2> QED
    BY <1>1, <1>2, <1>3, <1>4 DEF Sound, ThreadStates, Observing
<1>7. thread' = [thread EXCEPT ![o] = new]
  BY DEF ReadPrevious, Inv, TypeOK
<1> QED
  BY <1>5, <1>6, <1>7, QuietStep DEF ReadPrevious

LEMMA ProveConsistencyStep ==
    ASSUME Inv, NEW o \in Threads, ProveConsistency(o)
    PROVE  Inv'
<1> DEFINE t == thread[o]
           to(stage) == [t EXCEPT !.stage = stage]
<1>1. t \in ThreadStates /\ Sound(t, lies, Cause) /\ t.stage = "prove"
  BY OwnState DEF ProveConsistency
<1>2. t.root \in Roots /\ t.other \in Roots /\ t.got # <<>>
  BY <1>1 DEF Sound, Observing, Judging
<1>3. to("record") \in ThreadStates /\ to("failure") \in ThreadStates /\ to("silent") \in ThreadStates
  BY <1>1 DEF ThreadStates, Observing, Accusing
<1>4. Sound(to("record"), lies, Cause) /\ Sound(to("silent"), lies, Cause)
  BY <1>1, <1>2 DEF Sound, ThreadStates, Observing
<1>5. CASE /\ Goto(o, "failure")
           /\ lies' = lies \cup {<<t.other, t.root>>}
           /\ UNCHANGED <<anchor, observed, heard, saved, status, cut, counters>>
  <2>1. Tables' /\ Growing /\ status' = status
    BY <1>2, <1>5 DEF Inv, TypeOK, Tables, Growing, saved, counters
  <2>2. Sound(to("failure"), lies', Cause')
    BY <1>1, <1>2, <1>5 DEF Sound, ThreadStates, Observing
  <2>3. thread' = [thread EXCEPT ![o] = to("failure")]
    BY <1>5 DEF Goto, Inv, TypeOK
  <2> QED
    BY <1>3, <2>1, <2>2, <2>3, ThreadStep
<1>6. CASE Goto(o, "record") /\ UNCHANGED lies
  BY <1>3, <1>4, <1>6, GotoStep DEF ProveConsistency
<1>7. CASE Goto(o, "silent") /\ UNCHANGED lies
  BY <1>3, <1>4, <1>7, GotoStep DEF ProveConsistency
<1> QED
  BY <1>5, <1>6, <1>7 DEF ProveConsistency

\* A thread that goes on while a table grows or the status changes for a cause.
LEMMA AdvanceStep ==
    ASSUME Inv, Tables', Growing, NEW x \in Threads, NEW stage, Goto(x, stage),
           [thread[x] EXCEPT !.stage = stage] \in ThreadStates,
           Sound([thread[x] EXCEPT !.stage = stage], lies', Cause'),
           status' = "blacklisted" => status = "blacklisted" \/ Cause'
    PROVE  Inv'
<1>1. thread' = [thread EXCEPT ![x] = [thread[x] EXCEPT !.stage = stage]]
  BY DEF Goto, Inv, TypeOK
<1> QED
  BY <1>1, ThreadStep

\* What is left of a round after its first root.
LEMMA TailOfRound ==
    ASSUME NEW S, NEW q \in Seq(S), q # <<>>
    PROVE  Tail(q) \in Seq(S) /\ (Len(q) # 1 => Tail(q) # <<>>)
<1>1. Len(q) \in Nat \ {0} /\ Tail(q) \in Seq(S) /\ Len(Tail(q)) = Len(q) - 1
  OBVIOUS
<1>2. Tail(q) = <<>> => Len(Tail(q)) = 0
  BY <1>1, EmptySeq, Zenon
<1>3. Len(q) # 1 => Tail(q) # <<>>
  <2> DEFINE n == Len(q)
             m == Len(Tail(q))
  <2>1. n \in Nat /\ m = n - 1 /\ (Tail(q) = <<>> => m = 0)
    BY <1>1, <1>2
  <2> HIDE DEF n, m
  <2>2. n # 1 => Tail(q) # <<>>
    BY <2>1
  <2> QED
    BY <2>2 DEF n
<1> QED
  BY <1>1, <1>3

LEMMA NextRootState ==
    ASSUME Inv, NEW o \in Threads, NextRoot(o), thread[o].stage \in Observing
    PROVE  /\ thread' = [thread EXCEPT ![o] = AfterRoot(thread[o])]
           /\ AfterRoot(thread[o]) \in ThreadStates
           /\ Sound(AfterRoot(thread[o]), lies, Cause)
<1> DEFINE t == thread[o]
           Got == [root : Roots, source : Sources]
<1>1. t \in ThreadStates /\ Sound(t, lies, Cause)
  BY OwnState
<1>2. t.got \in Seq(Got) /\ t.got # <<>>
  BY <1>1 DEF ThreadStates, Sound
<1>3. Tail(t.got) \in Seq(Got) /\ (Len(t.got) # 1 => Tail(t.got) # <<>>)
  BY <1>2, TailOfRound, Zenon
<1>4. CASE Len(t.got) = 1
  BY <1>4, IdleSound DEF NextRoot, AfterRoot
<1>5. CASE Len(t.got) # 1
  <2> DEFINE new == [t EXCEPT !.stage = "status", !.got = Tail(t.got), !.root = NoRoot, !.other = NoRoot]
  <2>1. new \in ThreadStates
    BY <1>1, <1>3 DEF ThreadStates, Observing
  <2>2. Sound(new, lies, Cause)
    BY <1>1, <1>3, <1>5 DEF Sound, ThreadStates, Observing, Judging
  <2>3. AfterRoot(t) = new
    BY <1>5 DEF AfterRoot
  <2> QED
    BY <2>1, <2>2, <2>3 DEF NextRoot
<1> QED
  BY <1>4, <1>5

LEMMA RecordRootStep ==
    ASSUME Inv, NEW o \in Threads, RecordRoot(o)
    PROVE  Inv'
<1> DEFINE t == thread[o]
           new == [t EXCEPT !.stage = "activate"]
           row == [root |-> t.root, source |-> t.got[1].source]
<1>1. t \in ThreadStates /\ Sound(t, lies, Cause) /\ t.stage = "record"
  BY OwnState DEF RecordRoot
<1>2. t.root \in Roots /\ t.got # <<>>
  BY <1>1 DEF Sound, Observing, Judging
<1>3. t.got[1].source \in Sources
  <2> DEFINE Got == [root : Roots, source : Sources]
  <2>1. t.got \in Seq(Got)
    BY <1>1 DEF ThreadStates
  <2>2. t.got[1] \in Got
    <3> HIDE DEF Got, t
    <3> QED
      BY <1>2, <2>1
  <2> QED
    BY <2>2
<1>4. row \in [root : Roots, source : Sources \cup {Anchored}]
  BY <1>2, <1>3
<1>5. observed' \subseteq [root : Roots, source : Sources \cup {Anchored}]
  <2>1. observed' \subseteq observed \cup {row}
    BY DEF RecordRoot
  <2> HIDE DEF row
  <2> QED
    BY <1>4, <2>1 DEF Inv, TypeOK
<1>6. Tables' /\ Growing /\ status' = status
  BY <1>5 DEF RecordRoot, Inv, TypeOK, Tables, Growing, saved, counters
<1>7. new \in ThreadStates
  BY <1>1 DEF ThreadStates, Observing
<1>8. Sound(new, lies, Cause)
  BY <1>1, <1>2 DEF Sound, ThreadStates, Observing
<1>9. Sound(new, lies', Cause') /\ Goto(o, "activate")
  BY <1>6, <1>8, SoundLasts DEF RecordRoot
<1> QED
  BY <1>6, <1>7, <1>9, AdvanceStep

\* A thread that passes its root on to be enforced.
LEMMA EnforceState ==
    ASSUME Inv, NEW o \in Threads, thread[o].stage \in {"activate", "silent"}
    PROVE  /\ [thread[o] EXCEPT !.stage = "enforce"] \in ThreadStates
           /\ Sound([thread[o] EXCEPT !.stage = "enforce"], lies, Cause)
<1>1. thread[o] \in ThreadStates /\ Sound(thread[o], lies, Cause)
  BY OwnState
<1> QED
  BY <1>1 DEF ThreadStates, Sound, Observing, Judging

LEMMA ActivateStep ==
    ASSUME Inv, NEW o \in Threads, Activate(o)
    PROVE  Inv'
<1>1. Tables' /\ Growing /\ status' = "active"
  BY DEF Activate, Inv, TypeOK, Tables, Growing, saved, counters
<1>2. CASE Goto(o, "enforce")
  <2>1. Sound([thread[o] EXCEPT !.stage = "enforce"], lies', Cause')
    BY <1>1, EnforceState, SoundLasts DEF Activate
  <2> QED
    BY <1>1, <1>2, <2>1, EnforceState, AdvanceStep DEF Activate
<1>3. CASE NextRoot(o)
  <2>1. thread[o].stage \in Observing
    BY DEF Activate, Observing
  <2>2. Sound(AfterRoot(thread[o]), lies', Cause')
    BY <1>1, <1>3, <2>1, NextRootState, SoundLasts
  <2> QED
    BY <1>1, <1>3, <2>1, <2>2, NextRootState, ThreadStep
<1> QED
  BY <1>2, <1>3 DEF Activate

LEMMA OperatorSilentStep ==
    ASSUME Inv, NEW o \in Threads, OperatorSilent(o)
    PROVE  Inv'
<1>1. /\ Tables' /\ Growing
      /\ status' = "blacklisted" => status = "blacklisted"
  BY DEF OperatorSilent, Inv, TypeOK, Tables, Growing, saved, counters
<1>2. Sound([thread[o] EXCEPT !.stage = "enforce"], lies', Cause')
  BY <1>1, EnforceState, SoundLasts DEF OperatorSilent
<1> QED
  BY <1>1, <1>2, EnforceState, AdvanceStep DEF OperatorSilent

LEMMA EnforceStep ==
    ASSUME Inv, NEW o \in Threads, Enforce(o)
    PROVE  Inv'
<1>1. CASE Raise(o)
  BY <1>1, RaiseStep DEF Enforce
<1>2. CASE NextRoot(o)
  <2>1. thread[o].stage \in Observing
    BY DEF Enforce, Observing
  <2> QED
    BY <1>2, <2>1, NextRootState, QuietStep DEF Enforce
<1> QED
  BY <1>1, <1>2 DEF Enforce

-----------------------------------------------------------------------------
(* Evidence and gossip *)

\* An accuser that has saved its cause may mark the log.
LEMMA MarkState ==
    ASSUME Inv, NEW x \in Threads, thread[x].stage \in Accusing
    PROVE  [thread[x] EXCEPT !.stage = "mark"] \in ThreadStates
  BY OwnState DEF ThreadStates, Accusing

LEMMA SaveCollisionStep ==
    ASSUME Inv, NEW x \in Threads, SaveCollision(x)
    PROVE  Inv'
<1> DEFINE r == thread[x].root
           s == thread[x].other
<1>1. r \in Roots /\ s \in Roots /\ Collide(r, s)
  BY OwnState DEF SaveCollision, Sound, Judging
<1>2. Tables' /\ Growing /\ status' = status
  BY <1>1 DEF SaveCollision, Inv, TypeOK, Tables, Growing, counters
<1>3. Cause'
  <2>1. {r, s} \in evidence'
    BY DEF SaveCollision
  <2>2. \E pair \in evidence' : \E a, b \in pair : Collide(a, b)
    BY <1>1, <2>1, Zenon
  <2> QED
    BY <2>2 DEF Cause, Collide, Size
<1>4. Sound([thread[x] EXCEPT !.stage = "mark"], lies', Cause')
  BY <1>3, OwnState DEF Sound, ThreadStates, Observing, Judging
<1> QED
  BY <1>2, <1>4, MarkState, AdvanceStep DEF SaveCollision, Accusing

LEMMA SaveFailureStep ==
    ASSUME Inv, NEW x \in Threads, SaveFailure(x)
    PROVE  Inv'
<1> DEFINE r == thread[x].root
           p == thread[x].other
<1>1. r \in Roots /\ p \in Roots /\ (Contradict(p, r) \/ <<p, r>> \in lies)
  BY OwnState DEF SaveFailure, Sound, Judging
<1>2. Tables' /\ Growing /\ status' = status
  BY <1>1 DEF SaveFailure, Inv, TypeOK, Tables, Growing, counters
<1>3. Cause'
  <2>1. <<p, r>> \in failures' /\ lies' = lies
    BY DEF SaveFailure
  <2>2. \E pair \in failures' : Contradict(pair[1], pair[2]) \/ pair \in lies'
    BY <1>1, <2>1
  <2> QED
    BY <2>2 DEF Cause, Contradict, Comparable, Prefix, Collide, RolledBack, Size
<1>4. Sound([thread[x] EXCEPT !.stage = "mark"], lies', Cause')
  BY <1>3, OwnState DEF Sound, ThreadStates, Observing, Judging
<1> QED
  BY <1>2, <1>4, MarkState, AdvanceStep DEF SaveFailure, Accusing

LEMMA SaveViolationStep ==
    ASSUME Inv, NEW x \in Threads, SaveViolation(x)
    PROVE  Inv'
<1>1. thread[x].root \in Roots /\ thread[x].root \in Violating
  BY OwnState DEF SaveViolation, Sound, Judging
<1>2. Tables' /\ Growing /\ status' = status
  BY <1>1 DEF SaveViolation, Inv, TypeOK, Tables, Growing, counters
<1>3. Cause'
  BY <1>1 DEF SaveViolation, Cause
<1>4. Sound([thread[x] EXCEPT !.stage = "mark"], lies', Cause')
  BY <1>3, OwnState DEF Sound, ThreadStates, Observing, Judging
<1> QED
  BY <1>2, <1>4, MarkState, AdvanceStep DEF SaveViolation, Accusing

LEMMA MarkBlacklistedStep ==
    ASSUME Inv, NEW x \in Threads, MarkBlacklisted(x)
    PROVE  Inv'
<1>1. Tables' /\ Growing
  BY DEF MarkBlacklisted, Inv, TypeOK, Tables, Growing, saved, counters
<1>2. Cause'
  BY <1>1, OwnState, CauseLasts DEF MarkBlacklisted, Sound
<1> QED
  BY <1>1, <1>2, IdleSound, ThreadStep DEF MarkBlacklisted, Raise

\* A thread that takes something from a peer writes to the peers' table only.
LEMMA TakeStep ==
    ASSUME Inv, NEW g \in Threads, Take(g), heard' \in Seq(Rows), NEW new \in ThreadStates,
           thread' = [thread EXCEPT ![g] = new], Sound(new, lies, Cause),
           UNCHANGED <<anchor, observed, saved, status, lies, cut, rounds, stops>>
    PROVE  Inv'
<1>1. gossiped' \in 0..MaxGossip
  BY BoundAssumption DEF Take, Inv, TypeOK
<1>2. Tables' /\ Growing /\ status' = status
  BY <1>1 DEF Inv, TypeOK, Tables, Growing, saved, Rows
<1>3. Sound(new, lies', Cause')
  BY <1>2, SoundLasts
<1> QED
  BY <1>2, <1>3, ThreadStep

LEMMA HeardRows == Inv => heard \in Seq(Rows)
  BY DEF Inv, TypeOK, Rows

LEMMA ReceiveRootStep ==
    ASSUME Inv, NEW g \in Threads, NEW p \in Peers, NEW r \in Roots, ReceiveRoot(g, p, r)
    PROVE  Inv'
<1> DEFINE t == thread[g]
           new == [t EXCEPT !.stage = "announced", !.root = r]
<1>1. t \in ThreadStates
  BY OwnState
<1>2. new \in ThreadStates
  BY <1>1 DEF ThreadStates
<1>3. Sound(new, lies, Cause)
  BY <1>1 DEF Sound, ThreadStates, Observing
<1>4. thread' = [thread EXCEPT ![g] = new]
  BY DEF ReceiveRoot, Inv, TypeOK
<1> QED
  BY <1>2, <1>3, <1>4, HeardRows, RecordType, TakeStep DEF ReceiveRoot

LEMMA ReceiveProofStep ==
    ASSUME Inv, NEW g \in Threads, NEW p \in Peers, NEW r \in Roots, NEW s \in Roots,
           ReceiveProof(g, p, r, s)
    PROVE  Inv'
<1> DEFINE t == thread[g]
           new == [t EXCEPT !.stage = "collision", !.root = s, !.other = r]
<1>1. t \in ThreadStates
  BY OwnState
<1>2. new \in ThreadStates
  BY <1>1 DEF ThreadStates, Accusing
<1>3. Collide(s, r)
  BY DEF ReceiveProof, Collide
<1>4. Sound(new, lies, Cause)
  BY <1>1, <1>3 DEF Sound, ThreadStates, Observing
<1>5. thread' = [thread EXCEPT ![g] = new]
  BY DEF ReceiveProof, Inv, TypeOK
<1>6. Record(Record(heard, r, p), s, p) \in Seq(Rows)
  BY HeardRows, RecordType
<1> QED
  BY <1>2, <1>4, <1>5, <1>6, TakeStep DEF ReceiveProof

LEMMA ReceiveViolationStep ==
    ASSUME Inv, NEW g \in Threads, NEW p \in Peers, NEW r \in Roots, ReceiveViolation(g, p, r)
    PROVE  Inv'
<1> DEFINE t == thread[g]
           new == [t EXCEPT !.stage = "violation", !.root = r]
<1>1. t \in ThreadStates /\ r \in Violating
  BY OwnState DEF ReceiveViolation
<1>2. new \in ThreadStates
  BY <1>1 DEF ThreadStates, Accusing
<1>3. Sound(new, lies, Cause)
  BY <1>1 DEF Sound, ThreadStates, Observing
<1>4. thread' = [thread EXCEPT ![g] = new]
  BY DEF ReceiveViolation, Inv, TypeOK
<1> QED
  BY <1>2, <1>3, <1>4, HeardRows, RecordType, TakeStep DEF ReceiveViolation

LEMMA AnchorRowType ==
    ASSUME NEW a \in Anchors
    PROVE  AnchorRow(a) \subseteq [root : Roots, source : Sources \cup {Anchored}]
  BY RootAssumption DEF AnchorRow

LEMMA RestartStep ==
    ASSUME Inv, Restart
    PROVE  Inv'
<1>1. /\ status' \in {"none", "active", "unresponsive", "blacklisted"}
      /\ status' = "blacklisted" => status = "blacklisted"
  BY DEF Restart, Inv, TypeOK
<1>2. cut' \subseteq Roots
  <2>1. \A g \in Gossips : Checking(g) \subseteq Roots
    BY OwnState, ObserversAct DEF Checking, ThreadStates
  <2>2. cut' = cut \cup UNION {Checking(g) : g \in Gossips}
    BY DEF Restart
  <2> QED
    BY <2>1, <2>2 DEF Inv, TypeOK
<1>3. stops' \in 0..MaxStops
  BY BoundAssumption DEF Restart, Inv, TypeOK
<1>4. observed' \subseteq [root : Roots, source : Sources \cup {Anchored}]
  <2>1. anchor \in Anchors
    BY DEF Inv, TypeOK
  <2> QED
    BY <2>1, AnchorRowType DEF Restart, Inv, TypeOK
<1>5. Tables' /\ Growing
  BY <1>1, <1>2, <1>3, <1>4 DEF Restart, Inv, TypeOK, Tables, Growing, saved
<1>6. thread' = [x \in Threads |-> Idle]
  BY DEF Restart
<1>7. TypeOK'
  BY <1>5, <1>6, IdleSound DEF Tables, TypeOK
<1>8. (\A x \in Threads : Sound(thread[x], lies, Cause))'
  BY <1>6, IdleSound
<1>9. BlamedForCause'
  BY <1>1, <1>5, CauseLasts DEF Inv, BlamedForCause
<1> QED
  BY <1>7, <1>8, <1>9 DEF Inv

-----------------------------------------------------------------------------

LEMMA InitInv == Init => Inv
<1> SUFFICES ASSUME Init PROVE Inv
  OBVIOUS
<1>1. observed \subseteq [root : Roots, source : Sources \cup {Anchored}]
  BY AnchorRowType DEF Init
<1>2. heard \in Seq([root : Roots, peer : Peers])
  BY DEF Init
<1>3. thread \in [Threads -> ThreadStates] /\ \A x \in Threads : Sound(thread[x], lies, Cause)
  BY IdleSound DEF Init
<1>4. TypeOK
  BY <1>1, <1>2, <1>3, BoundAssumption DEF Init, TypeOK
<1>5. BlamedForCause
  BY DEF Init, BlamedForCause
<1> QED
  BY <1>3, <1>4, <1>5 DEF Inv

LEMMA NextInv == Inv /\ [Next]_vars => Inv'
<1> SUFFICES ASSUME Inv, [Next]_vars PROVE Inv'
  OBVIOUS
<1>1. ASSUME NEW o \in Observers, Round(o) PROVE Inv'
  BY <1>1, ObserversAct, BeginRoundStep, FetchRootStep, FetchNothingStep, GatheredStep DEF Round
<1>2. ASSUME NEW o \in Observers, Observe(o) PROVE Inv'
  BY <1>2, ObserversAct, CheckStatusStep, FindBeforeRecordStep, ReadPreviousStep,
     ProveConsistencyStep, RecordRootStep, ActivateStep, OperatorSilentStep, EnforceStep DEF Observe
<1>3. ASSUME NEW g \in Gossips, Gossip(g) PROVE Inv'
  BY <1>3, ObserversAct, ReceiveRootStep, ReceiveViolationStep, ReceiveProofStep,
     FindAfterRecordStep DEF Gossip
<1>4. ASSUME NEW x \in Threads, Blame(x) PROVE Inv'
  BY <1>4, SaveCollisionStep, SaveFailureStep, SaveViolationStep, MarkBlacklistedStep DEF Blame
<1>5. CASE UNCHANGED vars
  BY <1>5 DEF vars, saved, counters, Inv, TypeOK, Sound, BlamedForCause, Cause, Contradict,
     Comparable, Prefix, Collide, RolledBack, Size
<1> QED
  BY <1>1, <1>2, <1>3, <1>4, <1>5, RestartStep DEF Next

\* The invariant the other theorems rest on: types, what each thread of RootClient
\* has read and checked but not yet recorded, and a reason for every blamed operator.
THEOREM Invariance == Spec => []Inv
<1> QED
  BY InitInv, NextInv, PTL DEF Spec

\* Every state is well typed: roots, rows of the store and states of the threads
\* are what the code keeps, in every run.
THEOREM TypeCorrect == Spec => []TypeOK
<1>1. Inv => TypeOK
  BY DEF Inv
<1> QED
  BY <1>1, Invariance, PTL

\* An operator is blacklisted only while the store holds the cause: conflicting
\* roots, a false proof or a broken policy, for any number of threads, mirrors,
\* peers and roots (observe_root and the gossip handlers save before they mark).
THEOREM BlamedOnlyForCause == Spec => []BlamedForCause
<1>1. Inv => BlamedForCause
  BY DEF Inv
<1> QED
  BY <1>1, Invariance, PTL

-----------------------------------------------------------------------------
(* One observer keeps a chain *)

Largest(p) == p \in ObservedRoots /\ \A s \in ObservedRoots : Size(s) <= Size(p)

\* What a lone observer has read is still the largest root when it records.
Chain(o) ==
    /\ ChainOfRoots
    /\ AnchorRow(anchor) \subseteq observed
    /\ thread[o].stage = "prove" => Largest(thread[o].other)
    /\ thread[o].stage = "record" =>
          \/ observed = {}
          \/ Largest(thread[o].other) /\ Comparable(thread[o].root, thread[o].other)

\* A root extends itself.
LEMMA PrefixReflexive == ASSUME NEW r \in Roots PROVE Prefix(r, r)
  BY RootNumbers DEF Prefix

\* A root that fits the largest of a chain fits all of it.
LEMMA ChainGrows ==
    ASSUME ObservedRoots \subseteq Roots, ChainOfRoots, NEW r \in Roots, NEW p, Largest(p),
           Comparable(r, p), NEW s \in ObservedRoots
    PROVE  Comparable(r, s) /\ Comparable(s, r)
<1>1. p \in Roots /\ s \in Roots /\ Size(s) <= Size(p) /\ Comparable(s, p)
  BY DEF Largest, ChainOfRoots
<1>2. Prefix(s, p)
  BY <1>1, SmallerIsPrefix
<1>3. CASE Prefix(r, p)
  <2>1. Comparable(r, s)
    BY <1>1, <1>2, <1>3, PrefixesOfOne
  <2> QED
    BY <2>1 DEF Comparable
<1>4. CASE Prefix(p, r)
  <2>1. Prefix(s, r)
    BY <1>1, <1>2, <1>4, PrefixTransitive
  <2> QED
    BY <2>1 DEF Comparable
<1> QED
  BY <1>3, <1>4 DEF Comparable

\* A step that records nothing and does not bring the observer to judge.
LEMMA ChainFrame ==
    ASSUME NEW o, Chain(o), UNCHANGED <<anchor, observed>>,
           thread'[o] = thread[o] \/ thread'[o].stage \notin {"prove", "record"}
    PROVE  Chain(o)'
<1>1. ObservedRoots' = ObservedRoots
  BY DEF ObservedRoots
<1>2. (ChainOfRoots /\ AnchorRow(anchor) \subseteq observed)'
  BY <1>1 DEF Chain, ChainOfRoots, Comparable, Prefix, Size, AnchorRow
<1>3. CASE thread'[o] = thread[o]
  BY <1>1, <1>2, <1>3 DEF Chain, Largest, Comparable, Prefix, Size
<1>4. CASE thread'[o].stage \notin {"prove", "record"}
  BY <1>2, <1>4 DEF Chain
<1> QED
  BY <1>3, <1>4

LEMMA ChainReadPrevious ==
    ASSUME Inv, NEW o \in Threads, Chain(o), ReadPrevious(o)
    PROVE  Chain(o)'
<1> DEFINE t == thread[o]
           r == t.root
           p == IF observed = {} THEN NoRoot ELSE Latest
           stage == IF p = NoRoot \/ Tree[p] = Tree[r] THEN "record"
                    ELSE IF Size(p) = Size(r) THEN "failure" ELSE "prove"
<1>1. t \in ThreadStates /\ r \in Roots
  BY OwnState DEF ReadPrevious, Sound, Judging
<1>2. observed # {} => p \in Roots /\ p # NoRoot /\ Largest(p)
  <2>1. SUFFICES ASSUME observed # {} PROVE p \in Roots /\ p # NoRoot /\ Largest(p)
    OBVIOUS
  <2>2. p = Latest /\ ObservedRoots # {}
    BY <2>1 DEF ObservedRoots
  <2>3. ObservedRoots \subseteq Roots /\ IsLatest(p)
    BY <2>2, HeldRoots, LatestIsLatest
  <2>4. p \in Roots /\ p # NoRoot
    BY <2>3, RootAssumption DEF IsLatest
  <2>5. \A s \in ObservedRoots : Size(s) <= Size(p)
    <3> HIDE DEF p
    <3> QED
      BY <2>3, <2>4, RootNumbers DEF IsLatest
  <2> QED
    BY <2>3, <2>4, <2>5 DEF Largest, IsLatest
<1>3. thread'[o].other = p /\ thread'[o].stage = stage /\ thread'[o].root = r
  BY <1>1 DEF ReadPrevious, Inv, TypeOK, ThreadStates
<1>4. ObservedRoots' = ObservedRoots /\ observed' = observed
  BY DEF ReadPrevious, ObservedRoots
<1>5. (ChainOfRoots /\ AnchorRow(anchor) \subseteq observed)'
  BY <1>4 DEF ReadPrevious, Chain, ChainOfRoots, Comparable, Prefix, Size, AnchorRow
<1>6. stage = "record" => observed = {} \/ Comparable(r, p)
  <2>1. SUFFICES ASSUME stage = "record", observed # {} PROVE Comparable(r, p)
    OBVIOUS
  <2>2. p \in Roots /\ Tree[p] = Tree[r]
    BY <1>2, <2>1
  <2>3. Prefix(r, p)
    <3> HIDE DEF p
    <3> QED
      BY <1>1, <2>2, RootNumbers DEF Prefix, Size
  <2> QED
    BY <2>3 DEF Comparable
<1>7. stage = "prove" => observed # {}
  OBVIOUS
<1> HIDE DEF p, stage
<1>8. (thread[o].stage = "prove" => Largest(thread[o].other))'
  BY <1>2, <1>3, <1>4, <1>7 DEF Largest, Size
<1>9. (thread[o].stage = "record" =>
          \/ observed = {}
          \/ Largest(thread[o].other) /\ Comparable(thread[o].root, thread[o].other))'
  BY <1>2, <1>3, <1>4, <1>6 DEF Largest, Comparable, Prefix, Size
<1> QED
  BY <1>5, <1>8, <1>9 DEF Chain

LEMMA ChainProveConsistency ==
    ASSUME Inv, NEW o \in Threads, Chain(o), ProveConsistency(o)
    PROVE  Chain(o)'
<1> DEFINE t == thread[o]
<1>1. CASE Goto(o, "record") /\ Comparable(t.other, t.root)
  <2>1. t \in ThreadStates /\ t.stage = "prove" /\ Largest(t.other)
    BY OwnState DEF ProveConsistency, Chain
  <2>2. thread'[o].other = t.other /\ thread'[o].root = t.root /\ thread'[o].stage = "record"
    BY <1>1, <2>1 DEF Goto, Inv, TypeOK, ThreadStates
  <2>3. ObservedRoots' = ObservedRoots /\ observed' = observed /\ anchor' = anchor
    BY DEF ProveConsistency, ObservedRoots
  <2>4. Largest(t.other)' /\ Comparable(t.root, t.other)'
    BY <1>1, <2>1, <2>2, <2>3 DEF Largest, Comparable, Prefix, Size
  <2>5. (ChainOfRoots /\ AnchorRow(anchor) \subseteq observed)'
    BY <2>3 DEF Chain, ChainOfRoots, Comparable, Prefix, Size, AnchorRow
  <2> QED
    BY <2>2, <2>4, <2>5 DEF Chain
<1>2. CASE Goto(o, "failure") \/ Goto(o, "silent")
  <2>1. thread'[o].stage \notin {"prove", "record"}
    BY <1>2, OwnState DEF Goto, Inv, TypeOK, ThreadStates
  <2> QED
    BY <2>1, ChainFrame DEF ProveConsistency
<1> QED
  BY <1>1, <1>2 DEF ProveConsistency

LEMMA ChainRecordRoot ==
    ASSUME Inv, NEW o \in Threads, Chain(o), RecordRoot(o)
    PROVE  Chain(o)'
<1> DEFINE t == thread[o]
<1>1. t.root \in Roots /\ t.stage = "record"
  BY OwnState DEF RecordRoot, Sound, Judging
<1>2. ObservedRoots' \subseteq ObservedRoots \cup {t.root} /\ observed \subseteq observed'
  BY DEF RecordRoot, ObservedRoots
<1>3. \A s \in ObservedRoots : Comparable(t.root, s) /\ Comparable(s, t.root)
  <2>1. CASE observed = {}
    BY <2>1 DEF ObservedRoots
  <2>2. CASE Largest(t.other) /\ Comparable(t.root, t.other)
    BY <1>1, <2>2, HeldRoots, ChainGrows DEF Chain
  <2> QED
    BY <1>1, <2>1, <2>2 DEF Chain
<1>4. Comparable(t.root, t.root)
  BY <1>1, PrefixReflexive DEF Comparable
<1>5. \A r, s \in ObservedRoots' : Comparable(r, s)
  BY <1>2, <1>3, <1>4 DEF Chain, ChainOfRoots
<1>6. ChainOfRoots'
  BY <1>5 DEF ChainOfRoots, Comparable, Prefix, Size
<1>7. thread'[o].stage = "activate"
  BY OwnState DEF RecordRoot, Goto, Inv, TypeOK, ThreadStates
<1>8. (AnchorRow(anchor) \subseteq observed)'
  BY <1>2 DEF RecordRoot, Chain, AnchorRow
<1> QED
  BY <1>6, <1>7, <1>8 DEF Chain

LEMMA ChainInit == ASSUME NEW o \in Threads PROVE Init => Chain(o)
<1> SUFFICES ASSUME Init PROVE Chain(o)
  OBVIOUS
<1>1. Inv
  BY InitInv
<1>2. \A r, s \in ObservedRoots : r = s
  BY DEF Init, ObservedRoots, AnchorRow
<1>3. ChainOfRoots
  BY <1>1, <1>2, HeldRoots, PrefixReflexive DEF ChainOfRoots, Comparable
<1>4. thread[o].stage = "idle"
  BY DEF Init, Idle
<1> QED
  BY <1>3, <1>4 DEF Init, Chain

\* The steps of the observer that do not judge a root.
LEMMA ChainQuiet ==
    ASSUME Inv, NEW o \in Threads, Chain(o),
           \/ Round(o) \/ CheckStatus(o) \/ FindBeforeRecord(o)
           \/ Activate(o) \/ OperatorSilent(o) \/ Enforce(o) \/ Blame(o)
    PROVE  Chain(o)'
<1>1. thread[o] \in ThreadStates /\ thread \in [Threads -> ThreadStates]
  BY OwnState DEF Inv, TypeOK
<1>2. Idle.stage = "idle"
  BY DEF Idle
<1>3. ASSUME NEW new, thread' = [thread EXCEPT ![o] = new], new.stage \notin {"prove", "record"}
      PROVE  thread'[o].stage \notin {"prove", "record"}
  BY <1>1, <1>3
<1>4. ASSUME NEW stage \in Observing \cup Accusing, stage \notin {"prove", "record"}, Goto(o, stage)
      PROVE  thread'[o].stage \notin {"prove", "record"}
  BY <1>1, <1>4 DEF Goto, ThreadStates
<1>5. ASSUME Raise(o)
      PROVE  thread'[o].stage \notin {"prove", "record"}
  BY <1>1, <1>2, <1>5 DEF Raise
<1>6. ASSUME NextRoot(o)
      PROVE  thread'[o].stage \notin {"prove", "record"}
  BY <1>1, <1>2, <1>6 DEF NextRoot, AfterRoot, ThreadStates
<1>7. CASE Round(o)
  <2>1. ASSUME NEW kind, BeginRound(o, kind)
        PROVE  thread'[o].stage \notin {"prove", "record"}
    BY <1>3, <2>1 DEF BeginRound, Idle
  <2>2. ASSUME NEW r \in Roots, FetchRoot(o, r)
        PROVE  thread'[o].stage \notin {"prove", "record"}
    <3>1. CASE Keep(o, r)
      BY <1>1, <2>2, <3>1 DEF FetchRoot, Keep, ThreadStates
    <3> QED
      BY <1>3, <2>2, <3>1 DEF FetchRoot, Idle
  <2>3. ASSUME FetchNothing(o)
        PROVE  thread'[o].stage \notin {"prove", "record"}
    BY <1>1, <2>3 DEF FetchNothing, ThreadStates
  <2>4. ASSUME Gathered(o)
        PROVE  thread'[o].stage \notin {"prove", "record"}
    BY <1>3, <1>5, <2>4 DEF Gathered, Idle
  <2>5. thread'[o].stage \notin {"prove", "record"}
    BY <1>7, <2>1, <2>2, <2>3, <2>4 DEF Round
  <2> QED
    BY <1>7, <2>5, ChainFrame DEF Round, BeginRound, FetchRoot, FetchNothing, Gathered
<1>8. CASE CheckStatus(o)
  BY <1>1, <1>5, <1>8, ChainFrame DEF CheckStatus, ThreadStates
<1>9. CASE FindBeforeRecord(o)
  <2>1. thread'[o].stage \notin {"prove", "record"}
    BY <1>1, <1>4, <1>9 DEF FindBeforeRecord, FindCollision, Observing, Idle
  <2> QED
    BY <1>9, <2>1, ChainFrame DEF FindBeforeRecord
<1>10. CASE Activate(o)
  BY <1>4, <1>6, <1>10, ChainFrame DEF Activate, Observing
<1>11. CASE OperatorSilent(o)
  BY <1>4, <1>11, ChainFrame DEF OperatorSilent, Observing
<1>12. CASE Enforce(o)
  BY <1>5, <1>6, <1>12, ChainFrame DEF Enforce
<1>13. CASE Blame(o)
  <2>1. thread'[o].stage \notin {"prove", "record"}
    BY <1>4, <1>5, <1>13 DEF Blame, SaveCollision, SaveFailure, SaveViolation, MarkBlacklisted, Accusing
  <2> QED
    BY <1>13, <2>1, ChainFrame DEF Blame, SaveCollision, SaveFailure, SaveViolation, MarkBlacklisted
<1> QED
  BY <1>7, <1>8, <1>9, <1>10, <1>11, <1>12, <1>13

\* The other threads leave the observer and its roots alone.
LEMMA ChainOthers ==
    ASSUME Inv, NEW o \in Threads, NEW g \in Threads, g # o, Chain(o), Gossip(g) \/ Blame(g)
    PROVE  Chain(o)'
<1>1. thread'[o] = thread[o]
  BY DEF Gossip, ReceiveRoot, ReceiveViolation, ReceiveProof, FindAfterRecord, FindCollision,
     Blame, SaveCollision, SaveFailure, SaveViolation, MarkBlacklisted, Goto, Raise, Inv, TypeOK
<1> QED
  BY <1>1, ChainFrame DEF Gossip, ReceiveRoot, ReceiveViolation, ReceiveProof, FindAfterRecord,
     Blame, SaveCollision, SaveFailure, SaveViolation, MarkBlacklisted, saved

LEMMA ChainRestart ==
    ASSUME NEW o \in Threads, Chain(o), Restart
    PROVE  Chain(o)'
<1>1. anchor' = anchor /\ observed' = observed
  BY DEF Restart, Chain
<1>2. thread'[o].stage = "idle"
  BY DEF Restart, Idle
<1> QED
  BY <1>1, <1>2, ChainFrame

LEMMA ChainNext ==
    ASSUME NEW o, Observers = {o}
    PROVE  Inv /\ Chain(o) /\ [Next]_vars => Chain(o)'
<1> SUFFICES ASSUME Inv, Chain(o), [Next]_vars PROVE Chain(o)'
  OBVIOUS
<1>1. o \in Threads /\ Gossips \subseteq Threads /\ o \notin Gossips
  BY ThreadAssumption DEF Threads
<1>2. ASSUME Round(o) PROVE Chain(o)'
  BY <1>1, <1>2, ChainQuiet
<1>3. ASSUME Observe(o) PROVE Chain(o)'
  BY <1>1, <1>3, ChainQuiet, ChainReadPrevious, ChainProveConsistency, ChainRecordRoot DEF Observe
<1>4. ASSUME NEW g \in Gossips, Gossip(g) PROVE Chain(o)'
  BY <1>1, <1>4, ChainOthers
<1>5. ASSUME NEW x \in Threads, Blame(x) PROVE Chain(o)'
  BY <1>1, <1>5, ChainOthers, ChainQuiet
<1>6. CASE UNCHANGED vars
  BY <1>6, ChainFrame DEF vars
<1> QED
  BY <1>2, <1>3, <1>4, <1>5, <1>6, <1>1, ChainRestart DEF Next

\* With one observing thread the roots observed from mirrors are versions of one
\* log, though each was compared with the latest only, for any mirrors, anchor,
\* peers, stops and answers of the operator (observe_root).
THEOREM OneObserverKeepsAChain ==
    ASSUME NEW o, Observers = {o}
    PROVE  Spec => []ChainOfRoots
<1>1. Init => Chain(o)
  BY ChainInit DEF Threads
<1>2. Inv /\ Chain(o) /\ [Next]_vars => Chain(o)'
  BY ChainNext
<1>3. Chain(o) => ChainOfRoots
  BY DEF Chain
<1> QED
  BY <1>1, <1>2, <1>3, Invariance, PTL DEF Spec

-----------------------------------------------------------------------------
(* Nothing that peers announce is overlooked *)

RootsIn(rows) == {rows[i].root : i \in DOMAIN rows}

\* A row recorded is the announced root's; the others were there, whatever is pruned.
LEMMA RecordRoots ==
    ASSUME NEW rows \in Seq(Rows), NEW r \in Roots, NEW p \in Peers
    PROVE  RootsIn(Record(rows, r, p)) \subseteq RootsIn(rows) \cup {r}
<1> DEFINE row == [root |-> r, peer |-> p]
           added == IF \E i \in DOMAIN rows : rows[i] = row THEN rows ELSE Append(rows, row)
           surplus == {i \in DOMAIN added : Surplus(added, p, i)}
<1>1. added \in Seq(Rows) /\ RootsIn(added) \subseteq RootsIn(rows) \cup {r}
  <2>1. row \in Rows /\ row.root = r
    BY DEF Rows
  <2>2. /\ Append(rows, row) \in Seq(Rows)
        /\ \A i \in DOMAIN Append(rows, row) : \/ i \in DOMAIN rows /\ Append(rows, row)[i] = rows[i]
                                               \/ Append(rows, row)[i] = row
    BY <2>1
  <2> HIDE DEF row
  <2> QED
    BY <2>1, <2>2 DEF RootsIn
<1> HIDE DEF added
<1>2. ASSUME NEW i \in DOMAIN added
      PROVE  RootsIn(Without(added, i)) \subseteq RootsIn(added)
  <2> DEFINE a == SubSeq(added, 1, i - 1)
             b == SubSeq(added, i + 1, Len(added))
  <2>1. i \in 1..Len(added) /\ Len(added) \in Nat
    BY <1>1
  <2>2. /\ a \in Seq(Rows) /\ Len(a) = i - 1
        /\ \A k \in 1..Len(a) : a[k] = added[k] /\ k \in DOMAIN added
    BY <1>1, <2>1
  <2>3. /\ b \in Seq(Rows) /\ Len(b) = Len(added) - i
        /\ \A k \in 1..Len(b) : b[k] = added[k + i] /\ k + i \in DOMAIN added
    BY <1>1, <2>1
  <2> HIDE DEF a, b
  <2>4. \A k \in DOMAIN (a \o b) : \/ k \in 1..Len(a) /\ (a \o b)[k] = a[k]
                                   \/ k - Len(a) \in 1..Len(b) /\ (a \o b)[k] = b[k - Len(a)]
    BY <2>2, <2>3
  <2>5. Without(added, i) = a \o b
    BY DEF Without, a, b
  <2> QED
    BY <2>2, <2>3, <2>4, <2>5 DEF RootsIn
<1>3. Record(rows, r, p) = IF surplus = {} THEN added
                           ELSE Without(added, CHOOSE i \in surplus : TRUE)
  BY DEF Record, added
<1>4. surplus # {} => (CHOOSE i \in surplus : TRUE) \in DOMAIN added
  OBVIOUS
<1> HIDE DEF surplus
<1> QED
  BY <1>1, <1>2, <1>3, <1>4

\* What a thread that takes announcements holds: nothing between two of them, and nothing
\* that is not saved once it is about to mark.
Attentive(t, kept) ==
    /\ t.stage \in {"idle", "announced", "collision", "violation", "mark"}
    /\ t.stage = "idle" => t.root = NoRoot
    /\ t.stage \in {"idle", "announced", "violation"} => t.other = NoRoot
    /\ t.stage = "mark" => {t.root, t.other} \ {NoRoot} \subseteq kept

Watched ==
    /\ PeerCollisionsAreCaught
    /\ \A g \in Gossips : Attentive(thread[g], InEvidence \cup violations)

\* A step of a thread g: what it stops checking is saved, or collides with nothing held.
LEMMA WatchStep ==
    ASSUME Watched, NEW g \in Gossips, NEW new,
           \A x \in Gossips : x # g => thread'[x] = thread[x],
           evidence \subseteq evidence', violations \subseteq violations', cut' = cut,
           HeardRoots' \subseteq HeardRoots \cup new,
           new \subseteq Checking(g)',
           \A r \in Checking(g) : \/ r \in Checking(g)'
                                  \/ r \in (InEvidence \cup violations)'
                                  \/ \A s \in HeardRoots' : ~Collide(r, s) /\ ~Collide(s, r),
           Attentive(thread'[g], (InEvidence \cup violations)')
    PROVE  Watched'
<1>1. InEvidence \subseteq InEvidence'
  BY DEF InEvidence
<1>2. \A x \in Gossips : x # g => Checking(x)' = Checking(x)
  BY DEF Checking
<1>3. ASSUME NEW r \in HeardRoots', NEW s \in HeardRoots', Collide(r, s)
      PROVE  \/ {r, s} \cap (InEvidence \cup violations \cup cut)' # {}
             \/ \E x \in Gossips : {r, s} \cap Checking(x)' # {}
  <2>1. CASE r \in new \/ s \in new
    BY <2>1
  <2>2. CASE r \in HeardRoots /\ s \in HeardRoots
    <3>1. CASE {r, s} \cap (InEvidence \cup violations \cup cut) # {}
      BY <1>1, <3>1
    <3>2. CASE \E x \in Gossips : {r, s} \cap Checking(x) # {}
      <4>1. PICK x \in Gossips : {r, s} \cap Checking(x) # {}
        BY <3>2
      <4>2. CASE x # g
        BY <1>2, <4>1, <4>2
      <4>3. CASE x = g
        BY <1>3, <4>1, <4>3
      <4> QED
        BY <4>2, <4>3
    <3> QED
      BY <1>3, <2>2, <3>1, <3>2 DEF Watched, PeerCollisionsAreCaught
  <2> QED
    BY <2>1, <2>2
<1>4. PeerCollisionsAreCaught'
  BY <1>3 DEF PeerCollisionsAreCaught, Collide, Size
<1>5. \A x \in Gossips : Attentive(thread'[x], (InEvidence \cup violations)')
  BY <1>1 DEF Watched, Attentive
<1> QED
  BY <1>4, <1>5 DEF Watched

\* A step that none of these threads takes.
LEMMA WatchFrame ==
    ASSUME Watched, UNCHANGED <<heard, cut>>,
           \A x \in Gossips : thread'[x] = thread[x],
           evidence \subseteq evidence', violations \subseteq violations'
    PROVE  Watched'
<1>1. InEvidence \subseteq InEvidence' /\ HeardRoots' = HeardRoots
  BY DEF InEvidence, HeardRoots
<1>2. \A x \in Gossips : Checking(x)' = Checking(x)
  BY DEF Checking
<1>3. PeerCollisionsAreCaught'
  BY <1>1, <1>2 DEF Watched, PeerCollisionsAreCaught, Collide, Size
<1>4. \A x \in Gossips : Attentive(thread'[x], (InEvidence \cup violations)')
  BY <1>1 DEF Watched, Attentive
<1> QED
  BY <1>3, <1>4 DEF Watched

\* Every announcement is recorded and kept in hand before anything is looked up.
LEMMA WatchReceive ==
    ASSUME Inv, Watched, NEW g \in Gossips, NEW p \in Peers, NEW r \in Roots,
           ReceiveRoot(g, p, r) \/ ReceiveViolation(g, p, r)
    PROVE  Watched'
<1>1. thread \in [Threads -> ThreadStates] /\ g \in Threads /\ heard \in Seq(Rows) /\ NoRoot \notin Roots
  BY RootAssumption, HeardRows DEF Inv, TypeOK, Threads
<1>2. thread[g].stage = "idle" /\ thread[g].root = NoRoot /\ thread[g].other = NoRoot
  BY DEF ReceiveRoot, ReceiveViolation, Take, Watched, Attentive
<1>3. /\ thread'[g].stage \in {"announced", "violation"}
      /\ thread'[g].root = r /\ thread'[g].other = NoRoot
      /\ \A x \in Gossips : x # g => thread'[x] = thread[x]
  BY <1>1, <1>2 DEF ReceiveRoot, ReceiveViolation, Threads, ThreadStates
<1>4. Checking(g) = {} /\ Checking(g)' = {r}
  BY <1>1, <1>2, <1>3 DEF Checking
<1>5. HeardRoots' \subseteq HeardRoots \cup {r}
  <2>1. heard' = Record(heard, r, p)
    BY DEF ReceiveRoot, ReceiveViolation
  <2>2. RootsIn(heard') \subseteq RootsIn(heard) \cup {r}
    BY <1>1, <2>1, RecordRoots
  <2> QED
    BY <2>2 DEF HeardRoots, RootsIn
<1>6. Attentive(thread'[g], (InEvidence \cup violations)')
  BY <1>3 DEF Attentive
<1> QED
  BY <1>3, <1>4, <1>5, <1>6, WatchStep DEF ReceiveRoot, ReceiveViolation, saved

\* Both roots of a proof are recorded and in hand at once.
LEMMA WatchReceiveProof ==
    ASSUME Inv, Watched, NEW g \in Gossips, NEW p \in Peers, NEW r \in Roots, NEW s \in Roots,
           ReceiveProof(g, p, r, s)
    PROVE  Watched'
<1>1. thread \in [Threads -> ThreadStates] /\ g \in Threads /\ heard \in Seq(Rows) /\ NoRoot \notin Roots
  BY RootAssumption, HeardRows DEF Inv, TypeOK, Threads
<1>2. thread[g].stage = "idle" /\ thread[g].root = NoRoot /\ thread[g].other = NoRoot
  BY DEF ReceiveProof, Take, Watched, Attentive
<1>3. /\ thread'[g].stage = "collision"
      /\ thread'[g].root = s /\ thread'[g].other = r
      /\ \A x \in Gossips : x # g => thread'[x] = thread[x]
  BY <1>1, <1>2 DEF ReceiveProof, Threads, ThreadStates
<1>4. Checking(g) = {} /\ Checking(g)' = {r, s}
  BY <1>1, <1>2, <1>3 DEF Checking
<1>5. HeardRoots' \subseteq HeardRoots \cup {r, s}
  <2> DEFINE mid == Record(heard, r, p)
  <2>1. mid \in Seq(Rows) /\ RootsIn(mid) \subseteq RootsIn(heard) \cup {r}
    BY <1>1, RecordType, RecordRoots
  <2> HIDE DEF mid
  <2>2. RootsIn(Record(mid, s, p)) \subseteq RootsIn(mid) \cup {s}
    BY <2>1, RecordRoots
  <2>3. heard' = Record(mid, s, p)
    BY DEF ReceiveProof, mid
  <2> QED
    BY <2>1, <2>2, <2>3 DEF HeardRoots, RootsIn
<1>6. Attentive(thread'[g], (InEvidence \cup violations)')
  BY <1>3 DEF Attentive
<1> QED
  BY <1>3, <1>4, <1>5, <1>6, WatchStep DEF ReceiveProof, saved

\* A root put aside collides with no root that is held at that moment.
LEMMA WatchFind ==
    ASSUME Inv, Watched, NEW g \in Gossips, FindAfterRecord(g)
    PROVE  Watched'
<1> DEFINE r == thread[g].root
<1>1. thread \in [Threads -> ThreadStates] /\ g \in Threads
  BY DEF Inv, TypeOK, Threads
<1>2. thread[g].stage = "announced" /\ thread[g].other = NoRoot
  BY DEF FindAfterRecord, Watched, Attentive
<1>3. Checking(g) \subseteq {r} /\ HeardRoots' = HeardRoots
  BY <1>2 DEF FindAfterRecord, Checking, HeardRoots
<1>4. \A x \in Gossips : x # g => thread'[x] = thread[x]
  BY <1>1 DEF FindAfterRecord, FindCollision, Raise, Threads
<1>5. CASE /\ \A s \in Held : ~Collide(s, r)
           /\ Raise(g)
  <2>1. thread'[g] = Idle
    BY <1>1, <1>5 DEF Raise
  <2>2. Attentive(thread'[g], (InEvidence \cup violations)')
    BY <2>1 DEF Attentive, Idle
  <2>3. \A s \in HeardRoots' : ~Collide(r, s) /\ ~Collide(s, r)
    BY <1>3, <1>5 DEF Held, Collide
  <2> QED
    BY <1>3, <1>4, <2>2, <2>3, WatchStep DEF FindAfterRecord, saved
<1>6. CASE \E s \in Held : thread' = [thread EXCEPT ![g] =
                              [Idle EXCEPT !.stage = "collision", !.root = r, !.other = s]]
  <2>1. thread'[g].stage = "collision" /\ thread'[g].root = r
    BY <1>1, <1>6 DEF Idle
  <2>2. Attentive(thread'[g], (InEvidence \cup violations)')
    BY <2>1 DEF Attentive
  <2>3. \A x \in Checking(g) : x \in Checking(g)'
    BY <1>3, <2>1 DEF Checking
  <2> QED
    BY <1>3, <1>4, <2>2, <2>3, WatchStep DEF FindAfterRecord, saved
<1> QED
  BY <1>5, <1>6 DEF FindAfterRecord, FindCollision

\* What is found is saved before the thread goes on to mark, and only then let go.
LEMMA WatchBlame ==
    ASSUME Inv, Watched, NEW g \in Gossips, Blame(g)
    PROVE  Watched'
<1>1. thread \in [Threads -> ThreadStates] /\ g \in Threads
  BY DEF Inv, TypeOK, Threads
<1>2. thread[g].stage # "failure"
  BY DEF Watched, Attentive
<1>3. HeardRoots' = HeardRoots /\ cut' = cut
      /\ evidence \subseteq evidence' /\ violations \subseteq violations'
  BY DEF Blame, SaveCollision, SaveFailure, SaveViolation, MarkBlacklisted, saved, HeardRoots
<1>4. \A x \in Gossips : x # g => thread'[x] = thread[x]
  BY <1>1 DEF Blame, SaveCollision, SaveFailure, SaveViolation, MarkBlacklisted, Goto, Raise, Threads
<1>5. ASSUME Goto(g, "mark"), Checking(g) \subseteq (InEvidence \cup violations)' PROVE Watched'
  <2>1. thread'[g].stage = "mark" /\ thread'[g].root = thread[g].root
        /\ thread'[g].other = thread[g].other
    BY <1>1, <1>5 DEF Goto, ThreadStates
  <2>2. Attentive(thread'[g], (InEvidence \cup violations)')
    BY <1>5, <2>1 DEF Attentive, Checking
  <2> QED
    BY <1>3, <1>4, <1>5, <2>2, WatchStep
<1>6. CASE SaveCollision(g)
  <2>1. Checking(g) \subseteq InEvidence'
    BY <1>6 DEF SaveCollision, Checking, InEvidence
  <2> QED
    BY <1>5, <1>6, <2>1 DEF SaveCollision
<1>7. CASE SaveViolation(g)
  <2>1. Checking(g) \subseteq violations'
    BY <1>7 DEF SaveViolation, Checking, Watched, Attentive
  <2> QED
    BY <1>5, <1>7, <2>1 DEF SaveViolation
<1>8. CASE MarkBlacklisted(g)
  <2>1. Checking(g) \subseteq InEvidence \cup violations
    BY <1>8 DEF MarkBlacklisted, Checking, Watched, Attentive
  <2>2. InEvidence' = InEvidence /\ violations' = violations
    BY <1>8 DEF MarkBlacklisted, saved, InEvidence
  <2>3. thread'[g] = Idle
    BY <1>1, <1>8 DEF MarkBlacklisted, Raise
  <2>4. Attentive(thread'[g], (InEvidence \cup violations)')
    BY <2>3 DEF Attentive, Idle
  <2> QED
    BY <1>3, <1>4, <2>1, <2>2, <2>4, WatchStep
<1> QED
  BY <1>2, <1>6, <1>7, <1>8 DEF Blame, SaveFailure

\* A stop cuts every check short.
LEMMA WatchRestart ==
    ASSUME Watched, Restart
    PROVE  Watched'
<1>1. /\ HeardRoots' = HeardRoots /\ InEvidence' = InEvidence /\ violations' = violations
      /\ cut' = cut \cup UNION {Checking(g) : g \in Gossips}
  BY DEF Restart, saved, HeardRoots, InEvidence
<1>2. PeerCollisionsAreCaught'
  <2>1. \A r, s \in HeardRoots : Collide(r, s) => {r, s} \cap (InEvidence \cup violations \cup cut') # {}
    <3> SUFFICES ASSUME NEW r \in HeardRoots, NEW s \in HeardRoots, Collide(r, s)
                 PROVE  {r, s} \cap (InEvidence \cup violations \cup cut') # {}
      OBVIOUS
    <3>1. CASE {r, s} \cap (InEvidence \cup violations \cup cut) # {}
      BY <1>1, <3>1
    <3>2. CASE \E g \in Gossips : {r, s} \cap Checking(g) # {}
      BY <1>1, <3>2
    <3> QED
      BY <3>1, <3>2 DEF Watched, PeerCollisionsAreCaught
  <2> QED
    BY <1>1, <2>1 DEF PeerCollisionsAreCaught, Collide, Size
<1>3. \A g \in Gossips : thread'[g] = Idle
  BY DEF Restart, Threads
<1>4. \A g \in Gossips : Attentive(thread'[g], (InEvidence \cup violations)')
  BY <1>3 DEF Attentive, Idle
<1> QED
  BY <1>2, <1>4 DEF Watched

\* Observers leave the announcements to the threads that took them.
LEMMA WatchObservers ==
    ASSUME Inv, Watched, NEW o \in Observers, Round(o) \/ Observe(o) \/ Blame(o)
    PROVE  Watched'
<1>1. \A x \in Gossips : x # o /\ x \in Threads
  BY ThreadAssumption DEF Threads
<1>2. ASSUME Round(o)
      PROVE  /\ UNCHANGED <<heard, cut, evidence, violations>>
             /\ \A x \in Gossips : thread'[x] = thread[x]
  BY <1>1, <1>2 DEF Round, BeginRound, FetchRoot, Keep, FetchNothing, Gathered, Raise, saved,
     Inv, TypeOK
<1>3. ASSUME Observe(o)
      PROVE  /\ UNCHANGED <<heard, cut, evidence, violations>>
             /\ \A x \in Gossips : thread'[x] = thread[x]
  BY <1>1, <1>3 DEF Observe, CheckStatus, FindBeforeRecord, FindCollision, ReadPrevious,
     ProveConsistency, RecordRoot, Activate, OperatorSilent, Enforce, NextRoot, Goto, Raise, saved,
     Inv, TypeOK
<1>4. ASSUME Blame(o)
      PROVE  /\ UNCHANGED <<heard, cut>>
             /\ evidence \subseteq evidence' /\ violations \subseteq violations'
             /\ \A x \in Gossips : thread'[x] = thread[x]
  BY <1>1, <1>4 DEF Blame, SaveCollision, SaveFailure, SaveViolation, MarkBlacklisted, Goto, Raise,
     saved, Inv, TypeOK
<1> QED
  BY <1>2, <1>3, <1>4, WatchFrame

LEMMA WatchInit == Init => Watched
<1> SUFFICES ASSUME Init PROVE Watched
  OBVIOUS
<1>1. HeardRoots = {}
  BY DEF Init, HeardRoots
<1>2. \A g \in Gossips : thread[g] = Idle
  BY DEF Init, Threads
<1> QED
  BY <1>1, <1>2 DEF Watched, PeerCollisionsAreCaught, Attentive, Idle

LEMMA WatchNext == Inv /\ Watched /\ [Next]_vars => Watched'
<1> SUFFICES ASSUME Inv, Watched, [Next]_vars PROVE Watched'
  OBVIOUS
<1>1. ASSUME NEW g \in Gossips, Gossip(g) PROVE Watched'
  BY <1>1, WatchReceive, WatchReceiveProof, WatchFind DEF Gossip
<1>2. ASSUME NEW x \in Threads, Blame(x) PROVE Watched'
  BY <1>2, WatchBlame, WatchObservers DEF Threads
<1>3. CASE UNCHANGED vars
  BY <1>3, WatchFrame DEF vars
<1> QED
  BY <1>1, <1>2, <1>3, WatchObservers, WatchRestart DEF Next

\* Announcements of two conflicting roots that cross in different threads are never both
\* put aside: while both are held one is in the evidence, still in a thread's hand, or was cut
\* short by a stop, for any threads, peers and limit per peer
\* (process_root_announcement records before it looks; _prune_peer_roots keeps evidence).
THEOREM AnnouncedCollisionsAreCaught == Spec => []PeerCollisionsAreCaught
<1>1. Watched => PeerCollisionsAreCaught
  BY DEF Watched
<1> QED
  BY <1>1, WatchInit, WatchNext, Invariance, PTL DEF Spec

=============================================================================
