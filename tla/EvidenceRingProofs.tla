------------------------- MODULE EvidenceRingProofs -------------------------
(***************************************************************************)
(* Proofs about the evidence ring, for any number of producers and cells   *)
(* and without the bounds on sessions and tickets: the writer count        *)
(* protects the storage, the ring implements EvidenceSession, and an       *)
(* export accounts for every event.                                        *)
(***************************************************************************)
EXTENDS EvidenceRing, FiniteSetTheorems, TLAPS

ThreadLabels ==
  {"gate", "take", "tenter", "tclaim", "tstore", "tstate", "texit", "enter", "check",
   "reserve", "place", "claim", "write", "accept", "exit", "look", "cut",
   "freeze", "hook", "unhook", "stop"}

ControlLabels ==
  {"arm", "publish", "finish", "closing", "header", "evicted", "shut", "scan", "visit",
   "free", "leave"}

Labels == ThreadLabels \cup ControlLabels \cup {"idle"}

\* Which fields the locals have matters here, and the values of four of them.
Fields == {"tok", "kind", "seq", "at", "post", "ok", "window", "home", "back", "outer"}

Same(f, g) ==
  g.kind = f.kind /\ g.home = f.home /\ g.back = f.back /\ g.outer = f.outer

Typed ==
  /\ pc \in [Threads -> Labels]
  /\ DOMAIN me = Threads /\ \A t \in Threads : DOMAIN me[t] = Fields
  /\ writers \in Int

Freezing == {"freeze", "hook", "unhook", "stop"}

Touching == {"reserve", "place", "claim", "write", "accept"}

Below(t) == me[t].kind = "Terminal"

\* What a thread's label and its locals say of each other.
Local(t) ==
  /\ pc[t] \in ControlLabels \/ me[t].kind = "Control" \/ me[t].back = "leave" => t = Ctl
  /\ me[t].back \in {"exit", "texit", "leave"}
  /\ me[t].back = "leave" => pc[t] \in Freezing \cup {"leave"} /\ ~Below(t)
  /\ pc[t] \in {"hook", "unhook"} => ~(Below(t) /\ me[t].home = "unhook")
  /\ ~Below(t) => me[t].home = "idle"
  /\ Below(t) =>
       /\ pc[t] \in ThreadLabels
       /\ me[t].home = "unhook" \/ (t = Ctl /\ me[t].home \in {"finish", "header"})

\* A frame interrupts at most one other.
Nested(t) ==
  Below(t) =>
    /\ DOMAIN me[t].outer = Fields
    /\ me[t].outer.kind # "Terminal" /\ me[t].outer.home = "idle"
    /\ me[t].outer.kind = "Control" \/ me[t].outer.back = "leave" => t = Ctl
    /\ me[t].outer.back \in {"exit", "texit", "leave"}
    /\ me[t].outer.back = "leave" => me[t].home = "unhook"

\* The window is closed while the control thread settles it.
Settled == Below(Ctl) => ~open

\* t is inside append or trigger; so is the frame it interrupted in a freeze.
Inside(t) ==
  pc[t] \in Touching \cup {"tclaim", "tstore", "tstate", "texit", "check", "exit"}
  \/ (pc[t] \in Freezing /\ me[t].back # "leave")

Interrupted(t) == Below(t) /\ me[t].home = "unhook" /\ me[t].outer.back # "leave"

One(b) == IF b THEN 1 ELSE 0

\* m_writers counts both.
Counted ==
  writers = Cardinality({t \in Threads : Inside(t)})
            + Cardinality({t \in Threads : Interrupted(t)})

\* The hook of a freeze has one thread at a time.
Hooks(t) == pc[t] \in {"hook", "unhook"} \/ (Below(t) /\ me[t].home = "unhook")

HookLock == \A t \in Threads : Hooks(t) => hooking /\ \A u \in Threads : Hooks(u) => u = t

\* Nobody is, or will be by finishing what it is doing, at the cells.
Quiet ==
  /\ pc[Ctl] \in {"visit", "free"} =>
       state = "Frozen" /\ \A t \in Threads : pc[t] \notin Touching
  /\ At(Ctl, "arm") =>
       /\ state = "Idle"
       /\ \A t \in Threads : pc[t] \notin Touching \cup Freezing /\ ~Below(t)

Inv ==
  /\ Typed /\ (\A t \in Threads : Local(t) /\ Nested(t))
  /\ Settled /\ Counted /\ HookLock /\ Quiet

-----------------------------------------------------------------------------
(* Counting.                                                               *)

LEMMA FiniteThreads == IsFiniteSet(Threads) /\ Ctl \in Threads
BY RingAssumption, FS_AddElement DEF Threads

\* One thread's entering or leaving a set changes its size by one.
LEMMA Recount ==
  ASSUME NEW S \in SUBSET Threads, NEW T \in SUBSET Threads, NEW t \in Threads,
         S \ {t} = T \ {t}
  PROVE  /\ Cardinality(T) = Cardinality(S) + One(t \in T) - One(t \in S)
         /\ Cardinality(S) \in Nat /\ Cardinality(T) \in Nat
<1>1. IsFiniteSet(S) /\ IsFiniteSet(T)
  BY FiniteThreads, FS_Subset
<1>2. Cardinality(S) \in Nat /\ Cardinality(T) \in Nat
  BY <1>1, FS_CardinalityType
<1>3. CASE t \in S /\ t \in T
  <2>1. S = T
    BY <1>3
  <2>. QED
    BY <2>1, <1>2, <1>3 DEF One
<1>4. CASE t \notin S /\ t \notin T
  <2>1. S = T
    BY <1>4
  <2>. QED
    BY <2>1, <1>2, <1>4 DEF One
<1>5. CASE t \in S /\ t \notin T
  <2>1. T = S \ {t}
    BY <1>5
  <2>2. Cardinality(T) = Cardinality(S) - 1
    BY <2>1, <1>1, <1>5, FS_RemoveElement
  <2>. QED
    BY <2>2, <1>2, <1>5 DEF One
<1>6. CASE t \notin S /\ t \in T
  <2>1. T = S \cup {t}
    BY <1>6
  <2>2. Cardinality(T) = Cardinality(S) + 1
    BY <2>1, <1>1, <1>6, FS_AddElement
  <2>. QED
    BY <2>2, <1>2, <1>6 DEF One
<1>. QED
  BY <1>3, <1>4, <1>5, <1>6

\* Only t moves.
Moves(t) == \A u \in Threads \ {t} : pc'[u] = pc[u] /\ me'[u] = me[u]

\* What t does to the count is what it does to its own two terms.
Accounts(t) ==
  writers' = writers + One(Inside(t)') + One(Interrupted(t)')
                     - One(Inside(t)) - One(Interrupted(t))

LEMMA CountedStep ==
  ASSUME NEW t \in Threads, Counted, Moves(t), Accounts(t)
  PROVE  Counted'
<1> DEFINE S == {u \in Threads : Inside(u)}
           T == {u \in Threads : Interrupted(u)}
<1>1. S \ {t} = S' \ {t} /\ T \ {t} = T' \ {t}
  BY DEF Moves, Inside, Interrupted, Below
<1>2. /\ Cardinality(S') = Cardinality(S) + One(t \in S') - One(t \in S)
      /\ Cardinality(S) \in Nat /\ Cardinality(S') \in Nat
  BY <1>1, Recount
<1>3. /\ Cardinality(T') = Cardinality(T) + One(t \in T') - One(t \in T)
      /\ Cardinality(T) \in Nat /\ Cardinality(T') \in Nat
  BY <1>1, Recount
<1>4. /\ (t \in S) <=> Inside(t)
      /\ (t \in S') <=> Inside(t)'
      /\ (t \in T) <=> Interrupted(t)
      /\ (t \in T') <=> Interrupted(t)'
  OBVIOUS
<1>5. writers = Cardinality(S) + Cardinality(T)
  BY DEF Counted
<1>6. writers' = Cardinality(S') + Cardinality(T')
  <2> HIDE DEF S, T
  <2>. QED
    BY <1>2, <1>3, <1>4, <1>5 DEF Accounts, One
<1>. QED
  BY <1>6 DEF Counted

\* A drained ring: nobody is inside.
LEMMA Drained ==
  ASSUME Counted, writers = 0, NEW t \in Threads
  PROVE  ~Inside(t) /\ ~Interrupted(t)
<1> DEFINE S == {u \in Threads : Inside(u)}
           T == {u \in Threads : Interrupted(u)}
<1>1. IsFiniteSet(S) /\ IsFiniteSet(T)
  BY FiniteThreads, FS_Subset
<1>2. Cardinality(S) \in Nat /\ Cardinality(T) \in Nat
  BY <1>1, FS_CardinalityType
<1>3. Cardinality(S) = 0 /\ Cardinality(T) = 0
  BY <1>2 DEF Counted
<1>4. S = {} /\ T = {}
  BY <1>1, <1>3, FS_EmptySet
<1>. QED
  BY <1>4

-----------------------------------------------------------------------------
(* One thread moves.                                                       *)

LEMMA HookKept ==
  ASSUME NEW t \in Threads, HookLock, Moves(t), hooking' = hooking, Hooks(t)' => Hooks(t)
  PROVE  HookLock'
<1>1. ASSUME NEW u \in Threads, Hooks(u)' PROVE Hooks(u)
  BY <1>1 DEF Moves, Hooks, Below
<1>. QED
  BY <1>1 DEF HookLock

LEMMA QuietKept ==
  ASSUME NEW t \in Threads, Quiet, Moves(t), t = Ctl => pc'[t] \notin {"visit", "free", "arm"},
         \/ state' = state \/ state \notin {"Idle", "Frozen"}
         \/ state' = "Frozen" /\ pc[t] \in Freezing,
         pc'[t] \in Touching => pc[t] \in Touching \/ Recording,
         pc'[t] \in Freezing => pc[t] \in Touching \cup Freezing \/ Recording \/ Below(t),
         Below(t)' => Below(t) \/ pc[t] \in Freezing \/ t = Ctl
  PROVE  Quiet'
<1>. USE FiniteThreads DEF Moves, Quiet, Recording, At, Below
<1>1. CASE t = Ctl
  BY <1>1
<1>2. CASE t # Ctl
  <2>1. pc'[Ctl] = pc[Ctl]
    BY <1>2
  <2>. QED
    BY <2>1, <1>2
<1>. QED
  BY <1>1, <1>2

LEMMA Step ==
  ASSUME NEW t \in Threads, Inv, Moves(t), Typed', Local(t)', Nested(t)', Accounts(t),
         HookLock', Quiet', open' => open \/ ~Below(Ctl)', Below(t)' => Below(t) \/ ~open'
  PROVE  Inv'
<1>1. ASSUME NEW u \in Threads PROVE Local(u)' /\ Nested(u)'
  BY DEF Inv, Moves, Local, Nested, Below
<1>2. Settled'
  BY FiniteThreads DEF Inv, Settled, Moves, Below
<1>3. Counted'
  BY CountedStep DEF Inv
<1>. QED
  BY <1>1, <1>2, <1>3 DEF Inv

\* t stays in the frame it is in and takes no part in the hook.
Plain(t) ==
  /\ Typed' /\ Moves(t) /\ Same(me[t], me'[t])
  /\ UNCHANGED <<state, hooking, open>>
  /\ pc[t] \in ThreadLabels \ {"hook", "unhook"}
  /\ pc'[t] \in ThreadLabels \ {"hook", "unhook"}
  /\ me[t].back = "leave" => pc'[t] \in Freezing
  /\ pc'[t] \in Touching => pc[t] \in Touching \/ Recording
  /\ pc'[t] \in Freezing => pc[t] \in Touching \cup Freezing
  /\ writers' = writers + One(Inside(t)') - One(Inside(t))

LEMMA PlainStep ==
  ASSUME NEW t \in Threads, Inv, Plain(t)
  PROVE  Inv'
<1>. USE DEF Plain
<1>1. Local(t)' /\ Nested(t)' /\ (Below(t)' <=> Below(t))
  BY DEF Inv, Local, Nested, Below, Same, ThreadLabels, ControlLabels, Freezing
<1>2. Accounts(t)
  <2>1. Interrupted(t)' <=> Interrupted(t)
    BY DEF Interrupted, Below, Same
  <2>. QED
    BY <2>1 DEF Accounts, One, Inv, Typed
<1>3. HookLock'
  BY HookKept DEF Inv, Hooks, Below, Same
<1>4. Quiet'
  BY <1>1, QuietKept DEF Inv, ThreadLabels
<1>. QED
  BY <1>1, <1>2, <1>3, <1>4, Step

-----------------------------------------------------------------------------
(* Steps inside one frame.                                                 *)

LEMMA FreshFrame ==
  /\ DOMAIN Fresh = Fields /\ Fresh.kind = "Event" /\ Fresh.home = "idle"
  /\ Fresh.back = "exit"
BY DEF Fresh, Fields

LEMMA SpentFrame ==
  ASSUME NEW t \in Threads, Typed
  PROVE  Same(me[t], Spent(t)) /\ DOMAIN Spent(t) = Fields
BY DEF Typed, Same, Spent, Fields

LEMMA AppendStep ==
  ASSUME Inv, NEW t \in Threads,
         \/ Enter(t) \/ Check(t) \/ Reserve(t) \/ Place(t) \/ Claim(t) \/ Write(t)
         \/ (\E end \in BOOLEAN : Accept(t, end)) \/ Exit(t)
  PROVE  Inv'
<1>1. pc[t] # "leave" /\ pc[t] \notin Freezing => me[t].back # "leave"
  BY DEF Inv, Local
<1>. SUFFICES Plain(t)
  BY PlainStep
<1>2. Typed /\ Same(me[t], Spent(t)) /\ DOMAIN Spent(t) = Fields
  BY SpentFrame DEF Inv
<1>. USE <1>1, <1>2 DEF Go, Goes, At, Plain, Typed, Moves, Same, Labels, ThreadLabels,
                        Inside, One, Touching, Freezing, life, gate, trigger, object
<1>3. CASE Enter(t)
  BY <1>3 DEF Enter
<1>4. CASE Check(t)
  BY <1>4 DEF Check
<1>5. CASE Reserve(t)
  BY <1>5 DEF Reserve, Fields
<1>6. CASE Place(t)
  BY <1>6 DEF Place, Fields
<1>7. CASE Claim(t)
  BY <1>7 DEF Claim
<1>8. CASE Write(t)
  BY <1>8 DEF Write
<1>9. ASSUME NEW end \in BOOLEAN, Accept(t, end) PROVE Plain(t)
  BY <1>9 DEF Accept, Fields
<1>10. CASE Exit(t)
  BY <1>10 DEF Exit
<1>. QED
  BY <1>3, <1>4, <1>5, <1>6, <1>7, <1>8, <1>9, <1>10

LEMMA TriggerStep ==
  ASSUME Inv, NEW t \in Threads,
         \/ TriggerEnter(t) \/ TriggerClaim(t) \/ TriggerStore(t)
  PROVE  Inv'
<1>1. pc[t] # "leave" /\ pc[t] \notin Freezing => me[t].back # "leave"
  BY DEF Inv, Local
<1>. SUFFICES Plain(t)
  BY PlainStep
<1>. USE <1>1 DEF Go, Goes, At, Plain, Inv, Typed, Moves, Same, Labels, ThreadLabels,
                  Inside, One, Touching, Freezing, life, object
<1>2. CASE TriggerEnter(t)
  BY <1>2 DEF TriggerEnter
<1>3. CASE TriggerClaim(t)
  BY <1>3 DEF TriggerClaim, Fields
<1>4. CASE TriggerStore(t)
  BY <1>4 DEF TriggerStore, Fields
<1>. QED
  BY <1>2, <1>3, <1>4

\* Only back changes, and never to or from "leave".
LEMMA TriggerStateStep ==
  ASSUME Inv, NEW t \in Threads, TriggerState(t)
  PROVE  Inv'
<1>1. At(t, "tstate") /\ me[t].back # "leave" /\ (Below(t) => pc[t] \in ThreadLabels)
  BY DEF TriggerState, Inv, Local, At, Freezing
<1>2. CASE state # "Armed"
  <2>1. Plain(t)
    BY <1>1, <1>2 DEF TriggerState, Plain, Inv, Typed, Moves, Same, Go, At, Labels,
       ThreadLabels, Inside, One, Touching, Freezing, object
  <2>. QED
    BY <2>1, PlainStep
<1>3. CASE state = "Armed"
  <2>1. /\ Typed' /\ Moves(t) /\ pc'[t] \in {"freeze", "texit"} /\ me'[t].back = "texit"
        /\ me'[t].kind = me[t].kind /\ me'[t].home = me[t].home
        /\ me'[t].outer = me[t].outer
        /\ writers' = writers /\ hooking' = hooking /\ open' = open
    BY <1>3 DEF TriggerState, Inv, Typed, Moves, Go, At, Labels, ThreadLabels, Fields, object
  <2>2. Local(t)' /\ Nested(t)' /\ (Below(t)' <=> Below(t))
    BY <1>1, <2>1 DEF Inv, Local, Nested, Below, At, ThreadLabels, ControlLabels, Freezing
  <2>3. Accounts(t)
    BY <1>1, <2>1 DEF Accounts, Inside, Interrupted, Below, One, At, Touching, Freezing,
       Inv, Typed
  <2>4. HookLock'
    BY <2>1, HookKept DEF Inv, Hooks, Below
  <2>5. Quiet'
    BY <1>1, <1>3, <2>1, <2>2, QuietKept DEF Inv, Touching, Recording
  <2>. QED
    BY <2>1, <2>2, <2>3, <2>4, <2>5, Step
<1>. QED
  BY <1>2, <1>3

LEMMA TriggerExitStep ==
  ASSUME Inv, NEW t \in Threads, TriggerExit(t)
  PROVE  Inv'
<1>1. /\ At(t, "texit") /\ me[t].back # "leave" /\ (Below(t) => me[t].kind # "Control")
      /\ me[t].kind = "Control" => t = Ctl
  BY DEF TriggerExit, Goes, Inv, Local, At, Freezing, Below
<1>2. /\ Typed' /\ Moves(t) /\ me'[t].back = "exit"
      /\ me'[t].kind = me[t].kind /\ me'[t].home = me[t].home /\ me'[t].outer = me[t].outer
      /\ pc'[t] \in {"enter", "leave", "idle"} /\ (pc'[t] = "enter" \/ me[t].kind = "Control")
      /\ writers' = writers - 1 /\ hooking' = hooking /\ open' = open /\ state' = state
  BY DEF TriggerExit, Inv, Typed, Moves, Go, Goes, At, Labels, ThreadLabels, ControlLabels,
         Fields, object, life
<1>3. Local(t)' /\ Nested(t)' /\ (Below(t)' <=> Below(t))
  BY <1>1, <1>2 DEF Inv, Local, Nested, Below, At, ThreadLabels, ControlLabels, Freezing
<1>4. Accounts(t)
  BY <1>1, <1>2 DEF Accounts, Inside, Interrupted, Below, One, At, Touching, Freezing,
     Inv, Typed
<1>5. HookLock'
  BY <1>2, HookKept DEF Inv, Hooks, Below
<1>6. Quiet'
  BY <1>1, <1>2, <1>3, QuietKept DEF Inv, Touching, Freezing
<1>. QED
  BY <1>2, <1>3, <1>4, <1>5, <1>6, Step

-----------------------------------------------------------------------------
(* Leaving a frame.                                                        *)

LEMMA ReturnStep ==
  ASSUME Inv, NEW t \in Threads, Returns(t), UNCHANGED <<state, hooking, open>>,
         pc[t] \in {"gate", "look", "cut"}, writers' = writers
  PROVE  Inv'
<1>1. /\ pc \in [Threads -> Labels] /\ DOMAIN me = Threads /\ DOMAIN me[t] = Fields
      /\ writers \in Int /\ me[t].back # "leave" /\ Local(t) /\ Nested(t)
  BY DEF Inv, Typed, Local, Freezing
<1>2. CASE me[t].kind # "Terminal"
  <2>1. /\ Typed' /\ Moves(t) /\ me'[t] = Fresh /\ pc'[t] = "idle"
    <3>1. me[t].home = "idle"
      BY <1>1, <1>2 DEF Local, Below
    <3>2. me' = [me EXCEPT ![t] = Fresh] /\ pc' = [pc EXCEPT ![t] = "idle"]
      BY <1>2, <3>1 DEF Returns, Go
    <3>. QED
      BY <1>1, <3>2, FreshFrame DEF Inv, Typed, Moves, Labels
  <2>2. Fresh.kind = "Event" /\ Fresh.back = "exit" /\ Fresh.home = "idle"
    BY FreshFrame
  <2>3. Local(t)' /\ Nested(t)' /\ ~Below(t)'
    BY <2>1, <2>2 DEF Local, Nested, Below, ControlLabels
  <2>4. Accounts(t)
    BY <1>1, <1>2, <2>1, <2>3 DEF Accounts, Inside, Interrupted, Below, One, Touching, Freezing
  <2>5. HookLock'
    BY <2>1, <2>3, HookKept DEF Inv, Hooks
  <2>6. Quiet'
    BY <2>1, <2>3, QuietKept DEF Inv, Touching, Freezing
  <2>. QED
    BY <2>1, <2>3, <2>4, <2>5, <2>6, Step
<1>3. CASE Below(t)
  <2>1. /\ Typed' /\ Moves(t) /\ me'[t] = me[t].outer /\ pc'[t] = me[t].home
    BY <1>1, <1>3 DEF Returns, Go, Local, Nested, Below, Inv, Typed, Moves, Labels,
       ThreadLabels, ControlLabels
  <2>2. /\ me[t].home = "unhook" \/ (t = Ctl /\ me[t].home \in {"finish", "header"})
        /\ ~Below(t)' /\ Nested(t)'
    BY <1>1, <1>3, <2>1 DEF Local, Nested, Below
  <2>3. Local(t)'
    BY <1>1, <1>3, <2>1, <2>2 DEF Local, Nested, Below, ControlLabels, ThreadLabels, Freezing
  <2>4. Accounts(t)
    BY <1>1, <1>3, <2>1, <2>2 DEF Accounts, Inside, Interrupted, Nested, Below, One,
       Touching, Freezing
  <2>5. HookLock'
    BY <1>3, <2>1, <2>2, HookKept DEF Inv, Hooks
  <2>6. Quiet'
    BY <1>3, <2>1, <2>2, QuietKept DEF Inv, Touching, Freezing
  <2>. QED
    BY <2>1, <2>2, <2>3, <2>4, <2>5, <2>6, Step
<1>. QED
  BY <1>2, <1>3 DEF Below

LEMMA GateStep ==
  ASSUME Inv, NEW t \in Threads, Gate(t)
  PROVE  Inv'
<1>1. pc[t] = "gate" /\ me[t].back # "leave"
  BY DEF Gate, At, Inv, Local, Freezing
<1>2. CASE Returns(t)
  BY <1>1, <1>2, ReturnStep DEF Gate, life
<1>3. CASE ~Returns(t)
  <2>1. Plain(t)
    BY <1>1, <1>3 DEF Gate, Plain, Inv, Typed, Moves, Same, Go, At, Labels, ThreadLabels,
       Inside, One, Touching, Freezing, life
  <2>. QED
    BY <2>1, PlainStep
<1>. QED
  BY <1>2, <1>3

LEMMA CutStep ==
  ASSUME Inv, NEW t \in Threads, Cut(t)
  PROVE  Inv'
BY ReturnStep DEF Cut, At, life

LEMMA LookStep ==
  ASSUME Inv, NEW t \in Threads, Look(t)
  PROVE  Inv'
<1>1. pc[t] = "look" /\ me[t].back # "leave"
  BY DEF Look, At, Inv, Local, Freezing
<1>2. CASE Returns(t)
  BY <1>1, <1>2, ReturnStep DEF Look, life
<1>3. CASE ~Returns(t)
  <2>1. Plain(t)
    BY <1>1, <1>3 DEF Look, Plain, Inv, Typed, Moves, Same, Go, At, Labels, ThreadLabels,
       Inside, One, Touching, Freezing, life
  <2>. QED
    BY <2>1, PlainStep
<1>. QED
  BY <1>2, <1>3

LEMMA TakeStep ==
  ASSUME Inv, NEW t \in Threads, Take(t)
  PROVE  Inv'
<1>1. pc[t] = "take" /\ me[t].back # "leave"
  BY DEF Take, At, Inv, Local, Freezing
<1>2. Plain(t)
  BY <1>1 DEF Take, Plain, Inv, Typed, Moves, Same, Go, At, Labels, ThreadLabels,
     Inside, One, Touching, Freezing, life, object
<1>. QED
  BY <1>2, PlainStep

-----------------------------------------------------------------------------
(* freeze and its hook.                                                    *)

LEMMA FreezeStep ==
  ASSUME Inv, NEW t \in Threads, Freeze(t)
  PROVE  Inv'
<1>1. pc[t] = "freeze"
  BY DEF Freeze, At
<1>2. CASE state = "Frozen" \/ hooking
  <2>1. Plain(t)
    BY <1>1, <1>2 DEF Freeze, Plain, Inv, Typed, Moves, Same, Go, At, Labels, ThreadLabels,
       Inside, One, Touching, Freezing, life
  <2>. QED
    BY <2>1, PlainStep
<1>3. CASE ~(state = "Frozen" \/ hooking)
  <2>1. /\ Typed' /\ Moves(t) /\ me' = me /\ pc'[t] = "hook" /\ hooking'
        /\ state' = state /\ open' = open /\ writers' = writers /\ writers \in Int
    BY <1>3 DEF Freeze, Inv, Typed, Moves, Go, Labels, ThreadLabels, life
  <2>2. \A u \in Threads : ~Hooks(u)
    BY <1>3 DEF Inv, HookLock
  <2>3. Local(t)' /\ Nested(t)' /\ (Below(t)' <=> Below(t))
    BY <1>1, <2>1, <2>2 DEF Inv, Local, Nested, Below, Hooks, ThreadLabels, ControlLabels,
       Freezing
  <2>4. Accounts(t)
    BY <1>1, <2>1 DEF Accounts, Inside, Interrupted, Below, One, Touching, Freezing
  <2>5. HookLock'
    <3>1. ASSUME NEW u \in Threads, Hooks(u)' PROVE u = t
      BY <2>1, <2>2, <3>1 DEF Moves, Hooks, Below
    <3>. QED
      BY <2>1, <3>1 DEF HookLock
  <2>6. Quiet'
    BY <1>1, <2>1, <2>3, QuietKept DEF Inv, Touching, Freezing
  <2>. QED
    BY <2>1, <2>3, <2>4, <2>5, <2>6, Step
<1>. QED
  BY <1>2, <1>3

LEMMA HookStep ==
  ASSUME Inv, NEW t \in Threads, Hook(t)
  PROVE  Inv'
<1>1. /\ pc[t] = "hook" /\ Local(t) /\ Nested(t) /\ DOMAIN me = Threads
      /\ DOMAIN me[t] = Fields /\ Hooks(t) /\ writers \in Int
  BY DEF Hook, At, Inv, Typed, Hooks
<1>2. ~open' /\ writers' = writers /\ hooking' = hooking /\ state' = state
  BY DEF Hook, CloseWindow, life
<1>3. CASE open /\ active # 0
  <2>1. ~Below(t)
    BY <1>1, <1>3 DEF Inv, Settled, Local
  <2>2. PICK f : /\ f = [Fresh EXCEPT !.tok = active, !.kind = "Terminal",
                                       !.home = "unhook", !.outer = me[t]]
                 /\ me' = [me EXCEPT ![t] = f] /\ pc' = [pc EXCEPT ![t] = "gate"]
    BY <1>3 DEF Hook, CloseWindow, Go
  <2>3. /\ DOMAIN f = Fields /\ f.kind = "Terminal" /\ f.home = "unhook"
        /\ f.back = "exit" /\ f.outer = me[t]
    BY <2>2 DEF Fresh, Fields
  <2>4. Typed' /\ Moves(t) /\ pc'[t] = "gate" /\ me'[t] = f
    <3>1. DOMAIN f = Fields /\ me' = [me EXCEPT ![t] = f] /\ pc' = [pc EXCEPT ![t] = "gate"]
      BY <2>2, <2>3
    <3>. QED
      BY <1>2, <3>1 DEF Inv, Typed, Moves, Labels, ThreadLabels
  <2>5. Local(t)' /\ Nested(t)'
    BY <1>1, <2>1, <2>3, <2>4 DEF Local, Nested, Below, ThreadLabels, ControlLabels, Freezing
  <2>6. Accounts(t)
    BY <1>1, <1>2, <2>1, <2>3, <2>4
       DEF Accounts, Inside, Interrupted, Below, One, Touching, Freezing
  <2>7. HookLock'
    BY <1>1, <1>2, <2>4, HookKept DEF Inv
  <2>8. Quiet'
    BY <1>1, <1>2, <2>4, QuietKept DEF Inv, Touching, Freezing
  <2>. QED
    BY <1>2, <2>4, <2>5, <2>6, <2>7, <2>8, Step
<1>4. CASE ~(open /\ active # 0)
  <2>1. Typed' /\ Moves(t) /\ pc'[t] = "unhook" /\ me' = me
    BY <1>2, <1>4 DEF Hook, CloseWindow, Go, Inv, Typed, Moves, Labels, ThreadLabels
  <2>2. Local(t)' /\ Nested(t)'
    BY <1>1, <2>1 DEF Local, Nested, Below, ThreadLabels, ControlLabels, Freezing
  <2>3. Accounts(t)
    BY <1>1, <1>2, <2>1 DEF Accounts, Inside, Interrupted, Below, One, Touching, Freezing
  <2>4. HookLock'
    BY <1>1, <1>2, <2>1, HookKept DEF Inv
  <2>5. Quiet'
    BY <1>1, <1>2, <2>1, QuietKept DEF Inv, Touching, Freezing, Below
  <2>. QED
    BY <1>2, <2>1, <2>2, <2>3, <2>4, <2>5, Step
<1>. QED
  BY <1>3, <1>4

LEMMA UnhookStep ==
  ASSUME Inv, NEW t \in Threads, Unhook(t)
  PROVE  Inv'
<1>1. /\ pc[t] = "unhook" /\ Local(t) /\ Nested(t) /\ Hooks(t) /\ writers \in Int
  BY DEF Unhook, Goes, At, Inv, Typed, Hooks
<1>2. /\ Typed' /\ Moves(t) /\ me' = me /\ pc'[t] = "stop"
      /\ state' = state /\ open' = open /\ writers' = writers
  BY DEF Unhook, Inv, Typed, Moves, Go, Goes, Labels, ThreadLabels, life
<1>3. Local(t)' /\ Nested(t)' /\ (Below(t)' <=> Below(t))
  BY <1>1, <1>2 DEF Local, Nested, Below, ThreadLabels, ControlLabels, Freezing
<1>4. Accounts(t)
  BY <1>1, <1>2 DEF Accounts, Inside, Interrupted, Below, One, Touching, Freezing
<1>5. HookLock'
  <2>1. ASSUME NEW u \in Threads PROVE ~Hooks(u)'
    BY <1>1, <1>2 DEF Inv, HookLock, Moves, Hooks, Below, Local
  <2>. QED
    BY <2>1 DEF HookLock
<1>6. Quiet'
  BY <1>1, <1>2, <1>3, QuietKept DEF Inv, Touching, Freezing
<1>. QED
  BY <1>2, <1>3, <1>4, <1>5, <1>6, Step

LEMMA StopStep ==
  ASSUME Inv, NEW t \in Threads, Stop(t)
  PROVE  Inv'
<1>1. /\ pc[t] = "stop" /\ Local(t) /\ Nested(t) /\ writers \in Int
      /\ me[t].back \in {"exit", "texit", "leave"}
  BY DEF Stop, At, Inv, Typed, Local
<1>2. /\ Typed' /\ Moves(t) /\ me' = me /\ pc'[t] = me[t].back
      /\ state' = "Frozen" /\ open' = open /\ writers' = writers /\ hooking' = hooking
  BY <1>1 DEF Stop, Inv, Typed, Moves, Go, Labels, ThreadLabels, ControlLabels, object
<1>3. Local(t)' /\ Nested(t)' /\ (Below(t)' <=> Below(t))
  BY <1>1, <1>2 DEF Local, Nested, Below, ThreadLabels, ControlLabels, Freezing
<1>4. Accounts(t)
  BY <1>1, <1>2 DEF Accounts, Inside, Interrupted, Below, One, Touching, Freezing
<1>5. HookLock'
  BY <1>1, <1>2, HookKept DEF Inv, Hooks, Below
<1>6. Quiet'
  BY <1>1, <1>2, <1>3, QuietKept DEF Inv, Touching, Freezing
<1>. QED
  BY <1>2, <1>3, <1>4, <1>5, <1>6, Step

LEMMA AnyThreadStep ==
  ASSUME Inv, NEW t \in Threads, ThreadStep(t)
  PROVE  Inv'
BY AppendStep, TriggerStep, TriggerStateStep, TriggerExitStep, GateStep, TakeStep, LookStep,
   CutStep, FreezeStep, HookStep, UnhookStep, StopStep DEF ThreadStep

-----------------------------------------------------------------------------
(* Steps between frames: what begins and what Control does.                *)

\* t is in no frame that another one interrupted, and not inside.
Outer(t) ==
  /\ Typed' /\ Moves(t) /\ ~Below(t) /\ ~Below(t)' /\ ~Inside(t) /\ ~Inside(t)' /\ Local(t)'
  /\ pc'[t] \notin {"hook", "unhook"} /\ writers' = writers /\ hooking' = hooking

LEMMA OuterStep ==
  ASSUME NEW t \in Threads, Inv, Outer(t), Quiet', t = Ctl \/ open' = open
  PROVE  Inv'
<1>1. Nested(t)'
  BY DEF Outer, Nested
<1>2. Accounts(t)
  BY DEF Outer, Accounts, Interrupted, One, Inv, Typed
<1>3. HookLock'
  BY HookKept DEF Outer, Inv, Hooks
<1>. QED
  BY <1>1, <1>2, <1>3, Step DEF Outer

LEMMA CaptureStep ==
  ASSUME Inv, NEW p \in Producers, Capture(p)
  PROVE  Inv'
<1>1. p \in Threads /\ p # Ctl
  BY RingAssumption DEF Threads
<1>2. /\ pc[p] = "idle" /\ ~Below(p) /\ writers' = writers /\ hooking' = hooking
      /\ open' = open /\ state' = state
  BY <1>1 DEF Capture, Goes, At, Inv, Local, ThreadLabels, object, life
<1>3. PICK f : /\ DOMAIN f = Fields /\ f.kind = "Event" /\ f.home = "idle" /\ f.back = "exit"
               /\ me' = [me EXCEPT ![p] = f] /\ pc' = [pc EXCEPT ![p] = "gate"]
  BY DEF Capture, Goes, Go, Fresh, Fields
<1>4. Typed' /\ Moves(p) /\ me'[p] = f /\ pc'[p] = "gate"
  BY <1>1, <1>2, <1>3 DEF Inv, Typed, Moves, Labels, ThreadLabels
<1>5. Outer(p)
  BY <1>1, <1>2, <1>3, <1>4 DEF Outer, Below, Inside, Local, Touching, Freezing, ControlLabels
<1>6. Quiet'
  BY <1>1, <1>2, <1>4, <1>5, QuietKept DEF Inv, Outer, Touching, Freezing
<1>. QED
  BY <1>1, <1>2, <1>5, <1>6, OuterStep

\* Steps that touch the gate and the trigger request only.
LEMMA RequestStep ==
  ASSUME Inv, RequestLoad \/ RequestStore \/ ControlStatus
  PROVE  Inv'
<1>1. UNCHANGED <<state, session, writers, hooking, open, pc, me>>
  BY DEF RequestLoad, RequestStore, ControlStatus, life, object
<1>. QED
  BY <1>1 DEF Inv, Typed, Local, Nested, Below, Settled, Counted, Inside, Interrupted,
     HookLock, Hooks, Quiet, At

\* The commands, and what they do up to the next operation another thread can see.
LEMMA ControlBetween ==
  ASSUME Inv, pc[Ctl] \in ControlLabels \cup {"idle"}
  PROVE  /\ Ctl \in Threads /\ ~Below(Ctl) /\ ~Inside(Ctl)
         /\ me[Ctl].back = "leave" => pc[Ctl] = "leave"
         /\ me[Ctl].back \in {"exit", "texit", "leave"} /\ me[Ctl].home = "idle"
BY FiniteThreads DEF Inv, Local, Below, Inside, Touching, Freezing, ControlLabels, ThreadLabels

LEMMA ArmStep ==
  ASSUME Inv, ArmStorage \/ ArmOpen \/ ArmPublish
  PROVE  Inv'
<1>1. pc[Ctl] \in ControlLabels \cup {"idle"}
  BY DEF ArmStorage, ArmOpen, ArmPublish, Goes, At, ControlLabels
<1>2. /\ Ctl \in Threads /\ ~Below(Ctl) /\ ~Inside(Ctl)
      /\ me[Ctl].back = "leave" => pc[Ctl] = "leave"
      /\ me[Ctl].back \in {"exit", "texit", "leave"} /\ me[Ctl].home = "idle"
  BY <1>1, ControlBetween
<1>3. /\ Typed' /\ Moves(Ctl) /\ me' = me /\ pc'[Ctl] \in {"arm", "publish", "idle"}
      /\ writers' = writers /\ hooking' = hooking /\ pc[Ctl] # "leave"
  BY <1>2 DEF ArmStorage, ArmOpen, ArmPublish, Goes, At, Go, Inv, Typed, Moves, Labels,
     ControlLabels, object
<1>4. Outer(Ctl)
  BY <1>2, <1>3 DEF Outer, Below, Inside, Local, Touching, Freezing, ControlLabels
<1>5. CASE pc'[Ctl] # "arm"
  BY <1>2, <1>4, <1>5, OuterStep, <1>3 DEF Quiet, At
<1>6. CASE ArmStorage
  <2>1. state = "Idle" /\ writers = 0 /\ state' = state /\ pc'[Ctl] = "arm"
    BY <1>6, <1>2 DEF ArmStorage, Goes, Go, Inv, Typed
  <2>2. ASSUME NEW t \in Threads
        PROVE  pc'[t] \notin Touching \cup Freezing /\ ~Below(t)'
    <3>1. ~Inside(t) /\ ~Interrupted(t) /\ Local(t) /\ Nested(t)
      BY <2>1, Drained DEF Inv
    <3>2. CASE t = Ctl
      BY <1>2, <1>3, <2>1, <3>2 DEF Touching, Freezing, Below
    <3>3. CASE t # Ctl
      BY <1>3, <3>1, <3>3 DEF Moves, Local, Nested, Below, Inside, Interrupted, Touching,
         Freezing
    <3>. QED
      BY <3>2, <3>3
  <2>3. Quiet'
    BY <2>1, <2>2 DEF Quiet, At
  <2>. QED
    BY <1>2, <1>4, <2>3, OuterStep
<1>. QED
  BY <1>2, <1>3, <1>5, <1>6 DEF ArmOpen, ArmPublish, Goes, Go, Inv, Typed

\* Ctl goes on at l with the locals f, which are either what they were or new.
LEMMA ControlMove ==
  ASSUME Inv, pc[Ctl] \in ControlLabels \cup {"idle"}, NEW f, NEW l \in Labels,
         me' = [me EXCEPT ![Ctl] = f] \/ (me' = me /\ f = me[Ctl]),
         pc' = [pc EXCEPT ![Ctl] = l],
         DOMAIN f = Fields, f.kind # "Terminal", f.home = "idle",
         f.back \in {"exit", "texit", "leave"}, f.back = "leave" => l \in {"freeze", "leave"},
         l \in ControlLabels \cup {"idle", "freeze"}, l = "freeze" => f.back = "leave",
         writers' = writers, hooking' = hooking
  PROVE  Outer(Ctl) /\ Ctl \in Threads /\ pc'[Ctl] = l
<1>1. Ctl \in Threads /\ ~Below(Ctl) /\ ~Inside(Ctl)
  BY ControlBetween
<1>2. Typed' /\ Moves(Ctl) /\ me'[Ctl] = f /\ pc'[Ctl] = l
  BY <1>1 DEF Inv, Typed, Moves
<1>. QED
  BY <1>1, <1>2 DEF Outer, Below, Inside, Local, Touching, Freezing, ControlLabels

\* The storage is quiet when Ctl goes to it over a drained ring.
LEMMA DrainedQuiet ==
  ASSUME Inv, Outer(Ctl), Ctl \in Threads, pc'[Ctl] \in {"visit", "free"},
         state' = state, state = "Frozen", writers = 0
  PROVE  Quiet'
<1>1. ASSUME NEW t \in Threads PROVE pc'[t] \notin Touching
  <2>1. ~Inside(t)
    BY Drained DEF Inv
  <2>. QED
    BY <2>1 DEF Outer, Moves, Inside, Touching
<1>. QED
  BY <1>1 DEF Quiet, At

\* A trigger from Control counts itself in.
LEMMA ControlTriggerStep ==
  ASSUME Inv, NEW w \in Windows, ControlTrigger(w)
  PROVE  Inv'
<1>1. pc[Ctl] = "idle"
  BY DEF ControlTrigger, Goes, At
<1>2. /\ Ctl \in Threads /\ ~Below(Ctl) /\ ~Inside(Ctl)
  BY <1>1, ControlBetween
<1>3. PICK f : f = [Fresh EXCEPT !.tok = session, !.kind = "Control", !.window = w]
  OBVIOUS
<1>4. DOMAIN f = Fields /\ f.kind = "Control" /\ f.home = "idle" /\ f.back = "exit"
  BY <1>3 DEF Fresh, Fields
<1>5. /\ me' = [me EXCEPT ![Ctl] = f] /\ pc' = [pc EXCEPT ![Ctl] = "tclaim"]
      /\ writers' = writers + 1 /\ hooking' = hooking /\ open' = open /\ state' = state
  BY <1>3 DEF ControlTrigger, Goes, Go, object, life
<1>6. /\ Typed' /\ Moves(Ctl) /\ me'[Ctl] = f /\ pc'[Ctl] = "tclaim" /\ writers \in Int
  BY <1>2, <1>4, <1>5 DEF Inv, Typed, Moves, Labels, ThreadLabels
<1>7. Local(Ctl)' /\ Nested(Ctl)' /\ ~Below(Ctl)'
  BY <1>4, <1>6 DEF Local, Nested, Below, ThreadLabels, ControlLabels, Freezing
<1>8. Accounts(Ctl)
  BY <1>2, <1>5, <1>6, <1>7 DEF Accounts, Inside, Interrupted, One
<1>9. HookLock'
  BY <1>2, <1>5, <1>6, <1>7, HookKept DEF Inv, Hooks
<1>10. Quiet'
  BY <1>2, <1>5, <1>6, <1>7, QuietKept DEF Inv, Touching, Freezing
<1>. QED
  BY <1>2, <1>5, <1>6, <1>7, <1>8, <1>9, <1>10, Step

LEMMA CommandStep ==
  ASSUME Inv,
         \/ Finish \/ ControlExport \/ Header \/ HeaderEvicted \/ HeaderDone \/ Scan \/ Visit
         \/ ControlDiscard \/ Free \/ Leave
  PROVE  Inv'
<1>1. pc[Ctl] \in ControlLabels \cup {"idle"}
  BY DEF Finish, ControlExport, Header, HeaderEvicted, HeaderDone, Scan, Visit,
     ControlDiscard, Free, Leave, Goes, At, ControlLabels
<1>2. /\ Ctl \in Threads /\ ~Below(Ctl) /\ ~Inside(Ctl)
      /\ me[Ctl].back = "leave" => pc[Ctl] = "leave"
      /\ me[Ctl].back \in {"exit", "texit", "leave"} /\ me[Ctl].home = "idle"
  BY <1>1, ControlBetween
<1>3. DOMAIN pc = Threads /\ DOMAIN me = Threads /\ DOMAIN me[Ctl] = Fields
  BY <1>2 DEF Inv, Typed
<1>4. writers' = writers /\ hooking' = hooking
  BY DEF Finish, ControlExport, Header, HeaderEvicted, HeaderDone, Scan, Visit,
     ControlDiscard, Free, Leave, object
<1>. DEFINE Moved(f, l) ==
       /\ me' = [me EXCEPT ![Ctl] = f] \/ (me' = me /\ f = me[Ctl])
       /\ pc' = [pc EXCEPT ![Ctl] = l]
       /\ DOMAIN f = Fields /\ f.kind # "Terminal" /\ f.home = "idle"
       /\ f.back \in {"exit", "texit", "leave"} /\ (f.back = "leave" => l \in {"freeze", "leave"})
       /\ l \in ControlLabels \cup {"idle", "freeze"}
       /\ (l = "freeze" => f.back = "leave")
<1>5. ASSUME NEW f, NEW l, Moved(f, l) PROVE Outer(Ctl) /\ pc'[Ctl] = l
  BY <1>1, <1>4, <1>5, ControlMove DEF Labels, ThreadLabels
<1>6. ASSUME NEW f, NEW l, Moved(f, l), l \notin {"visit", "free", "arm"} PROVE Inv'
  <2>1. Outer(Ctl) /\ pc'[Ctl] = l
    BY <1>5, <1>6
  <2>2. Quiet'
    BY <1>6, <2>1 DEF Quiet, At
  <2>. QED
    BY <1>2, <2>1, <2>2, OuterStep
<1>. USE DEF Goes, At, Go, ControlLabels
<1>9. CASE Finish
  <2>1. PICK f, l : /\ f = IF Recording THEN [Fresh EXCEPT !.back = "leave"] ELSE Fresh
                    /\ l = IF Recording THEN "freeze" ELSE "idle"
    OBVIOUS
  <2>2. Moved(f, l) /\ l \notin {"visit", "free", "arm"}
    BY <1>9, <2>1 DEF Finish, Fresh, Fields
  <2>. QED
    BY <1>6, <2>2
<1>10. CASE ControlExport
  <2>1. PICK f : f = [Fresh EXCEPT !.kind = IF FrozenReady THEN "Drained" ELSE "Export",
                                   !.ok = ~Recording]
    OBVIOUS
  <2>2. DOMAIN f = Fields /\ f.kind # "Terminal" /\ f.home = "idle" /\ f.back = "exit"
    BY <2>1 DEF Fresh, Fields
  <2>3. Moved(f, "closing")
    BY <1>10, <2>1, <2>2 DEF ControlExport
  <2>. QED
    BY <1>6, <2>3
<1>11. CASE Header \/ HeaderEvicted \/ HeaderDone
  <2>1. Moved(Fresh, "idle") \/ Moved(me[Ctl], "evicted") \/ Moved(me[Ctl], "shut")
        \/ Moved(Fresh, "scan")
    BY <1>2, <1>3, <1>11, FreshFrame DEF Header, HeaderEvicted, HeaderDone, Below
  <2>. QED
    BY <1>6, <2>1
<1>12. CASE Scan
  <2>1. CASE FrozenReady
    <3>1. Moved(me[Ctl], "visit") /\ state' = state /\ state = "Frozen" /\ writers = 0
      BY <1>2, <1>3, <1>12, <2>1 DEF Scan, Below, FrozenReady, life
    <3>2. Outer(Ctl) /\ pc'[Ctl] = "visit"
      BY <1>5, <3>1
    <3>. QED
      BY <1>2, <3>1, <3>2, DrainedQuiet, OuterStep
  <2>2. CASE ~FrozenReady
    <3>1. Moved(me[Ctl], "idle")
      BY <1>2, <1>3, <1>12, <2>2 DEF Scan, Below
    <3>. QED
      BY <1>6, <3>1
  <2>. QED
    BY <2>1, <2>2
<1>13. CASE Visit
  <2>1. Moved(me[Ctl], "idle")
    BY <1>2, <1>3, <1>13 DEF Visit, Below
  <2>. QED
    BY <1>6, <2>1
<1>14. CASE ControlDiscard
  <2>1. Moved(me[Ctl], "free") /\ state' = state /\ state = "Frozen" /\ writers = 0
    BY <1>2, <1>3, <1>14 DEF ControlDiscard, Below, FrozenReady, life
  <2>2. Outer(Ctl) /\ pc'[Ctl] = "free"
    BY <1>5, <2>1
  <2>. QED
    BY <1>2, <2>1, <2>2, DrainedQuiet, OuterStep
<1>15. CASE Free
  <2>1. Moved(me[Ctl], "leave")
    BY <1>2, <1>3, <1>15 DEF Free, Below
  <2>. QED
    BY <1>6, <2>1
<1>16. CASE Leave
  <2>1. Moved(Fresh, "idle")
    BY <1>16, FreshFrame DEF Leave
  <2>. QED
    BY <1>6, <2>1
<1>. QED
  BY <1>9, <1>10, <1>11, <1>12, <1>13, <1>14, <1>15, <1>16

LEMMA CloseStep ==
  ASSUME Inv, ControlFreeze \/ CloseForExport
  PROVE  Inv'
<1>1. PICK next \in {"finish", "header"} :
        pc[Ctl] \in {"idle", "closing"} /\ CloseWindow(Ctl, next)
  BY DEF ControlFreeze, CloseForExport, At
<1>2. /\ Ctl \in Threads /\ ~Below(Ctl) /\ ~Inside(Ctl)
      /\ me[Ctl].back # "leave" /\ me[Ctl].back \in {"exit", "texit", "leave"}
      /\ me[Ctl].home = "idle"
  BY <1>1, ControlBetween DEF ControlLabels
<1>3. /\ DOMAIN me = Threads /\ DOMAIN me[Ctl] = Fields /\ writers \in Int
      /\ ~open' /\ writers' = writers /\ hooking' = hooking
  BY <1>1, <1>2 DEF CloseWindow, Inv, Typed
<1>4. CASE open /\ active # 0
  <2>1. PICK f : /\ f = [Fresh EXCEPT !.tok = active, !.kind = "Terminal",
                                       !.home = next, !.outer = me[Ctl]]
                 /\ me' = [me EXCEPT ![Ctl] = f] /\ pc' = [pc EXCEPT ![Ctl] = "gate"]
    BY <1>1, <1>4 DEF CloseWindow, Go
  <2>2. /\ DOMAIN f = Fields /\ f.kind = "Terminal" /\ f.home = next
        /\ f.back = "exit" /\ f.outer = me[Ctl]
    BY <2>1 DEF Fresh, Fields
  <2>3. Typed' /\ Moves(Ctl) /\ pc'[Ctl] = "gate" /\ me'[Ctl] = f
    <3>1. DOMAIN f = Fields /\ me' = [me EXCEPT ![Ctl] = f] /\ pc' = [pc EXCEPT ![Ctl] = "gate"]
      BY <2>1, <2>2
    <3>. QED
      BY <1>2, <1>3, <3>1 DEF Inv, Typed, Moves, Labels, ThreadLabels
  <2>4. Local(Ctl)' /\ Nested(Ctl)'
    BY <1>2, <1>3, <2>2, <2>3 DEF Local, Nested, Below, ThreadLabels, ControlLabels, Freezing
  <2>5. Accounts(Ctl)
    BY <1>2, <1>3, <2>2, <2>3 DEF Accounts, Inside, Interrupted, Below, One, Touching, Freezing
  <2>6. HookLock'
    BY <1>2, <1>3, <2>2, <2>3, HookKept DEF Inv, Hooks, Below
  <2>7. Quiet'
    BY <2>3 DEF Quiet, At
  <2>. QED
    BY <1>2, <1>3, <2>3, <2>4, <2>5, <2>6, <2>7, Step
<1>5. CASE ~(open /\ active # 0)
  <2>1. me' = me /\ pc' = [pc EXCEPT ![Ctl] = next]
    BY <1>1, <1>5 DEF CloseWindow, Go
  <2>2. Outer(Ctl) /\ pc'[Ctl] = next
    BY <1>1, <1>2, <1>3, <2>1, ControlMove DEF Labels, ControlLabels, Below
  <2>3. Quiet'
    BY <2>2 DEF Quiet, At
  <2>. QED
    BY <1>2, <2>2, <2>3, OuterStep
<1>. QED
  BY <1>4, <1>5

-----------------------------------------------------------------------------
(* The ring.                                                               *)

LEMMA InitInv == Init => Inv
<1>1. SUFFICES ASSUME Init PROVE Inv
  OBVIOUS
<1>2. Typed
  BY <1>1, FreshFrame DEF Init, Typed, Labels
<1>3. ASSUME NEW t \in Threads
      PROVE  pc[t] = "idle" /\ me[t] = Fresh /\ ~Below(t) /\ ~Inside(t) /\ ~Interrupted(t)
  BY <1>1, FreshFrame DEF Init, Below, Inside, Interrupted, Touching, Freezing
<1>4. \A t \in Threads : Local(t) /\ Nested(t)
  BY <1>3, FreshFrame DEF Local, Nested, ControlLabels
<1>5. Counted
  <2>1. {t \in Threads : Inside(t)} = {} /\ {t \in Threads : Interrupted(t)} = {}
    BY <1>3
  <2>. QED
    BY <1>1, <2>1, FS_EmptySet DEF Counted, Init
<1>6. Settled /\ HookLock /\ Quiet
  BY <1>3, FiniteThreads DEF Settled, HookLock, Hooks, Quiet, At
<1>. QED
  BY <1>2, <1>4, <1>5, <1>6 DEF Inv

LEMMA NextInv == Inv /\ [Next]_vars => Inv'
<1>. SUFFICES ASSUME Inv, [Next]_vars PROVE Inv'
  OBVIOUS
<1>1. ASSUME NEW p \in Producers, Capture(p) PROVE Inv'
  BY <1>1, CaptureStep
<1>2. ASSUME NEW t \in Threads, ThreadStep(t) PROVE Inv'
  BY <1>2, AnyThreadStep
<1>3. CASE RequestLoad \/ RequestStore \/ ControlStatus
  BY <1>3, RequestStep
<1>4. CASE ArmStorage \/ ArmOpen \/ ArmPublish
  BY <1>4, ArmStep
<1>5. CASE ControlFreeze \/ CloseForExport
  BY <1>5, CloseStep
<1>6. CASE \/ Finish \/ ControlExport \/ Header \/ HeaderEvicted \/ HeaderDone \/ Scan \/ Visit
           \/ ControlDiscard \/ Free \/ Leave
  BY <1>6, CommandStep
<1>8. ASSUME NEW w \in Windows, ControlTrigger(w) PROVE Inv'
  BY <1>8, ControlTriggerStep
<1>7. CASE UNCHANGED vars
  BY <1>7 DEF vars, life, gate, store, trigger, object, Inv, Typed, Local, Nested, Below,
     Settled, Counted, Inside, Interrupted, HookLock, Hooks, Quiet, At
<1>. QED
  BY <1>1, <1>2, <1>3, <1>4, <1>5, <1>6, <1>7, <1>8 DEF Next, ControlStep, Threads

\* Whatever the producers are doing, nobody can touch a cell while the control
\* thread reads, frees or replaces the storage: the writer count alone protects it,
\* for any number of producers, any capacity and any number of sessions.
THEOREM QuietSafety == Spec => []StorageIsQuiet
<1>1. Inv => StorageIsQuiet
  BY DEF Inv, Quiet, StorageIsQuiet, Touching, At
<1>. QED
  BY InitInv, NextInv, <1>1, PTL DEF Spec

-----------------------------------------------------------------------------
(* The ring implements EvidenceSession.                                    *)

Active == {"Armed", "Triggered"}

\* Nobody is on the way to freezing or triggering the ring.
Calm ==
  \A t \in Threads :
    pc[t] \notin Touching \cup Freezing \cup {"tstore", "tstate"} /\ ~Below(t)

\* No thread carries a token of a session that is not yet published, and no request does.
Tokens ==
  /\ session \in Nat /\ active \in 0 .. session /\ asking \in 0 .. session
  /\ \A t \in Threads :
       /\ me[t].tok \in 0 .. session /\ (pc[t] \in {"gate", "take"} => me[t].tok # 0)
       /\ Below(t) => me[t].outer.tok \in 0 .. session
  /\ pc[Ctl] \in {"arm", "publish"} =>
       asking < session /\ \A t \in Threads : me[t].tok < session

\* A writer that saw an earlier session frozen may shut the gate late.
Late(t) ==
  pc[t] = "cut" => session > 0 /\ (state \in Active \/ At(Ctl, "arm") => session > 1)

Phases ==
  /\ state \in {"Idle", "Frozen"} \cup Active
  /\ state # "Idle" \/ At(Ctl, "arm") => session > 0
  /\ state = "Idle" => active = 0 \/ At(Ctl, "leave")
  /\ state = "Idle" \/ pc[Ctl] \in {"free", "publish"} => Calm
  /\ At(Ctl, "publish") => state = "Armed" /\ active = 0
  /\ pc[Ctl] \in {"evicted", "shut"} => state = "Frozen"
  /\ \A t \in Threads : Late(t)

Life == Tokens /\ Phases

\* What a step inside Record, trigger, append or freeze does to the session.
Effect(t) ==
  /\ Moves(t) /\ session' = session /\ asking' = asking
  /\ \/ state' = state
     \/ state = "Armed" /\ state' = "Triggered" /\ pc[t] = "tstate"
     \/ state' = "Frozen" /\ pc[t] = "stop"
  /\ active' = active \/ (pc[t] = "cut" /\ active' = 0 /\ game' = game /\ state' = state)
  /\ game' = game \/ (game # 0 /\ game' = 0 /\ active' = active /\ state' = state)
  /\ \/ me'[t].tok \in {0, me[t].tok}
     \/ Below(t) /\ me'[t].tok = me[t].outer.tok
     \/ pc[t] = "hook" /\ me'[t].tok = active
  /\ pc'[t] \in {"gate", "take"} => me'[t].tok # 0
  /\ Below(t)' => \/ Below(t) /\ me'[t].outer = me[t].outer
                  \/ pc[t] = "hook" /\ me'[t].outer = me[t]
  /\ pc'[t] \in Touching => pc[t] \in Touching \/ (state \in Active /\ me[t].tok = session)
  /\ pc'[t] \in {"tstore", "tstate"} =>
       pc[t] = "tstore" \/ (state = "Armed" /\ me[t].tok = session)
  /\ pc'[t] \in Freezing => pc[t] \in Freezing \cup Touching \cup {"tstate"} \/ Below(t)
  /\ pc'[t] = "cut" => state = "Frozen" /\ state' = state
  /\ pc'[t] \notin {"arm", "publish", "free", "evicted", "shut"}
  /\ pc[t] \notin {"arm", "publish", "leave", "free"}

LEMMA EffectKeepsLife ==
  ASSUME NEW t \in Threads, Inv, Life, Effect(t)
  PROVE  Life'
<1>. USE FiniteThreads DEF Effect, Life
<1>1. pc[Ctl] \in {"arm", "publish"} => Calm
  BY DEF Phases, Inv, Quiet, At
<1>2. Tokens'
  <2>1. session' \in Nat /\ active' \in 0 .. session' /\ asking' \in 0 .. session'
    BY DEF Tokens
  <2>2. ASSUME NEW u \in Threads
        PROVE  /\ me'[u].tok \in 0 .. session'
               /\ pc'[u] \in {"gate", "take"} => me'[u].tok # 0
               /\ Below(u)' => me'[u].outer.tok \in 0 .. session'
    BY DEF Tokens, Moves, Below
  <2>3. ASSUME pc'[Ctl] \in {"arm", "publish"}, NEW u \in Threads
        PROVE  asking' < session' /\ me'[u].tok < session'
    <3>1. t # Ctl /\ pc[Ctl] \in {"arm", "publish"}
      BY <2>3 DEF Moves
    <3>2. Calm /\ asking < session /\ (\A v \in Threads : me[v].tok < session) /\ session \in Nat
      BY <1>1, <3>1 DEF Tokens
    <3>3. pc[t] # "hook" /\ ~Below(t)
      BY <3>2 DEF Calm, Freezing
    <3>4. 0 < session
      BY <3>1 DEF Phases, At
    <3>. QED
      BY <3>2, <3>3, <3>4 DEF Moves
  <2>4. pc'[Ctl] \in {"arm", "publish"} =>
          asking' < session' /\ \A u \in Threads : me'[u].tok < session'
    BY <2>3
  <2>. QED
    BY <2>1, <2>2, <2>4 DEF Tokens
<1>3. ASSUME state' = "Idle" \/ pc'[Ctl] \in {"free", "publish"} PROVE Calm'
  <2>1. /\ pc[Ctl] \in {"free", "publish"} \/ state = "Idle"
        /\ pc'[Ctl] \in {"free", "publish"} => t # Ctl
    BY <1>3 DEF Moves
  <2>2. Calm
    BY <2>1 DEF Phases
  <2>3. ~(state \in Active /\ me[t].tok = session)
    BY <2>1 DEF Phases, Active, Inv, Quiet, Tokens, At
  <2>. QED
    BY <2>2, <2>3 DEF Calm, Moves, Below, Active, Touching, Freezing
<1>4. ASSUME NEW u \in Threads PROVE Late(u)'
  BY DEF Phases, Late, Moves, At, Active, Inv, Quiet
<1>5. /\ state' \in {"Idle", "Frozen"} \cup Active
      /\ state' # "Idle" \/ At(Ctl, "arm")' => session' > 0
      /\ state' = "Idle" => active' = 0 \/ At(Ctl, "leave")'
      /\ At(Ctl, "publish")' => state' = "Armed" /\ active' = 0
      /\ pc'[Ctl] \in {"evicted", "shut"} => state' = "Frozen"
  BY <1>1 DEF Phases, Calm, Moves, At, Active, Freezing
<1>. QED
  BY <1>2, <1>3, <1>4, <1>5 DEF Phases

-----------------------------------------------------------------------------
(* The effect of every step of a thread.                                   *)

LEMMA ReturnEffect ==
  ASSUME NEW t \in Threads, Inv, Life, Returns(t), pc[t] \in {"gate", "look", "cut"},
         UNCHANGED <<state, session, game, asking>>,
         active' = active \/ (pc[t] = "cut" /\ active' = 0)
  PROVE  Effect(t)
<1>1. /\ pc \in [Threads -> Labels] /\ DOMAIN me = Threads /\ Local(t) /\ Nested(t)
  BY DEF Inv, Typed
<1>2. Fresh.kind = "Event" /\ Fresh.tok = 0
  BY DEF Fresh
<1>3. CASE ~Below(t)
  <2>1. me' = [me EXCEPT ![t] = Fresh] /\ pc' = [pc EXCEPT ![t] = "idle"]
    BY <1>1, <1>3 DEF Returns, Go, Local, Below
  <2>. QED
    BY <1>1, <1>2, <1>3, <2>1 DEF Effect, Moves, Below, Touching, Freezing
<1>4. CASE Below(t)
  <2>1. me' = [me EXCEPT ![t] = me[t].outer] /\ pc' = [pc EXCEPT ![t] = me[t].home]
    BY <1>1, <1>4 DEF Returns, Go, Below
  <2>2. me[t].outer.kind # "Terminal" /\ me[t].home \in {"unhook", "finish", "header"}
    BY <1>1, <1>4 DEF Local, Nested, Below
  <2>. QED
    BY <1>1, <1>4, <2>1, <2>2 DEF Effect, Moves, Below, Touching, Freezing
<1>. QED
  BY <1>3, <1>4

LEMMA AppendEffect ==
  ASSUME NEW t \in Threads, Inv, Life,
         \/ Enter(t) \/ Check(t) \/ Reserve(t) \/ Place(t) \/ Claim(t) \/ Write(t)
         \/ (\E end \in BOOLEAN : Accept(t, end)) \/ Exit(t)
  PROVE  Effect(t)
<1>1. Typed /\ DOMAIN Spent(t) = Fields /\ Spent(t).tok = me[t].tok
      /\ Spent(t).kind = me[t].kind /\ Spent(t).outer = me[t].outer
  BY DEF Inv, Typed, Spent, Fields
<1>. USE <1>1 DEF Go, Goes, At, Effect, Typed, Moves, Below, Touching, Freezing, life, gate
<1>2. CASE Enter(t)
  BY <1>2 DEF Enter
<1>3. CASE Check(t)
  BY <1>3 DEF Check, Recording, Active
<1>4. CASE Reserve(t)
  BY <1>4 DEF Reserve, Fields
<1>5. CASE Place(t)
  BY <1>5 DEF Place, Fields
<1>6. CASE Claim(t)
  BY <1>6 DEF Claim
<1>7. CASE Write(t)
  BY <1>7 DEF Write
<1>8. ASSUME NEW end \in BOOLEAN, Accept(t, end) PROVE Effect(t)
  BY <1>8 DEF Accept, Fields
<1>9. CASE Exit(t)
  BY <1>9 DEF Exit
<1>. QED
  BY <1>2, <1>3, <1>4, <1>5, <1>6, <1>7, <1>8, <1>9

LEMMA TriggerEffect ==
  ASSUME NEW t \in Threads, Inv, Life,
         TriggerEnter(t) \/ TriggerClaim(t) \/ TriggerStore(t) \/ TriggerState(t) \/ TriggerExit(t)
  PROVE  Effect(t)
<1>. USE DEF Go, Goes, At, Effect, Inv, Typed, Moves, Below, Touching, Freezing, life, gate
<1>1. CASE TriggerEnter(t)
  BY <1>1 DEF TriggerEnter
<1>2. CASE TriggerClaim(t)
  BY <1>2 DEF TriggerClaim, Claims, Fields
<1>3. CASE TriggerStore(t)
  BY <1>3 DEF TriggerStore, Fields
<1>4. CASE TriggerState(t)
  BY <1>4 DEF TriggerState, Fields
<1>5. CASE TriggerExit(t)
  BY <1>5 DEF TriggerExit, Fields
<1>. QED
  BY <1>1, <1>2, <1>3, <1>4, <1>5

LEMMA FreezeEffect ==
  ASSUME NEW t \in Threads, Inv, Life, Freeze(t) \/ Hook(t) \/ Unhook(t) \/ Stop(t)
  PROVE  Effect(t)
<1>. USE DEF Go, Goes, At, Effect, Inv, Typed, Moves, Below, Touching, Freezing, life, gate
<1>1. CASE Freeze(t)
  BY <1>1 DEF Freeze
<1>2. CASE Hook(t)
  <2>1. CASE open /\ active # 0
    <3>1. PICK f : /\ f = [Fresh EXCEPT !.tok = active, !.kind = "Terminal",
                                         !.home = "unhook", !.outer = me[t]]
                   /\ me' = [me EXCEPT ![t] = f] /\ pc' = [pc EXCEPT ![t] = "gate"]
      BY <1>2, <2>1 DEF Hook, CloseWindow
    <3>2. f.tok = active /\ f.outer = me[t]
      BY <3>1 DEF Fresh
    <3>. QED
      BY <1>2, <2>1, <3>1, <3>2 DEF Hook, CloseWindow
  <2>2. CASE ~(open /\ active # 0)
    BY <1>2, <2>2 DEF Hook, CloseWindow
  <2>. QED
    BY <2>1, <2>2
<1>3. CASE Unhook(t)
  BY <1>3 DEF Unhook
<1>4. CASE Stop(t)
  <2>1. me[t].back \in {"exit", "texit", "leave"}
    BY DEF Local
  <2>. QED
    BY <1>4, <2>1 DEF Stop
<1>. QED
  BY <1>1, <1>2, <1>3, <1>4

LEMMA ThreadEffect ==
  ASSUME NEW t \in Threads, Inv, Life, ThreadStep(t)
  PROVE  Effect(t)
<1>1. CASE Gate(t)
  <2>1. CASE active # me[t].tok
    BY <1>1, <2>1, ReturnEffect DEF Gate, At, life, gate
  <2>2. CASE active = me[t].tok
    BY <1>1, <2>2 DEF Gate, Go, At, Effect, Inv, Typed, Moves, Below, Touching, Freezing,
       life, gate, Life, Tokens
  <2>. QED
    BY <2>1, <2>2
<1>2. CASE Cut(t)
  BY <1>2, ReturnEffect DEF Cut, At, life
<1>3. CASE Take(t)
  BY <1>3 DEF Take, Go, At, Effect, Inv, Typed, Moves, Below, Touching, Freezing, life, gate,
     Life, Tokens
<1>4. CASE Look(t)
  <2>1. CASE state # "Frozen"
    BY <1>4, <2>1, ReturnEffect DEF Look, At, life, gate
  <2>2. CASE state = "Frozen"
    BY <1>4, <2>2 DEF Look, Go, At, Effect, Inv, Typed, Moves, Below, Touching, Freezing,
       life, gate
  <2>. QED
    BY <2>1, <2>2
<1>. QED
  BY <1>1, <1>2, <1>3, <1>4, AppendEffect, TriggerEffect, FreezeEffect DEF ThreadStep

-----------------------------------------------------------------------------
(* The steps of Control, and the events that begin.                        *)

\* A producer begins, or Ctl goes on between the operations that make a session.
Between(t) ==
  /\ Moves(t) /\ session' = session /\ state' = state
  /\ pc[t] \in ControlLabels \cup {"idle"} /\ pc[t] \notin {"arm", "publish", "free"}
  /\ me'[t].tok \in {0, me[t].tok, active} \/ (t = Ctl /\ me'[t].tok = session)
  /\ pc'[t] = "gate" => active # 0 /\ me'[t].tok = active
  /\ pc'[t] # "take" /\ (pc'[t] \in {"evicted", "shut"} => state = "Frozen")
  /\ Below(t)' => /\ pc[t] \in {"idle", "closing"} /\ pc'[t] = "gate" /\ t = Ctl
                  /\ active # 0 /\ me'[t].outer = me[t]
  /\ pc'[t] \notin Touching \cup {"tstore", "tstate", "cut", "arm", "publish"}
  /\ pc'[t] \in Freezing => t = Ctl /\ state \in Active
  /\ pc'[t] = "free" => state = "Frozen" /\ writers = 0
  /\ active' = active \/ (active' = 0 /\ game' = game /\ t = Ctl /\ state \in {"Idle", "Frozen"})
  /\ pc[t] = "leave" => state \in Active \/ active' = 0
  /\ game' = game /\ asking' = asking

\* Nobody is in the frames below a drained ring.
LEMMA DrainedCalm ==
  ASSUME Inv, writers = 0, NEW t \in Threads,
         t = Ctl => pc[Ctl] \in ControlLabels \cup {"idle"}
  PROVE  pc[t] \notin Touching \cup Freezing \cup {"tstore", "tstate"} /\ ~Below(t)
<1>1. ~Inside(t) /\ ~Interrupted(t) /\ Local(t) /\ Nested(t)
  BY Drained DEF Inv
<1>. QED
  BY <1>1 DEF Local, Nested, Below, Inside, Interrupted, Touching, Freezing, ThreadLabels,
     ControlLabels

LEMMA BetweenKeepsLife ==
  ASSUME NEW t \in Threads, Inv, Life, Between(t)
  PROVE  Life'
<1>. USE FiniteThreads DEF Between, Life
<1>1. pc[Ctl] \in {"arm", "publish"} => Calm /\ active = 0
  BY DEF Phases, Inv, Quiet, At
<1>2. Tokens'
  <2>1. session' \in Nat /\ active' \in 0 .. session' /\ asking' \in 0 .. session'
    BY DEF Tokens
  <2>2. ASSUME NEW u \in Threads
        PROVE  /\ me'[u].tok \in 0 .. session'
               /\ pc'[u] \in {"gate", "take"} => me'[u].tok # 0
               /\ Below(u)' => me'[u].outer.tok \in 0 .. session'
    BY DEF Tokens, Moves, Below
  <2>3. ASSUME pc'[Ctl] \in {"arm", "publish"}, NEW u \in Threads
        PROVE  asking' < session' /\ me'[u].tok < session'
    <3>1. t # Ctl /\ pc[Ctl] \in {"arm", "publish"}
      BY <2>3 DEF Moves
    <3>2. active = 0 /\ asking < session /\ (\A v \in Threads : me[v].tok < session) /\ session \in Nat
      BY <1>1, <3>1 DEF Tokens
    <3>3. 0 < session
      BY <3>1 DEF Phases, At
    <3>. QED
      BY <3>1, <3>2, <3>3 DEF Moves
  <2>4. pc'[Ctl] \in {"arm", "publish"} =>
          asking' < session' /\ \A u \in Threads : me'[u].tok < session'
    BY <2>3
  <2>. QED
    BY <2>1, <2>2, <2>4 DEF Tokens
<1>3. ASSUME state' = "Idle" \/ pc'[Ctl] \in {"free", "publish"} PROVE Calm'
  <2>1. CASE pc'[Ctl] = "free" /\ t = Ctl
    <3>1. pc[Ctl] \in ControlLabels \cup {"idle"} /\ writers = 0
      BY <2>1
    <3>2. Calm
      BY <3>1, DrainedCalm DEF Calm
    <3>. QED
      BY <2>1, <3>2 DEF Calm, Moves, Below, Freezing
  <2>2. CASE ~(pc'[Ctl] = "free" /\ t = Ctl)
    <3>1. pc[Ctl] \in {"free", "publish"} \/ state = "Idle"
      BY <1>3, <2>2 DEF Moves
    <3>2. Calm
      BY <3>1 DEF Phases
    <3>3. pc'[t] \notin Freezing /\ ~Below(t)'
      BY <1>3 DEF Phases, At, Active, Freezing
    <3>. QED
      BY <3>2, <3>3 DEF Calm, Moves, Below, Freezing
  <2>. QED
    BY <2>1, <2>2
<1>4. ASSUME NEW u \in Threads PROVE Late(u)'
  BY DEF Phases, Late, Moves, At, Active
<1>5. /\ state' \in {"Idle", "Frozen"} \cup Active
      /\ state' # "Idle" \/ At(Ctl, "arm")' => session' > 0
      /\ state' = "Idle" => active' = 0 \/ At(Ctl, "leave")'
      /\ At(Ctl, "publish")' => state' = "Armed" /\ active' = 0
      /\ pc'[Ctl] \in {"evicted", "shut"} => state' = "Frozen"
  BY DEF Phases, Moves, At, Active
<1>. QED
  BY <1>2, <1>3, <1>4, <1>5 DEF Phases

LEMMA CaptureBetween ==
  ASSUME Inv, Life, NEW p \in Producers, Capture(p)
  PROVE  p \in Threads /\ Between(p)
<1>1. p \in Threads /\ p # Ctl
  BY RingAssumption DEF Threads
<1>2. PICK f : /\ f.tok = active /\ f.kind = "Event"
               /\ me' = [me EXCEPT ![p] = f] /\ pc' = [pc EXCEPT ![p] = "gate"]
  BY DEF Capture, Goes, Go, Fresh
<1>. QED
  BY <1>1, <1>2 DEF Capture, Goes, At, Between, Moves, Below, Inv, Typed, Touching, Freezing,
     ControlLabels, life, gate

LEMMA CloseBetween ==
  ASSUME Inv, Life, ControlFreeze \/ CloseForExport
  PROVE  Between(Ctl)
<1>1. PICK next \in {"finish", "header"} :
        pc[Ctl] \in {"idle", "closing"} /\ CloseWindow(Ctl, next)
  BY DEF ControlFreeze, CloseForExport, At
<1>2. Ctl \in Threads /\ ~Below(Ctl) /\ DOMAIN me = Threads /\ DOMAIN pc = Threads
  BY <1>1, ControlBetween DEF ControlLabels, Inv, Typed
<1>3. CASE open /\ active # 0
  <2>1. PICK f : /\ f = [Fresh EXCEPT !.tok = active, !.kind = "Terminal",
                                       !.home = next, !.outer = me[Ctl]]
                 /\ me' = [me EXCEPT ![Ctl] = f] /\ pc' = [pc EXCEPT ![Ctl] = "gate"]
    BY <1>1, <1>3 DEF CloseWindow, Go
  <2>2. f.tok = active /\ f.outer = me[Ctl]
    BY <2>1 DEF Fresh
  <2>3. me'[Ctl] = f /\ pc'[Ctl] = "gate" /\ Moves(Ctl)
    BY <1>2, <2>1 DEF Moves
  <2>. QED
    BY <1>1, <1>3, <2>2, <2>3 DEF CloseWindow, Between, Touching, Freezing, ControlLabels,
       life, gate
<1>4. CASE ~(open /\ active # 0)
  BY <1>1, <1>2, <1>4 DEF CloseWindow, Go, Between, Moves, Below, Touching, Freezing,
     ControlLabels, life, gate
<1>. QED
  BY <1>3, <1>4

LEMMA CommandBetween ==
  ASSUME Inv, Life,
         \/ \E w \in Windows : ControlTrigger(w)
         \/ Finish \/ ControlExport \/ Header \/ HeaderEvicted \/ HeaderDone \/ Scan \/ Visit
         \/ ControlDiscard \/ ControlStatus \/ Leave
  PROVE  Between(Ctl)
<1>1. pc[Ctl] \in ControlLabels \cup {"idle"}
  BY DEF ControlTrigger, Finish, ControlExport, Header, HeaderEvicted, HeaderDone, Scan,
     Visit, ControlDiscard, ControlStatus, Leave, Goes, At, ControlLabels
<1>2. Ctl \in Threads /\ ~Below(Ctl) /\ DOMAIN me = Threads /\ DOMAIN pc = Threads
      /\ DOMAIN me[Ctl] = Fields /\ Fresh.tok = 0 /\ Fresh.kind = "Event"
  BY <1>1, ControlBetween DEF Inv, Typed, Fresh
<1>. USE <1>1, <1>2 DEF Goes, At, Go, Between, Moves, Below, Touching, Freezing, ControlLabels,
                        Active, Recording, life, gate
<1>3. ASSUME NEW w \in Windows, ControlTrigger(w) PROVE Between(Ctl)
  BY <1>3 DEF ControlTrigger, Fresh
<1>4. CASE HeaderEvicted \/ HeaderDone
  BY <1>4 DEF HeaderEvicted, HeaderDone, Life, Phases
<1>5. CASE Finish
  BY <1>5 DEF Finish, Fresh
<1>6. CASE ControlExport
  BY <1>6 DEF ControlExport, Fresh
<1>7. CASE Header
  BY <1>7 DEF Header
<1>8. CASE Scan \/ Visit
  BY <1>8 DEF Scan, Visit
<1>9. CASE ControlDiscard
  BY <1>9 DEF ControlDiscard, FrozenReady
<1>10. CASE ControlStatus
  BY <1>10 DEF ControlStatus, CloseGate, Life, Phases
<1>11. CASE Leave
  BY <1>11 DEF Leave, CloseGate, Life, Phases
<1>. QED
  BY <1>3, <1>4, <1>5, <1>6, <1>7, <1>8, <1>9, <1>10, <1>11

LEMMA FreeLife ==
  ASSUME Inv, Life, Free
  PROVE  Life'
<1>1. Ctl \in Threads /\ pc[Ctl] = "free" /\ state = "Frozen" /\ Calm
  BY FiniteThreads DEF Free, Goes, At, Inv, Quiet, Life, Phases
<1>2. /\ Moves(Ctl) /\ pc'[Ctl] = "leave" /\ me' = me /\ state' = "Idle"
      /\ session' = session /\ active' = active /\ asking' = asking
  BY <1>1 DEF Free, Goes, Go, Moves, Inv, Typed, gate
<1>3. Tokens'
  BY <1>2 DEF Life, Tokens, Moves, Below
<1>4. Calm'
  BY <1>1, <1>2 DEF Calm, Moves, Below, Touching, Freezing
<1>5. ASSUME NEW u \in Threads PROVE Late(u)'
  BY <1>1, <1>2 DEF Life, Phases, Late, Moves, At, Active
<1>. QED
  BY <1>2, <1>3, <1>4, <1>5 DEF Life, Phases, At

LEMMA ArmLife ==
  ASSUME Inv, Life, ArmStorage \/ ArmOpen \/ ArmPublish
  PROVE  Life'
<1>1. /\ Ctl \in Threads /\ Moves(Ctl) /\ me' = me
      /\ pc'[Ctl] \in {"arm", "publish", "idle"} /\ pc[Ctl] \notin {"leave", "free"}
  BY FiniteThreads
     DEF ArmStorage, ArmOpen, ArmPublish, Goes, At, Go, Inv, Typed, Moves
<1>2. Calm
  BY DEF ArmStorage, ArmOpen, ArmPublish, Goes, At, Life, Phases, Inv, Quiet
<1>3. Calm'
  BY <1>1, <1>2 DEF Calm, Moves, Below, Touching, Freezing
<1>4. CASE ArmStorage
  <2>1. /\ state = "Idle" /\ state' = state /\ session' = session + 1 /\ active' = active
        /\ asking' = asking
        /\ pc'[Ctl] = "arm" /\ active = 0
    BY <1>1, <1>4 DEF ArmStorage, Goes, At, Go, Inv, Typed, gate, Life, Phases
  <2>2. Tokens'
    BY <1>1, <2>1 DEF Life, Tokens, Moves, Below
  <2>3. ASSUME NEW u \in Threads PROVE Late(u)'
    BY <1>1, <2>1 DEF Life, Tokens, Phases, Late, Moves, At, Active
  <2>. QED
    BY <1>3, <2>1, <2>2, <2>3 DEF Life, Tokens, Phases, At
<1>5. CASE ArmOpen
  <2>1. /\ pc[Ctl] = "arm" /\ state' = "Armed" /\ session' = session /\ active' = active
        /\ asking' = asking
        /\ pc'[Ctl] = "publish" /\ active = 0
    BY <1>1, <1>5 DEF ArmOpen, Goes, At, Go, Inv, Typed, gate, Life, Phases, Quiet
  <2>2. Tokens'
    BY <1>1, <2>1 DEF Life, Tokens, Moves, Below
  <2>3. ASSUME NEW u \in Threads PROVE Late(u)'
    BY <1>1, <2>1 DEF Life, Phases, Late, Moves, At, Active
  <2>. QED
    BY <1>3, <2>1, <2>2, <2>3 DEF Life, Phases, At, Active
<1>6. CASE ArmPublish
  <2>1. /\ pc[Ctl] = "publish" /\ state' = state /\ state = "Armed" /\ session' = session
        /\ active' = session /\ pc'[Ctl] = "idle" /\ asking' = asking
    BY <1>1, <1>6 DEF ArmPublish, Goes, At, Go, Inv, Typed, life, Life, Phases
  <2>2. Tokens'
    BY <1>1, <2>1 DEF Life, Tokens, Moves, Below
  <2>3. ASSUME NEW u \in Threads PROVE Late(u)'
    BY <1>1, <2>1 DEF Life, Phases, Late, Moves, At, Active
  <2>. QED
    BY <2>1, <2>2, <2>3 DEF Life, Phases, At, Active
<1>. QED
  BY <1>4, <1>5, <1>6

-----------------------------------------------------------------------------
(* The ring and its specification.                                         *)

LEMMA InitLife == Init => Life
<1>1. SUFFICES ASSUME Init PROVE Life
  OBVIOUS
<1>2. ASSUME NEW t \in Threads
      PROVE  pc[t] = "idle" /\ me[t].tok = 0 /\ ~Below(t)
  BY <1>1 DEF Init, Fresh, Below
<1>3. Tokens
  BY <1>1, <1>2, FiniteThreads DEF Init, Tokens
<1>4. Phases
  BY <1>1, <1>2, FiniteThreads DEF Init, Phases, Calm, Late, At, Touching, Freezing
<1>. QED
  BY <1>3, <1>4 DEF Life

\* The gate is shut while a session is being made, so no request names it.
LEMMA RequestLife ==
  ASSUME Inv, Life, RequestLoad \/ RequestStore \/ UNCHANGED vars
  PROVE  Life'
<1>1. /\ UNCHANGED <<state, session, active, pc, me>>
      /\ asking' \in {asking, 0} \/ (active # 0 /\ asking' = active)
  BY DEF RequestLoad, RequestStore, vars, life, gate, store, trigger, object
<1>2. pc[Ctl] \in {"arm", "publish"} => active = 0 /\ session > 0
  BY DEF Life, Phases, At, Inv, Quiet
<1>3. Tokens'
  BY <1>1, <1>2 DEF Life, Tokens, Below
<1>4. Phases'
  BY <1>1 DEF Life, Phases, Calm, Late, Below, At
<1>. QED
  BY <1>3, <1>4 DEF Life

LEMMA NextLife == Inv /\ Life /\ [Next]_vars => Life'
<1>. SUFFICES ASSUME Inv, Life, [Next]_vars PROVE Life'
  OBVIOUS
<1>1. ASSUME NEW p \in Producers, Capture(p) PROVE Life'
  BY <1>1, CaptureBetween, BetweenKeepsLife
<1>2. ASSUME NEW t \in Threads, ThreadStep(t) PROVE Life'
  BY <1>2, ThreadEffect, EffectKeepsLife
<1>3. CASE RequestLoad \/ RequestStore \/ UNCHANGED vars
  BY <1>3, RequestLife
<1>4. CASE ArmStorage \/ ArmOpen \/ ArmPublish
  BY <1>4, ArmLife
<1>5. CASE ControlFreeze \/ CloseForExport
  BY <1>5, CloseBetween, BetweenKeepsLife, FiniteThreads
<1>6. CASE \/ \E w \in Windows : ControlTrigger(w)
           \/ Finish \/ ControlExport \/ Header \/ HeaderEvicted \/ HeaderDone \/ Scan \/ Visit
           \/ ControlDiscard \/ ControlStatus \/ Leave
  BY <1>6, CommandBetween, BetweenKeepsLife, FiniteThreads
<1>7. CASE Free
  BY <1>7, FreeLife
<1>. QED
  BY <1>1, <1>2, <1>3, <1>4, <1>5, <1>6, <1>7 DEF Next, ControlStep, Threads

LEMMA EffectRefines ==
  ASSUME NEW t \in Threads, Inv, Life, Effect(t)
  PROVE  [Session!Next]_(Session!session_vars)
<1>1. /\ pc'[Ctl] = "publish" <=> pc[Ctl] = "publish"
      /\ pc'[Ctl] = "arm" <=> pc[Ctl] = "arm"
      /\ session' = session /\ session \in Nat
  BY FiniteThreads DEF Effect, Moves, Life, Tokens
<1>2. At(Ctl, "publish") => pc[t] \notin {"tstate", "stop"} /\ state = "Armed" /\ active = 0
  BY DEF Life, Phases, Calm, Freezing, At
<1>3. state = "Idle" => pc[t] # "stop"
  BY DEF Life, Phases, Calm, Freezing
<1>4. CASE active' # active
  <2>1. Late(t) /\ state' = state /\ game' = game /\ active' = 0 /\ pc[t] = "cut"
    BY <1>4 DEF Effect, Life, Phases
  <2>. QED
    BY <1>1, <1>2, <1>4, <2>1 DEF Late, Active, Session!Next, Session!Cut, Session!Recording,
       Phase, At, Life, Phases, Inv, Quiet
<1>5. CASE game' # game
  BY <1>1, <1>5 DEF Effect, Session!Next, Session!TakeRequest, Phase, At
<1>6. CASE active' = active /\ game' = game
  <2>1. CASE state' = state
    BY <1>1, <1>6, <2>1 DEF Session!session_vars, Phase, At
  <2>2. CASE state = "Armed" /\ state' = "Triggered" /\ pc[t] = "tstate"
    BY <1>1, <1>2, <1>6, <2>2 DEF Session!Next, Session!Trigger, Phase, At
  <2>3. CASE state' = "Frozen" /\ pc[t] = "stop"
    BY <1>1, <1>2, <1>3, <1>6, <2>3 DEF Session!Next, Session!Freeze, Session!session_vars,
       Phase, At, Life, Phases, Active
  <2>. QED
    BY <2>1, <2>2, <2>3 DEF Effect
<1>. QED
  BY <1>4, <1>5, <1>6

LEMMA BetweenRefines ==
  ASSUME NEW t \in Threads, Inv, Life, Between(t)
  PROVE  [Session!Next]_(Session!session_vars)
<1>1. /\ pc'[Ctl] = "publish" <=> pc[Ctl] = "publish"
      /\ pc'[Ctl] = "arm" <=> pc[Ctl] = "arm"
      /\ session' = session /\ state' = state /\ game' = game
  BY FiniteThreads DEF Between, Moves
<1>2. CASE active' = active
  BY <1>1, <1>2 DEF Session!session_vars, Phase, At
<1>3. CASE active' # active
  BY <1>1, <1>3 DEF Between, Session!Next, Session!Cut, Session!Recording, Phase, At
<1>. QED
  BY <1>2, <1>3

LEMMA ArmRefines ==
  ASSUME Inv, Life, ArmStorage \/ ArmOpen \/ ArmPublish \/ Free
  PROVE  [Session!Next]_(Session!session_vars)
<1>1. DOMAIN pc = Threads /\ Ctl \in Threads /\ session \in Nat
  BY FiniteThreads DEF Inv, Typed, Life, Tokens
<1>. USE <1>1 DEF Goes, At, Go, Phase, gate
<1>2. CASE ArmStorage
  BY <1>2 DEF ArmStorage, Session!session_vars
<1>3. CASE ArmOpen
  BY <1>3 DEF ArmOpen, Inv, Quiet, Session!Next, Session!Arm
<1>4. CASE ArmPublish
  BY <1>4 DEF ArmPublish, life, Life, Phases, Session!Next, Session!Publish
<1>5. CASE Free
  BY <1>5 DEF Free, Inv, Quiet, Session!Next, Session!Discard
<1>. QED
  BY <1>2, <1>3, <1>4, <1>5

\* A late request still names a session that has been published.
LEMMA RequestRefines ==
  ASSUME Inv, Life, RequestLoad \/ RequestStore
  PROVE  [Session!Next]_(Session!session_vars)
<1>1. UNCHANGED <<state, session, active, pc>>
  BY DEF RequestLoad, RequestStore, life
<1>2. CASE RequestLoad
  BY <1>1, <1>2 DEF RequestLoad, Session!session_vars, Phase, At
<1>3. CASE RequestStore
  <2>1. asking # 0 /\ game' = asking
    BY <1>3 DEF RequestStore
  <2>2. /\ session \in Nat /\ asking \in 1 .. session
        /\ pc[Ctl] \in {"arm", "publish"} => asking < session
    BY <2>1 DEF Life, Tokens
  <2>3. /\ asking \in 1 .. IF At(Ctl, "arm") THEN session - 1 ELSE session
        /\ asking \in 1 .. Session!Published
    <3>1. state # "Arming" /\ (At(Ctl, "arm") => state = "Idle")
      BY DEF Inv, Quiet, Life, Phases, Active
    <3>. QED
      BY <2>2, <3>1 DEF Session!Published, Phase, At
  <2>4. Session!Request(asking)
    BY <1>1, <2>1, <2>3 DEF Session!Request, Phase, At
  <2>. QED
    BY <2>3, <2>4 DEF Session!Next
<1>. QED
  BY <1>2, <1>3

LEMMA NextRefines == Inv /\ Life /\ [Next]_vars => [Session!Next]_(Session!session_vars)
<1>. SUFFICES ASSUME Inv, Life, [Next]_vars PROVE [Session!Next]_(Session!session_vars)
  OBVIOUS
<1>1. ASSUME NEW p \in Producers, Capture(p) PROVE [Session!Next]_(Session!session_vars)
  BY <1>1, CaptureBetween, BetweenRefines
<1>2. ASSUME NEW t \in Threads, ThreadStep(t) PROVE [Session!Next]_(Session!session_vars)
  BY <1>2, ThreadEffect, EffectRefines
<1>3. CASE RequestLoad \/ RequestStore
  BY <1>3, RequestRefines
<1>4. CASE ArmStorage \/ ArmOpen \/ ArmPublish \/ Free
  BY <1>4, ArmRefines
<1>5. CASE ControlFreeze \/ CloseForExport
  BY <1>5, CloseBetween, BetweenRefines, FiniteThreads
<1>6. CASE \/ \E w \in Windows : ControlTrigger(w)
           \/ Finish \/ ControlExport \/ Header \/ HeaderEvicted \/ HeaderDone \/ Scan \/ Visit
           \/ ControlDiscard \/ ControlStatus \/ Leave
  BY <1>6, CommandBetween, BetweenRefines, FiniteThreads
<1>7. CASE UNCHANGED vars
  BY <1>7 DEF vars, life, gate, Session!session_vars, Phase, At
<1>. QED
  BY <1>1, <1>2, <1>3, <1>4, <1>5, <1>6, <1>7 DEF Next, ControlStep, Threads

\* The ring implements the session that FrameRecorder is written against: sessions
\* pass once through their phases, a trigger request is taken once, and only a
\* later session's gate can be shut by a writer that saw an earlier one frozen;
\* for any number of producers, cells, tickets and sessions.
THEOREM SessionRefinement == Spec => ImplementsSession
<1>1. Init => Session!Init
  <2>1. SUFFICES ASSUME Init PROVE Session!Init
    OBVIOUS
  <2>2. pc[Ctl] = "idle"
    BY <2>1, FiniteThreads DEF Init
  <2>. QED
    BY <2>1, <2>2 DEF Init, Session!Init, Phase, At
<1>. QED
  BY InitInv, NextInv, InitLife, NextLife, NextRefines, <1>1, PTL
     DEF Spec, ImplementsSession, Session!Spec

-----------------------------------------------------------------------------
(* A frozen ring ends its session.                                         *)

\* Only Control triggers with an empty window, and only such a trigger freezes the
\* ring itself; a terminal belongs to the session that is recorded.
Shape(t) ==
  /\ me[t].kind # "Control" => me[t].window # 0
  /\ pc[t] \in {"tstore", "tstate"} => me[t].ok
  /\ me[t].back = "texit" =>
       pc[t] = "texit" \/ (pc[t] \in Freezing /\ me[t].kind = "Control" /\ me[t].ok)
  /\ Below(t) =>
       /\ me[t].tok = session
       /\ me[t].outer.kind # "Control" => me[t].outer.window # 0
       /\ me[t].outer.back = "texit" =>
            me[t].home = "unhook" /\ me[t].outer.kind = "Control" /\ me[t].outer.ok

Ends ==
  /\ active \in {0, session} /\ (\A t \in Threads : Shape(t))
  /\ FreezeEndsSession

\* t moves, and will end a frozen session if it was about to.
Carries(t) ==
  /\ Moves(t) /\ Shape(t)' /\ session' = session /\ active' \in {active, 0}
  /\ state' = "Frozen" => state = "Frozen" \/ active' = 0 \/ WillEnd(t)'
  /\ WillEnd(t) /\ state = "Frozen" /\ active # 0 => WillEnd(t)' \/ active' = 0 \/ state' # "Frozen"

LEMMA CarriesEnds ==
  ASSUME NEW t \in Threads, Ends, Carries(t)
  PROVE  Ends'
<1>1. ASSUME NEW u \in Threads PROVE Shape(u)'
  BY DEF Ends, Carries, Shape, Moves, Below
<1>2. ASSUME state' = "Frozen", active' # 0 PROVE \E u \in Threads : WillEnd(u)'
  <2>1. CASE state # "Frozen"
    BY <1>2, <2>1 DEF Carries
  <2>2. CASE state = "Frozen"
    <3>1. PICK u \in Threads : WillEnd(u)
      BY <1>2, <2>2 DEF Carries, Ends, FreezeEndsSession
    <3>2. CASE u = t
      BY <1>2, <2>2, <3>1, <3>2 DEF Carries
    <3>3. CASE u # t
      BY <3>1, <3>3 DEF Carries, Moves, WillEnd, At
    <3>. QED
      BY <3>2, <3>3
  <2>. QED
    BY <2>1, <2>2
<1>. QED
  BY <1>1, <1>2 DEF Ends, Carries, FreezeEndsSession

LEMMA ReturnCarries ==
  ASSUME NEW t \in Threads, Inv, Life, Ends, Returns(t),
         UNCHANGED <<state, session>>,
         \/ pc[t] = "gate" /\ active # me[t].tok /\ active' = active
         \/ pc[t] = "cut" /\ active' = 0
         \/ pc[t] = "look" /\ state # "Frozen" /\ active' = active
  PROVE  Carries(t)
<1>1. /\ pc \in [Threads -> Labels] /\ DOMAIN me = Threads /\ Local(t) /\ Nested(t) /\ Shape(t)
      /\ active \in {0, session}
  BY DEF Inv, Typed, Ends
<1>2. /\ Fresh.kind = "Event" /\ Fresh.back = "exit" /\ Fresh.window # 0
  BY RingAssumption DEF Fresh
<1>3. CASE ~Below(t)
  <2>1. me' = [me EXCEPT ![t] = Fresh] /\ pc' = [pc EXCEPT ![t] = "idle"]
    BY <1>1, <1>3 DEF Returns, Go, Local, Below
  <2>2. Moves(t) /\ me'[t] = Fresh /\ pc'[t] = "idle"
    BY <1>1, <2>1 DEF Moves
  <2>. QED
    BY <1>1, <1>2, <1>3, <2>2 DEF Carries, Shape, Below, WillEnd, At, Freezing
<1>4. CASE Below(t)
  <2>1. me' = [me EXCEPT ![t] = me[t].outer] /\ pc' = [pc EXCEPT ![t] = me[t].home]
    BY <1>1, <1>4 DEF Returns, Go, Below
  <2>2. Moves(t) /\ me'[t] = me[t].outer /\ pc'[t] = me[t].home
    BY <1>1, <2>1 DEF Moves
  <2>3. me[t].outer.kind # "Terminal" /\ me[t].home \in {"unhook", "finish", "header"}
    BY <1>1, <1>4 DEF Local, Nested, Below
  <2>4. Shape(t)'
    BY <1>1, <1>4, <2>2, <2>3 DEF Shape, Below, Freezing
  <2>. QED
    BY <1>1, <1>4, <2>2, <2>4 DEF Carries, Shape, Below
<1>. QED
  BY <1>3, <1>4

LEMMA AppendCarries ==
  ASSUME NEW t \in Threads, Inv, Life, Ends,
         \/ Enter(t) \/ Check(t) \/ Reserve(t) \/ Place(t) \/ Claim(t) \/ Write(t)
         \/ (\E end \in BOOLEAN : Accept(t, end)) \/ Exit(t)
  PROVE  Carries(t)
<1>1. /\ DOMAIN me = Threads /\ DOMAIN pc = Threads /\ DOMAIN me[t] = Fields /\ Shape(t)
      /\ pc[t] \notin Freezing \cup {"texit"} => me[t].back # "texit"
  BY DEF Inv, Typed, Ends, Shape
<1>2. /\ DOMAIN Spent(t) = Fields /\ Spent(t).tok = me[t].tok /\ Spent(t).kind = me[t].kind
      /\ Spent(t).outer = me[t].outer /\ Spent(t).home = me[t].home
      /\ Spent(t).back = me[t].back /\ Spent(t).window = me[t].window
  BY <1>1 DEF Spent, Fields
<1>. USE <1>1, <1>2 DEF Go, Goes, At, Carries, Shape, WillEnd, Moves, Below, Freezing, life, gate
<1>3. CASE Enter(t)
  BY <1>3 DEF Enter
<1>4. CASE Check(t)
  BY <1>4 DEF Check
<1>5. CASE Reserve(t)
  BY <1>5 DEF Reserve, Fields
<1>6. CASE Place(t)
  BY <1>6 DEF Place, Fields
<1>7. CASE Claim(t)
  BY <1>7 DEF Claim
<1>8. CASE Write(t)
  BY <1>8 DEF Write
<1>9. ASSUME NEW end \in BOOLEAN, Accept(t, end) PROVE Carries(t)
  BY <1>9 DEF Accept, Fields
<1>10. CASE Exit(t)
  BY <1>10 DEF Exit
<1>. QED
  BY <1>3, <1>4, <1>5, <1>6, <1>7, <1>8, <1>9, <1>10

LEMMA TriggerCarries ==
  ASSUME NEW t \in Threads, Inv, Life, Ends,
         TriggerEnter(t) \/ TriggerClaim(t) \/ TriggerStore(t) \/ TriggerState(t) \/ TriggerExit(t)
  PROVE  Carries(t)
<1>1. /\ DOMAIN me = Threads /\ DOMAIN pc = Threads /\ DOMAIN me[t] = Fields /\ Shape(t)
      /\ active \in {0, session}
  BY DEF Inv, Typed, Ends
<1>. USE <1>1 DEF Go, Goes, At, Carries, Shape, WillEnd, Moves, Below, Freezing, life, gate
<1>2. CASE TriggerEnter(t)
  BY <1>2 DEF TriggerEnter
<1>3. CASE TriggerClaim(t)
  BY <1>3 DEF TriggerClaim, Fields
<1>4. CASE TriggerStore(t)
  BY <1>4 DEF TriggerStore, Fields
<1>5. CASE TriggerState(t)
  BY <1>5 DEF TriggerState, Fields
<1>6. CASE TriggerExit(t)
  BY <1>6 DEF TriggerExit, Fields
<1>. QED
  BY <1>2, <1>3, <1>4, <1>5, <1>6

LEMMA FreezeCarries ==
  ASSUME NEW t \in Threads, Inv, Life, Ends, Freeze(t) \/ Hook(t) \/ Unhook(t) \/ Stop(t)
  PROVE  Carries(t)
<1>1. /\ DOMAIN me = Threads /\ DOMAIN pc = Threads /\ DOMAIN me[t] = Fields /\ Shape(t)
      /\ active \in {0, session} /\ me[t].back \in {"exit", "texit", "leave"}
  BY DEF Inv, Typed, Ends, Local
<1>. USE <1>1 DEF Go, Goes, At, Carries, Shape, WillEnd, Moves, Below, Freezing, life, gate
<1>2. CASE Freeze(t)
  BY <1>2 DEF Freeze
<1>3. CASE Hook(t)
  <2>1. CASE open /\ active # 0
    <3>1. PICK f : /\ f = [Fresh EXCEPT !.tok = active, !.kind = "Terminal",
                                         !.home = "unhook", !.outer = me[t]]
                   /\ me' = [me EXCEPT ![t] = f] /\ pc' = [pc EXCEPT ![t] = "gate"]
      BY <1>3, <2>1 DEF Hook, CloseWindow
    <3>2. /\ f.tok = active /\ f.outer = me[t] /\ f.kind = "Terminal" /\ f.home = "unhook"
          /\ f.back = "exit" /\ f.window # 0
      BY <3>1, RingAssumption DEF Fresh
    <3>3. me'[t] = f /\ pc'[t] = "gate" /\ Moves(t) /\ pc[t] = "hook"
          /\ session' = session /\ active' = active /\ state' = state
      BY <1>3, <3>1 DEF Hook, CloseWindow
    <3>. QED
      BY <2>1, <3>2, <3>3
  <2>2. CASE ~(open /\ active # 0)
    BY <1>3, <2>2 DEF Hook, CloseWindow
  <2>. QED
    BY <2>1, <2>2
<1>4. CASE Unhook(t)
  BY <1>4 DEF Unhook
<1>5. CASE Stop(t)
  BY <1>5 DEF Stop
<1>. QED
  BY <1>2, <1>3, <1>4, <1>5

LEMMA ThreadCarries ==
  ASSUME NEW t \in Threads, Inv, Life, Ends, ThreadStep(t)
  PROVE  Carries(t)
<1>1. /\ DOMAIN me = Threads /\ DOMAIN pc = Threads /\ DOMAIN me[t] = Fields /\ Shape(t)
      /\ active \in {0, session}
  BY DEF Inv, Typed, Ends
<1>2. CASE Gate(t)
  <2>1. CASE active # me[t].tok
    BY <1>2, <2>1, ReturnCarries DEF Gate, At, life, gate
  <2>2. CASE active = me[t].tok
    BY <1>1, <1>2, <2>2 DEF Gate, Go, At, Carries, Shape, WillEnd, Moves, Below, Freezing, life,
       gate
  <2>. QED
    BY <2>1, <2>2
<1>3. CASE Cut(t)
  BY <1>3, ReturnCarries DEF Cut, At, life
<1>4. CASE Take(t)
  BY <1>1, <1>4 DEF Take, Go, At, Carries, Shape, WillEnd, Moves, Below, Freezing, life
<1>5. CASE Look(t)
  <2>1. CASE state # "Frozen"
    BY <1>5, <2>1, ReturnCarries DEF Look, At, life, gate
  <2>2. CASE state = "Frozen"
    BY <1>1, <1>5, <2>2 DEF Look, Go, At, Carries, Shape, WillEnd, Moves, Below, Freezing,
       life, gate
  <2>. QED
    BY <2>1, <2>2
<1>. QED
  BY <1>2, <1>3, <1>4, <1>5, AppendCarries, TriggerCarries, FreezeCarries DEF ThreadStep

LEMMA CaptureCarries ==
  ASSUME Inv, Life, Ends, NEW p \in Producers, Capture(p)
  PROVE  p \in Threads /\ Carries(p)
<1>1. p \in Threads /\ p # Ctl /\ DOMAIN me = Threads /\ DOMAIN pc = Threads
  BY RingAssumption DEF Threads, Inv, Typed
<1>2. PICK f : /\ f.kind = "Event" /\ f.back = "exit" /\ f.window # 0
               /\ me' = [me EXCEPT ![p] = f] /\ pc' = [pc EXCEPT ![p] = "gate"]
  <2>1. PICK f : f = [Fresh EXCEPT !.tok = active]
    OBVIOUS
  <2>2. f.kind = "Event" /\ f.back = "exit" /\ f.window = Window /\ Window # 0
    BY <2>1, RingAssumption DEF Fresh
  <2>. QED
    BY <2>1, <2>2 DEF Capture, Goes, Go
<1>3. ~Below(p)
  BY <1>1 DEF Capture, Goes, At, Inv, Local, ThreadLabels
<1>. QED
  BY <1>1, <1>2, <1>3 DEF Capture, Goes, At, Carries, Shape, WillEnd, Moves, Below, Freezing,
     life, gate

LEMMA ControlCarries ==
  ASSUME Inv, Life, Ends,
         \/ \E w \in Windows : ControlTrigger(w)
         \/ ControlFreeze \/ Finish \/ ControlExport \/ CloseForExport \/ Header
         \/ HeaderEvicted \/ HeaderDone \/ Scan \/ Visit \/ ControlDiscard \/ ControlStatus
         \/ Leave
  PROVE  Ctl \in Threads /\ Carries(Ctl)
<1>1. pc[Ctl] \in ControlLabels \cup {"idle"}
  BY DEF ControlTrigger, ControlFreeze, Finish, ControlExport, CloseForExport, Header,
     HeaderEvicted, HeaderDone, Scan, Visit, ControlDiscard, ControlStatus, Leave, Goes, At,
     ControlLabels
<1>2. /\ Ctl \in Threads /\ me[Ctl].kind # "Terminal" /\ DOMAIN me = Threads
      /\ DOMAIN pc = Threads /\ DOMAIN me[Ctl] = Fields /\ Shape(Ctl)
      /\ active \in {0, session}
  BY <1>1, ControlBetween DEF Inv, Typed, Ends, Below
<1>3. me[Ctl].back # "texit"
  BY <1>1, <1>2 DEF Shape, ControlLabels, Freezing
<1>4. /\ Fresh.kind = "Event" /\ Fresh.back = "exit" /\ Fresh.window # 0 /\ DOMAIN Fresh = Fields
  BY RingAssumption, FreshFrame DEF Fresh
<1>. USE <1>1, <1>2, <1>3, <1>4 DEF Goes, At, Go, Carries, Shape, WillEnd, Moves, Below, Freezing,
                                    ControlLabels, Recording, life, gate
<1>5. ASSUME NEW w \in Windows, ControlTrigger(w) PROVE Carries(Ctl)
  BY <1>5 DEF ControlTrigger, Fields
<1>6. CASE HeaderEvicted \/ HeaderDone
  BY <1>6 DEF HeaderEvicted, HeaderDone
<1>7. CASE Finish
  BY <1>7 DEF Finish, Fields
<1>8. CASE ControlExport
  BY <1>8 DEF ControlExport, Fields
<1>9. CASE Header
  BY <1>9 DEF Header
<1>10. CASE Scan \/ Visit
  BY <1>10 DEF Scan, Visit
<1>11. CASE ControlDiscard
  BY <1>11 DEF ControlDiscard
<1>12. CASE ControlStatus
  BY <1>12 DEF ControlStatus, CloseGate
<1>13. CASE Leave
  BY <1>13 DEF Leave, CloseGate
<1>14. CASE ControlFreeze \/ CloseForExport
  <2>1. PICK next \in {"finish", "header"} :
          pc[Ctl] \in {"idle", "closing"} /\ CloseWindow(Ctl, next)
    BY <1>14 DEF ControlFreeze, CloseForExport
  <2>2. CASE open /\ active # 0
    <3>1. PICK f : /\ f = [Fresh EXCEPT !.tok = active, !.kind = "Terminal",
                                         !.home = next, !.outer = me[Ctl]]
                   /\ me' = [me EXCEPT ![Ctl] = f] /\ pc' = [pc EXCEPT ![Ctl] = "gate"]
      BY <2>1, <2>2 DEF CloseWindow
    <3>2. /\ f.tok = active /\ f.outer = me[Ctl] /\ f.kind = "Terminal" /\ f.home = next
          /\ f.back = "exit" /\ f.window # 0
      BY <3>1, RingAssumption DEF Fresh
    <3>3. me'[Ctl] = f /\ pc'[Ctl] = "gate" /\ Moves(Ctl)
          /\ session' = session /\ active' = active /\ state' = state
      BY <2>1, <3>1 DEF CloseWindow
    <3>. QED
      BY <2>2, <3>2, <3>3
  <2>3. CASE ~(open /\ active # 0)
    BY <2>1, <2>3 DEF CloseWindow
  <2>. QED
    BY <2>2, <2>3
<1>. QED
  BY <1>5, <1>6, <1>7, <1>8, <1>9, <1>10, <1>11, <1>12, <1>13, <1>14

LEMMA ArmEnds ==
  ASSUME Inv, Life, Ends, ArmStorage \/ ArmOpen \/ ArmPublish \/ Free
  PROVE  Ends'
<1>1. /\ Ctl \in Threads /\ Moves(Ctl) /\ me' = me /\ pc[Ctl] # "leave"
      /\ pc'[Ctl] \notin {"tstore", "tstate"}
      /\ pc[Ctl] \in ControlLabels \cup {"idle"} /\ me[Ctl].back # "texit"
  BY FiniteThreads
     DEF ArmStorage, ArmOpen, ArmPublish, Free, Goes, At, Go, Inv, Typed, Moves, Ends, Shape,
         Freezing, ControlLabels
<1>2. Calm
  BY DEF ArmStorage, ArmOpen, ArmPublish, Free, Goes, At, Life, Phases, Inv, Quiet
<1>3. ASSUME NEW u \in Threads PROVE Shape(u)'
  BY <1>1, <1>2, <1>3 DEF Ends, Shape, Moves, Below, Calm, Freezing
<1>4. state' # "Frozen" /\ active' \in {0, session'}
  BY <1>1 DEF ArmStorage, ArmOpen, ArmPublish, Free, Goes, At, Go, life, gate, Life, Phases,
     Ends, Inv, Quiet
<1>. QED
  BY <1>3, <1>4 DEF Ends, FreezeEndsSession

LEMMA InitEnds == Init => Ends
<1>1. SUFFICES ASSUME Init PROVE Ends
  OBVIOUS
<1>2. ASSUME NEW t \in Threads PROVE Shape(t)
  BY <1>1, RingAssumption DEF Init, Shape, Below, Fresh
<1>. QED
  BY <1>1, <1>2 DEF Init, Ends, FreezeEndsSession

LEMMA NextEnds == Inv /\ Life /\ Ends /\ [Next]_vars => Ends'
<1>. SUFFICES ASSUME Inv, Life, Ends, [Next]_vars PROVE Ends'
  OBVIOUS
<1>1. ASSUME NEW p \in Producers, Capture(p) PROVE Ends'
  BY <1>1, CaptureCarries, CarriesEnds
<1>2. ASSUME NEW t \in Threads, ThreadStep(t) PROVE Ends'
  BY <1>2, ThreadCarries, CarriesEnds
<1>3. CASE RequestLoad \/ RequestStore \/ UNCHANGED vars
  <2>1. UNCHANGED <<state, session, active, pc, me>>
    BY <1>3 DEF RequestLoad, RequestStore, vars, life, gate, store, trigger, object
  <2>. QED
    BY <2>1 DEF Ends, Shape, Below, FreezeEndsSession, WillEnd, At
<1>4. CASE ArmStorage \/ ArmOpen \/ ArmPublish \/ Free
  BY <1>4, ArmEnds
<1>5. CASE \/ \E w \in Windows : ControlTrigger(w)
           \/ ControlFreeze \/ Finish \/ ControlExport \/ CloseForExport \/ Header
           \/ HeaderEvicted \/ HeaderDone \/ Scan \/ Visit \/ ControlDiscard \/ ControlStatus
           \/ Leave
  BY <1>5, ControlCarries, CarriesEnds
<1>. QED
  BY <1>1, <1>2, <1>3, <1>4, <1>5 DEF Next, ControlStep, Threads

\* As long as the gate of a frozen ring is open, some thread on its way out of
\* append or of its command will shut it, however many producers there are and
\* however the hook's terminals, stale sessions and triggers interleave.
THEOREM FreezeEnds == Spec => []FreezeEndsSession
<1>1. Ends => FreezeEndsSession
  BY DEF Ends
<1>. QED
  BY InitInv, NextInv, InitLife, NextLife, InitEnds, NextEnds, <1>1, PTL DEF Spec

-----------------------------------------------------------------------------
(* An export accounts for every event.                                     *)

CellFields == {"busy", "seq", "tok"}

\* Types of the storage, as far as the count of its events needs them.
Stored ==
  /\ reserved \in Nat /\ accepted \in Nat /\ evicted \in Nat /\ trig \in Nat
  /\ DOMAIN cells = 0 .. Capacity - 1
  /\ \A i \in DOMAIN cells : DOMAIN cells[i] = CellFields /\ cells[i].seq \in Nat

\* A writer's ticket and cell exist, and it writes for the session of the ring.
Holds(t) ==
  /\ me[t].at \in Nat
  /\ pc[t] \in {"place", "claim", "write"} => me[t].seq \in Nat \ {0}
  /\ pc[t] \in {"claim", "write", "accept"} => me[t].at \in 0 .. Capacity - 1
  /\ pc[t] \in Touching => me[t].tok = session
  /\ Below(t) => me[t].outer.at \in Nat

Accepting == {t \in Threads : pc[t] = "accept"}

InUse == state # "Idle" \/ At(Ctl, "arm")

\* An event in its cell has been counted, or its writer is about to count it.
Balance ==
  InUse => evicted + Cardinality(Occupied) = accepted + Cardinality(Accepting)

OwnEvents == InUse => \A i \in Occupied : cells[i].tok = session

HeadLabels == {"evicted", "shut", "scan", "visit"}

\* An export that began on a drained ring, from there to the last event exported.
Exports(t) ==
  \/ pc[t] \in {"closing", "header"} /\ me[t].kind = "Drained"
  \/ Below(t) /\ me[t].home = "header" /\ me[t].outer.kind = "Drained"
  \/ pc[t] \in HeadLabels /\ head.drained

\* Nothing is counted any more once such an export has begun.
Headed ==
  /\ pc[Ctl] \in HeadLabels => DOMAIN head = {"accepted", "evicted", "drained"}
  /\ Exports(Ctl) =>
       /\ state = "Frozen" /\ \A t \in Threads : pc[t] \notin Touching
       /\ pc[Ctl] \in HeadLabels => head.accepted = accepted
       /\ pc[Ctl] \in HeadLabels \ {"evicted"} => head.evicted = evicted

Books == Stored /\ (\A t \in Threads : Holds(t)) /\ Balance /\ OwnEvents /\ Headed

-----------------------------------------------------------------------------
(* Counting.                                                               *)

LEMMA Countable ==
  ASSUME Stored
  PROVE  IsFiniteSet(Occupied) /\ Cardinality(Occupied) \in Nat
<1>1. IsFiniteSet(0 .. Capacity - 1)
  BY RingAssumption, FS_Interval
<1>2. Occupied \subseteq 0 .. Capacity - 1
  BY DEF Occupied, Stored
<1>. QED
  BY <1>1, <1>2, FS_Subset, FS_CardinalityType

\* Only flags of cells change.
Resealed ==
  /\ DOMAIN cells' = DOMAIN cells
  /\ \A i \in DOMAIN cells : /\ DOMAIN cells'[i] = CellFields
                            /\ cells'[i].seq = cells[i].seq /\ cells'[i].tok = cells[i].tok

Counts(t) ==
  /\ pc[t] = "accept" /\ pc'[t] # "accept" /\ Resealed
  /\ accepted' = accepted + 1 /\ evicted' = evicted

Fills(t) ==
  /\ pc[t] = "write" /\ pc'[t] = "accept" /\ accepted' = accepted
  /\ \E i \in DOMAIN cells :
       /\ cells' = [cells EXCEPT ![i] = [busy |-> TRUE, seq |-> me[t].seq, tok |-> me[t].tok]]
       /\ evicted' = evicted + (IF cells[i].seq = 0 THEN 0 ELSE 1)
       /\ cells[i].seq < me[t].seq

Leaves(t) ==
  /\ pc[t] # "accept" /\ pc'[t] # "accept" /\ Resealed
  /\ accepted' = accepted /\ evicted' = evicted

\* What a step inside Record, trigger, append or freeze does to the books.
Turn(t) ==
  /\ Holds(t)' /\ head' = head /\ reserved' \in Nat /\ trig' \in Nat
  /\ Leaves(t) \/ Counts(t) \/ Fills(t)
  /\ Exports(t)' => Exports(t)
  /\ pc'[t] \notin HeadLabels

LEMMA AcceptingStep ==
  ASSUME NEW t \in Threads, Moves(t)
  PROVE  /\ Cardinality(Accepting') = Cardinality(Accepting) + One(pc'[t] = "accept")
                                       - One(pc[t] = "accept")
         /\ Cardinality(Accepting) \in Nat /\ Cardinality(Accepting') \in Nat
<1>1. Accepting \ {t} = Accepting' \ {t} /\ Accepting \subseteq Threads /\ Accepting' \subseteq Threads
  BY DEF Accepting, Moves
<1>2. (t \in Accepting <=> pc[t] = "accept") /\ (t \in Accepting' <=> pc'[t] = "accept")
  BY DEF Accepting
<1>. HIDE DEF Accepting
<1>3. /\ Cardinality(Accepting') = Cardinality(Accepting) + One(t \in Accepting')
                                    - One(t \in Accepting)
      /\ Cardinality(Accepting) \in Nat /\ Cardinality(Accepting') \in Nat
  BY <1>1, Recount
<1>. QED
  BY <1>2, <1>3 DEF One

\* A filled cell was free, or its old event is evicted.
LEMMA FilledStep ==
  ASSUME NEW t \in Threads, Stored, Holds(t), Fills(t)
  PROVE  /\ evicted' + Cardinality(Occupied') = evicted + Cardinality(Occupied) + 1
         /\ evicted' \in Nat /\ DOMAIN cells' = DOMAIN cells
         /\ \A i \in DOMAIN cells : DOMAIN cells'[i] = CellFields /\ cells'[i].seq \in Nat
         /\ \A i \in Occupied' :
                 \/ i \in Occupied /\ cells'[i].tok = cells[i].tok
                 \/ cells'[i].tok = me[t].tok
<1>1. PICK i \in DOMAIN cells :
        /\ cells' = [cells EXCEPT ![i] = [busy |-> TRUE, seq |-> me[t].seq, tok |-> me[t].tok]]
        /\ evicted' = evicted + (IF cells[i].seq = 0 THEN 0 ELSE 1)
  BY DEF Fills
<1>2. me[t].seq \in Nat \ {0} /\ evicted \in Nat
  BY DEF Holds, Fills, Stored
<1>3. Occupied' = Occupied \cup {i}
  BY <1>1, <1>2 DEF Occupied
<1>4. IsFiniteSet(Occupied) /\ Cardinality(Occupied) \in Nat
  BY Countable
<1>5. /\ \A j \in Occupied' :
              \/ j \in Occupied /\ cells'[j].tok = cells[j].tok
              \/ cells'[j].tok = me[t].tok
      /\ \A j \in DOMAIN cells : DOMAIN cells'[j] = CellFields /\ cells'[j].seq \in Nat
  BY <1>1, <1>2 DEF Occupied, Stored, CellFields
<1>6. evicted' + Cardinality(Occupied') = evicted + Cardinality(Occupied) + 1 /\ evicted' \in Nat
  <2>1. CASE cells[i].seq = 0
    <3>1. i \notin Occupied /\ evicted' = evicted
      BY <1>1, <1>2, <2>1 DEF Occupied
    <3>2. Cardinality(Occupied') = Cardinality(Occupied) + 1
      BY <1>3, <1>4, <3>1, FS_AddElement
    <3>. QED
      BY <1>2, <1>4, <3>1, <3>2
  <2>2. CASE cells[i].seq # 0
    <3>1. Occupied' = Occupied /\ evicted' = evicted + 1
      BY <1>1, <1>3, <2>2 DEF Occupied
    <3>. QED
      BY <1>2, <1>4, <3>1
  <2>. QED
    BY <2>1, <2>2
<1>. QED
  BY <1>1, <1>5, <1>6

\* Nothing is added or removed by setting flags.
LEMMA ResealedStep ==
  ASSUME Stored, Resealed
  PROVE  /\ Occupied' = Occupied /\ \A i \in Occupied : cells'[i].tok = cells[i].tok
         /\ \A i \in DOMAIN cells : DOMAIN cells'[i] = CellFields /\ cells'[i].seq \in Nat
BY DEF Stored, Resealed, Occupied

LEMMA TurnKeepsBooks ==
  ASSUME NEW t \in Threads, Inv, Life, Books, Effect(t), Turn(t)
  PROVE  Books'
<1>1. /\ Moves(t) /\ session' = session /\ Stored /\ Holds(t)
      /\ InUse' => InUse
  <2>1. state = "Idle" => state' = "Idle"
    BY DEF Effect, Life, Phases, Calm, Freezing
  <2>2. At(Ctl, "arm")' => At(Ctl, "arm")
    BY FiniteThreads DEF Effect, Moves, At
  <2>. QED
    BY <2>1, <2>2 DEF Effect, Books, InUse
<1>2. /\ Cardinality(Accepting') = Cardinality(Accepting) + One(pc'[t] = "accept")
                                    - One(pc[t] = "accept")
      /\ Cardinality(Accepting) \in Nat /\ Cardinality(Accepting') \in Nat
  BY <1>1, AcceptingStep
<1>3. accepted \in Nat /\ evicted \in Nat /\ Cardinality(Occupied) \in Nat
  BY <1>1, Countable DEF Stored
<1>4. Stored'
  <2>1. reserved' \in Nat /\ trig' \in Nat /\ accepted' \in Nat
    BY <1>3 DEF Turn, Leaves, Counts, Fills
  <2>2. /\ evicted' \in Nat /\ DOMAIN cells' = DOMAIN cells
        /\ \A i \in DOMAIN cells : DOMAIN cells'[i] = CellFields /\ cells'[i].seq \in Nat
    BY <1>1, <1>3, FilledStep, ResealedStep DEF Turn, Leaves, Counts, Resealed
  <2>. QED
    BY <1>1, <2>1, <2>2 DEF Stored
<1>5. ASSUME NEW u \in Threads PROVE Holds(u)'
  BY <1>1 DEF Books, Turn, Holds, Moves, Below
<1>6. Balance' /\ OwnEvents'
  <2>1. CASE Leaves(t) \/ Counts(t)
    <3>1. Occupied' = Occupied /\ \A i \in Occupied : cells'[i].tok = cells[i].tok
      BY <1>1, <2>1, ResealedStep DEF Leaves, Counts
    <3>2. evicted' = evicted /\ accepted' + Cardinality(Accepting') = accepted + Cardinality(Accepting)
      BY <1>2, <1>3, <2>1 DEF Leaves, Counts, One
    <3>. QED
      BY <1>1, <3>1, <3>2 DEF Books, Balance, OwnEvents
  <2>2. CASE Fills(t)
    <3>1. me[t].tok = session
      BY <1>1, <2>2 DEF Fills, Holds, Touching
    <3>2. accepted' + Cardinality(Accepting') = accepted + Cardinality(Accepting) + 1
      BY <1>2, <1>3, <2>2 DEF Fills, One
    <3>3. /\ evicted' + Cardinality(Occupied') = evicted + Cardinality(Occupied) + 1
          /\ \A i \in Occupied' :
                  \/ i \in Occupied /\ cells'[i].tok = cells[i].tok
                  \/ cells'[i].tok = me[t].tok
      BY <1>1, <2>2, FilledStep
    <3>. QED
      BY <1>1, <3>1, <3>2, <3>3 DEF Books, Balance, OwnEvents
  <2>. QED
    BY <2>1, <2>2 DEF Turn
<1>7. Headed'
  <2>1. /\ Exports(Ctl)' => Exports(Ctl)
        /\ pc'[Ctl] \in HeadLabels => pc[Ctl] = pc'[Ctl]
        /\ head' = head
    BY <1>1, FiniteThreads DEF Turn, Moves, Exports, Below
  <2>2. SUFFICES ASSUME Exports(Ctl)' PROVE Headed'
    BY <2>1 DEF Books, Headed
  <2>3. state = "Frozen" /\ \A u \in Threads : pc[u] \notin Touching
    BY <2>1, <2>2 DEF Books, Headed
  <2>4. state' = "Frozen" /\ \A u \in Threads : pc'[u] \notin Touching
    BY <1>1, <2>3 DEF Effect, Moves, Active
  <2>5. accepted' = accepted /\ evicted' = evicted
    BY <2>3 DEF Turn, Leaves, Counts, Fills, Touching
  <2>. QED
    BY <2>1, <2>2, <2>4, <2>5 DEF Books, Headed
<1>. QED
  BY <1>4, <1>5, <1>6, <1>7 DEF Books

-----------------------------------------------------------------------------
(* Every step of a thread is such a turn.                                  *)

LEMMA SameCells == Stored /\ cells' = cells => Resealed
BY DEF Stored, Resealed

LEMMA FreshTurn == Fresh.at = 0 /\ Fresh.kind = "Event" /\ Fresh.home = "idle"
BY DEF Fresh

LEMMA ReturnTurn ==
  ASSUME NEW t \in Threads, Inv, Books, Returns(t), pc[t] \in {"gate", "look", "cut"},
         UNCHANGED <<store, trigger, head, session>>
  PROVE  Turn(t)
<1>1. /\ pc \in [Threads -> Labels] /\ DOMAIN me = Threads /\ Local(t) /\ Nested(t) /\ Holds(t)
      /\ Resealed /\ reserved \in Nat /\ trig \in Nat
  BY SameCells DEF Inv, Typed, Books, Stored, store
<1>2. CASE ~Below(t)
  <2>1. me' = [me EXCEPT ![t] = Fresh] /\ pc' = [pc EXCEPT ![t] = "idle"]
    BY <1>1, <1>2 DEF Returns, Go, Local, Below
  <2>2. me'[t] = Fresh /\ pc'[t] = "idle"
    BY <1>1, <2>1
  <2>. QED
    BY <1>1, <2>2, FreshTurn DEF Turn, Leaves, Holds, Exports, HeadLabels, Below, Touching, store,
       trigger
<1>3. CASE Below(t)
  <2>1. me' = [me EXCEPT ![t] = me[t].outer] /\ pc' = [pc EXCEPT ![t] = me[t].home]
    BY <1>1, <1>3 DEF Returns, Go, Below
  <2>2. me'[t] = me[t].outer /\ pc'[t] = me[t].home
    BY <1>1, <2>1
  <2>3. /\ me[t].outer.kind # "Terminal" /\ me[t].outer.at \in Nat
        /\ me[t].home \in {"unhook", "finish", "header"}
    BY <1>1, <1>3 DEF Local, Nested, Below, Holds
  <2>. QED
    BY <1>1, <1>3, <2>2, <2>3 DEF Turn, Leaves, Holds, Exports, HeadLabels, Below, Touching, store,
       trigger
<1>. QED
  BY <1>2, <1>3

LEMMA CellRange ==
  ASSUME Stored, NEW seq \in Nat \ {0}, Cell(seq) < Capacity
  PROVE  Cell(seq) \in 0 .. Capacity - 1
<1>1. Pre \in Nat \ {0} /\ trig \in Nat /\ Capacity \in Nat
  BY RingAssumption DEF Pre, Stored
<1>2. CASE After(seq)
  BY <1>1, <1>2 DEF Cell, After
<1>3. CASE ~After(seq)
  <2>1. (seq - 1) % Pre \in 0 .. Pre - 1
    BY <1>1
  <2>. QED
    BY <1>1, <1>3, <2>1 DEF Cell
<1>. QED
  BY <1>2, <1>3

LEMMA AppendTurn ==
  ASSUME NEW t \in Threads, Inv, Books,
         \/ Enter(t) \/ Check(t) \/ Reserve(t) \/ Place(t) \/ Claim(t) \/ Write(t)
         \/ (\E end \in BOOLEAN : Accept(t, end)) \/ Exit(t)
  PROVE  Turn(t)
<1>1. /\ DOMAIN pc = Threads /\ DOMAIN me = Threads /\ DOMAIN me[t] = Fields /\ Holds(t)
      /\ reserved \in Nat /\ trig \in Nat /\ Stored /\ (cells' = cells => Resealed)
      /\ DOMAIN cells = 0 .. Capacity - 1
  BY SameCells DEF Inv, Typed, Books, Stored
<1>2. /\ DOMAIN Spent(t) = Fields /\ Spent(t).tok = me[t].tok /\ Spent(t).kind = me[t].kind
      /\ Spent(t).outer = me[t].outer /\ Spent(t).home = me[t].home /\ Spent(t).at = 0
  BY <1>1 DEF Spent, Fields
<1>3. ASSUME NEW i \in DOMAIN cells, NEW b, cells' = [cells EXCEPT ![i].busy = b]
      PROVE  Resealed
  BY <1>1, <1>3 DEF Stored, Resealed, CellFields
<1>. USE <1>1, <1>2 DEF Go, Goes, At, Turn, Leaves, Holds, Exports, HeadLabels, Below,
                        Touching, life, store, trigger
<1>4. CASE Enter(t)
  BY <1>4 DEF Enter
<1>5. CASE Check(t)
  BY <1>5 DEF Check
<1>6. CASE Reserve(t)
  BY <1>6 DEF Reserve, Fields
<1>7. CASE Place(t)
  BY <1>7, CellRange DEF Place, Fields
<1>8. CASE Claim(t)
  BY <1>3, <1>8 DEF Claim
<1>9. CASE Write(t)
  <2>1. CASE Outlapped(t)
    BY <1>3, <1>9, <2>1 DEF Write
  <2>2. CASE ~Outlapped(t)
    <3>1. cells[me[t].at].seq < me[t].seq
      BY <1>9, <2>2 DEF Write, Outlapped, Stored
    <3>. QED
      BY <1>9, <2>2, <3>1 DEF Write, Fills
  <2>. QED
    BY <2>1, <2>2
<1>10. ASSUME NEW end \in BOOLEAN, Accept(t, end) PROVE Turn(t)
  <2>1. Counts(t)
    BY <1>3, <1>10 DEF Accept, Counts
  <2>. QED
    BY <1>10, <2>1 DEF Accept, Fields
<1>11. CASE Exit(t)
  BY <1>11 DEF Exit
<1>. QED
  BY <1>4, <1>5, <1>6, <1>7, <1>8, <1>9, <1>10, <1>11

LEMMA TriggerTurn ==
  ASSUME NEW t \in Threads, Inv, Books,
         TriggerEnter(t) \/ TriggerClaim(t) \/ TriggerStore(t) \/ TriggerState(t) \/ TriggerExit(t)
  PROVE  Turn(t)
<1>1. /\ DOMAIN pc = Threads /\ DOMAIN me = Threads /\ DOMAIN me[t] = Fields /\ Holds(t)
      /\ reserved \in Nat /\ trig \in Nat /\ (cells' = cells => Resealed)
  BY SameCells DEF Inv, Typed, Books, Stored
<1>. USE <1>1 DEF Go, Goes, At, Turn, Leaves, Holds, Exports, HeadLabels, Below, Touching,
                  life, store, trigger
<1>2. CASE TriggerEnter(t)
  BY <1>2 DEF TriggerEnter
<1>3. CASE TriggerClaim(t)
  BY <1>3 DEF TriggerClaim, Fields
<1>4. CASE TriggerStore(t)
  BY <1>4 DEF TriggerStore, Fields
<1>5. CASE TriggerState(t)
  BY <1>5 DEF TriggerState, Fields
<1>6. CASE TriggerExit(t)
  BY <1>6 DEF TriggerExit, Fields
<1>. QED
  BY <1>2, <1>3, <1>4, <1>5, <1>6

LEMMA FreezeTurn ==
  ASSUME NEW t \in Threads, Inv, Books, Freeze(t) \/ Hook(t) \/ Unhook(t) \/ Stop(t)
  PROVE  Turn(t)
<1>1. /\ DOMAIN pc = Threads /\ DOMAIN me = Threads /\ DOMAIN me[t] = Fields /\ Holds(t)
      /\ reserved \in Nat /\ trig \in Nat /\ (cells' = cells => Resealed)
      /\ me[t].back \in {"exit", "texit", "leave"}
  BY SameCells DEF Inv, Typed, Local, Books, Stored
<1>. USE <1>1 DEF Go, Goes, At, Turn, Leaves, Holds, Exports, HeadLabels, Below, Touching,
                  life, store, trigger
<1>2. CASE Freeze(t)
  BY <1>2 DEF Freeze
<1>3. CASE Hook(t)
  <2>1. CASE open /\ active # 0
    <3>1. PICK f : /\ f = [Fresh EXCEPT !.tok = active, !.kind = "Terminal",
                                         !.home = "unhook", !.outer = me[t]]
                   /\ me' = [me EXCEPT ![t] = f] /\ pc' = [pc EXCEPT ![t] = "gate"]
      BY <1>3, <2>1 DEF Hook, CloseWindow
    <3>2. f.at = 0 /\ f.outer = me[t] /\ f.home = "unhook"
      BY <3>1 DEF Fresh
    <3>. QED
      BY <1>3, <3>1, <3>2 DEF Hook, CloseWindow
  <2>2. CASE ~(open /\ active # 0)
    BY <1>3, <2>2 DEF Hook, CloseWindow
  <2>. QED
    BY <2>1, <2>2
<1>4. CASE Unhook(t)
  BY <1>4 DEF Unhook
<1>5. CASE Stop(t)
  BY <1>5 DEF Stop
<1>. QED
  BY <1>2, <1>3, <1>4, <1>5

LEMMA ThreadTurn ==
  ASSUME NEW t \in Threads, Inv, Books, ThreadStep(t)
  PROVE  Turn(t)
<1>1. /\ DOMAIN pc = Threads /\ DOMAIN me = Threads /\ DOMAIN me[t] = Fields /\ Holds(t)
      /\ reserved \in Nat /\ trig \in Nat /\ (cells' = cells => Resealed)
  BY SameCells DEF Inv, Typed, Books, Stored
<1>2. CASE Gate(t)
  <2>1. CASE Returns(t)
    BY <1>2, <2>1, ReturnTurn DEF Gate, At, life
  <2>2. CASE ~Returns(t)
    BY <1>1, <1>2, <2>2 DEF Gate, Go, At, Turn, Leaves, Holds, Exports, HeadLabels, Below,
       Touching, life, store, trigger
  <2>. QED
    BY <2>1, <2>2
<1>3. CASE Cut(t)
  BY <1>3, ReturnTurn DEF Cut, At, life
<1>4. CASE Take(t)
  BY <1>1, <1>4 DEF Take, Go, At, Turn, Leaves, Holds, Exports, HeadLabels, Below, Touching,
     life, store, trigger
<1>5. CASE Look(t)
  <2>1. CASE Returns(t)
    BY <1>5, <2>1, ReturnTurn DEF Look, At, life
  <2>2. CASE ~Returns(t)
    BY <1>1, <1>5, <2>2 DEF Look, Go, At, Turn, Leaves, Holds, Exports, HeadLabels, Below,
       Touching, life, store, trigger
  <2>. QED
    BY <2>1, <2>2
<1>. QED
  BY <1>2, <1>3, <1>4, <1>5, AppendTurn, TriggerTurn, FreezeTurn DEF ThreadStep

-----------------------------------------------------------------------------
(* Commands leave the books alone; an arm opens new ones.                  *)

\* t is not at the cells and does not get there.
Rests(t) ==
  /\ Moves(t) /\ Holds(t)' /\ UNCHANGED <<state, session, store, trig>>
  /\ pc[t] \notin Touching \cup {"arm"} /\ pc'[t] \notin Touching \cup {"arm"}

LEMMA RestKeepsBooks ==
  ASSUME NEW t \in Threads, Inv, Books, Rests(t), Headed'
  PROVE  Books'
<1>1. Accepting' = Accepting /\ Occupied' = Occupied /\ (InUse' <=> InUse)
  BY FiniteThreads DEF Rests, Moves, Accepting, Occupied, InUse, At, Touching, store
<1>2. ASSUME NEW u \in Threads PROVE Holds(u)'
  BY DEF Books, Rests, Holds, Moves, Below
<1>3. Stored'
  BY DEF Books, Stored, Rests, store
<1>4. Balance' /\ OwnEvents'
  BY <1>1 DEF Books, Balance, OwnEvents, Rests, store
<1>. QED
  BY <1>2, <1>3, <1>4 DEF Books

LEMMA CaptureBooks ==
  ASSUME Inv, Books, NEW p \in Producers, Capture(p)
  PROVE  Books'
<1>1. p \in Threads /\ p # Ctl /\ DOMAIN me = Threads /\ DOMAIN pc = Threads
  BY RingAssumption DEF Threads, Inv, Typed
<1>2. PICK f : /\ f.at = 0 /\ f.kind = "Event"
               /\ me' = [me EXCEPT ![p] = f] /\ pc' = [pc EXCEPT ![p] = "gate"]
  BY DEF Capture, Goes, Go, Fresh
<1>3. /\ me'[p] = f /\ pc'[p] = "gate" /\ Moves(p) /\ pc[p] = "idle"
      /\ UNCHANGED <<state, session, store, trig, head>>
  BY <1>1, <1>2 DEF Capture, Goes, At, Moves, life, trigger
<1>4. Rests(p)
  BY <1>2, <1>3 DEF Rests, Holds, Below, Touching
<1>5. Headed'
  BY <1>1, <1>3, FiniteThreads DEF Books, Headed, HeadLabels, Moves, Exports, Below, Touching,
     store
<1>. QED
  BY <1>1, <1>4, <1>5, RestKeepsBooks

\* A command whose frame is not below another, on its way to no cell.
LEMMA CommandBooks ==
  ASSUME Inv, Life, Books,
         \/ \E w \in Windows : ControlTrigger(w)
         \/ Finish \/ ControlExport \/ Header \/ HeaderEvicted \/ HeaderDone \/ Scan \/ Visit
         \/ ControlDiscard \/ ControlStatus \/ Leave
  PROVE  Books'
<1>1. pc[Ctl] \in (ControlLabels \cup {"idle"}) \ {"arm"}
  BY DEF ControlTrigger, Finish, ControlExport, Header, HeaderEvicted, HeaderDone, Scan, Visit,
     ControlDiscard, ControlStatus, Leave, Goes, At, ControlLabels
<1>2. /\ Ctl \in Threads /\ ~Below(Ctl) /\ DOMAIN me = Threads /\ DOMAIN pc = Threads
      /\ DOMAIN me[Ctl] = Fields /\ Holds(Ctl) /\ Headed
  BY <1>1, ControlBetween DEF Inv, Typed, Books
<1>3. /\ me'[Ctl].at \in Nat /\ me'[Ctl].kind # "Terminal"
      /\ ControlExport => me'[Ctl].kind = IF FrozenReady THEN "Drained" ELSE "Export"
      /\ \A u \in Threads \ {Ctl} : me'[u] = me[u]
  <2>1. CASE me' = me /\ ~ControlExport
    BY <1>2, <2>1 DEF Holds, Below
  <2>2. CASE ControlExport
    <3>1. PICK f : f = [Fresh EXCEPT !.kind = IF FrozenReady THEN "Drained" ELSE "Export",
                                     !.ok = ~Recording]
      OBVIOUS
    <3>2. f.at \in Nat /\ f.kind = IF FrozenReady THEN "Drained" ELSE "Export"
      BY <3>1 DEF Fresh
    <3>3. me' = [me EXCEPT ![Ctl] = f]
      BY <2>2, <3>1 DEF ControlExport
    <3>. QED
      BY <1>2, <3>2, <3>3
  <2>3. CASE me' # me /\ ~ControlExport
    <3>1. PICK f :
            /\ me' = [me EXCEPT ![Ctl] = f]
            /\ \/ f = Fresh \/ f = [Fresh EXCEPT !.back = "leave"]
               \/ \E w \in Windows : f = [Fresh EXCEPT !.tok = session, !.kind = "Control",
                                                       !.window = w]
      BY <2>3 DEF ControlTrigger, Finish, Header, HeaderEvicted, HeaderDone, Scan, Visit,
         ControlDiscard, ControlStatus, Leave
    <3>2. f.at \in Nat /\ f.kind # "Terminal"
      <4>1. CASE f = Fresh
        BY <4>1, FreshTurn
      <4>2. CASE f = [Fresh EXCEPT !.back = "leave"]
        BY <4>2 DEF Fresh
      <4>3. ASSUME NEW w \in Windows,
                   f = [Fresh EXCEPT !.tok = session, !.kind = "Control", !.window = w]
            PROVE  f.at \in Nat /\ f.kind # "Terminal"
        BY <4>3 DEF Fresh
      <4>. QED
        BY <3>1, <4>1, <4>2, <4>3
    <3>3. me'[Ctl] = f /\ \A u \in Threads \ {Ctl} : me'[u] = me[u]
      BY <1>2, <3>1
    <3>. QED
      BY <2>3, <3>2, <3>3
  <2>. QED
    BY <2>1, <2>2, <2>3
<1>4. /\ UNCHANGED <<state, session, store, trig>> /\ Moves(Ctl)
      /\ pc'[Ctl] \in {"tclaim", "freeze", "closing", "free", "leave", "idle"} \cup HeadLabels
  BY <1>2, <1>3 DEF ControlTrigger, Finish, ControlExport, Header, HeaderEvicted, HeaderDone,
     Scan, Visit, ControlDiscard, ControlStatus, Leave, Goes, Go, At, Moves, life, trigger,
     HeadLabels
<1>5. Rests(Ctl) /\ ~Below(Ctl)'
  BY <1>1, <1>2, <1>3, <1>4 DEF Rests, Holds, Below, Touching, ControlLabels, HeadLabels
<1>6. Headed'
  <2>1. \A u \in Threads : pc[u] \notin Touching => pc'[u] \notin Touching
    BY <1>4, <1>5 DEF Moves, Rests
  <2>2. CASE ControlExport
    <3>1. pc'[Ctl] = "closing" /\ (Exports(Ctl)' => state = "Frozen" /\ writers = 0)
      BY <1>2, <1>3, <1>5, <2>2
         DEF ControlExport, FrozenReady, Goes, Go, Exports, HeadLabels, Below
    <3>2. writers = 0 => \A u \in Threads : pc[u] \notin Touching
      BY <1>1, DrainedCalm
    <3>. QED
      BY <1>4, <2>1, <3>1, <3>2 DEF Headed, HeadLabels
  <2>3. CASE Header
    <3>1. CASE state # "Frozen"
      BY <1>2, <1>5, <2>3, <3>1 DEF Header, Go, Headed, Exports, HeadLabels
    <3>2. CASE state = "Frozen"
      <4>1. PICK d : d = (me[Ctl].kind = "Drained")
        OBVIOUS
      <4>2. /\ pc[Ctl] = "header" /\ pc'[Ctl] = "evicted"
            /\ head' = [accepted |-> accepted, evicted |-> 0, drained |-> d]
        BY <1>2, <2>3, <3>2, <4>1 DEF Header, At, Go
      <4>3. /\ DOMAIN head' = {"accepted", "evicted", "drained"}
            /\ head'.accepted = accepted /\ head'.drained = d
        BY <4>2
      <4>4. Exports(Ctl)' => Exports(Ctl)
        BY <1>5, <4>1, <4>2, <4>3 DEF Exports, HeadLabels
      <4>. QED
        BY <1>2, <1>4, <2>1, <4>2, <4>3, <4>4 DEF Headed, HeadLabels, store
    <3>. QED
      BY <3>1, <3>2
  <2>4. CASE HeaderEvicted
    <3>1. /\ pc[Ctl] = "evicted" /\ pc'[Ctl] = "shut"
          /\ head' = [head EXCEPT !.evicted = evicted]
          /\ DOMAIN head = {"accepted", "evicted", "drained"}
      BY <1>2, <2>4 DEF HeaderEvicted, Goes, At, Go, Headed, HeadLabels
    <3>2. /\ DOMAIN head' = DOMAIN head /\ head'.evicted = evicted
          /\ head'.accepted = head.accepted /\ head'.drained = head.drained
      BY <3>1
    <3>3. Exports(Ctl)' => Exports(Ctl)
      BY <1>5, <3>1, <3>2 DEF Exports, HeadLabels
    <3>. QED
      BY <1>2, <1>4, <2>1, <3>1, <3>2, <3>3 DEF Headed, HeadLabels, store
  <2>5. CASE HeaderDone
    <3>1. pc[Ctl] = "shut" /\ pc'[Ctl] = "scan" /\ head' = head
      BY <1>2, <2>5 DEF HeaderDone, Goes, At, Go
    <3>2. Exports(Ctl)' => Exports(Ctl)
      BY <1>5, <3>1 DEF Exports, HeadLabels
    <3>. QED
      BY <1>2, <1>4, <2>1, <3>1, <3>2 DEF Headed, HeadLabels, store
  <2>6. CASE Scan
    <3>1. /\ pc[Ctl] = "scan"
          /\ pc'[Ctl] = "idle" \/ (pc'[Ctl] = "visit" /\ head' = head)
      BY <1>2, <2>6 DEF Scan, Goes, At, Go
    <3>2. CASE pc'[Ctl] = "idle"
      BY <1>5, <3>2 DEF Headed, Exports, HeadLabels
    <3>3. CASE pc'[Ctl] = "visit" /\ head' = head
      <4>1. Exports(Ctl)' => Exports(Ctl)
        BY <1>5, <3>1, <3>3 DEF Exports, HeadLabels
      <4>. QED
        BY <1>2, <1>4, <2>1, <3>1, <3>3, <4>1 DEF Headed, HeadLabels, store
    <3>. QED
      BY <3>1, <3>2, <3>3
  <2>7. CASE ~(ControlExport \/ Header \/ HeaderEvicted \/ HeaderDone \/ Scan)
    <3>1. pc'[Ctl] \notin HeadLabels \cup {"closing", "header"}
      BY <1>2, <2>7 DEF ControlTrigger, Finish, Visit, ControlDiscard, ControlStatus, Leave,
         Goes, Go, At, HeadLabels
    <3>. QED
      BY <1>5, <3>1 DEF Headed, Exports
  <2>. QED
    BY <2>2, <2>3, <2>4, <2>5, <2>6, <2>7
<1>. QED
  BY <1>2, <1>5, <1>6, RestKeepsBooks

LEMMA CloseBooks ==
  ASSUME Inv, Books, ControlFreeze \/ CloseForExport
  PROVE  Books'
<1>1. PICK next \in {"finish", "header"} :
        /\ pc[Ctl] = IF next = "finish" THEN "idle" ELSE "closing"
        /\ CloseWindow(Ctl, next)
  BY DEF ControlFreeze, CloseForExport, At
<1>2. /\ Ctl \in Threads /\ ~Below(Ctl) /\ DOMAIN me = Threads /\ DOMAIN pc = Threads
      /\ Holds(Ctl)
  BY <1>1, ControlBetween DEF ControlLabels, Inv, Typed, Books
<1>3. /\ Rests(Ctl) /\ head' = head
      /\ pc'[Ctl] \in {"gate", next} /\ (pc'[Ctl] = next => me'[Ctl] = me[Ctl])
      /\ Below(Ctl)' => me'[Ctl].home = next /\ me'[Ctl].outer = me[Ctl]
  <2>1. CASE open /\ active # 0
    <3>1. PICK f : /\ f = [Fresh EXCEPT !.tok = active, !.kind = "Terminal",
                                         !.home = next, !.outer = me[Ctl]]
                   /\ me' = [me EXCEPT ![Ctl] = f] /\ pc' = [pc EXCEPT ![Ctl] = "gate"]
      BY <1>1, <2>1 DEF CloseWindow, Go
    <3>2. f.at = 0 /\ f.outer = me[Ctl] /\ f.home = next
      BY <3>1 DEF Fresh
    <3>3. me'[Ctl] = f /\ pc'[Ctl] = "gate" /\ Moves(Ctl)
      BY <1>2, <3>1 DEF Moves
    <3>. QED
      BY <1>1, <1>2, <3>2, <3>3 DEF CloseWindow, Rests, Holds, Below, Touching, life, trigger
  <2>2. CASE ~(open /\ active # 0)
    <3>1. me' = me /\ pc'[Ctl] = next /\ Moves(Ctl)
      BY <1>1, <1>2, <2>2 DEF CloseWindow, Go, Moves
    <3>. QED
      BY <1>1, <1>2, <3>1 DEF CloseWindow, Rests, Holds, Below, Touching, life, trigger
  <2>. QED
    BY <2>1, <2>2
<1>4. Headed'
  <2>1. Exports(Ctl)' => Exports(Ctl)
    BY <1>1, <1>2, <1>3 DEF Exports, HeadLabels, Below
  <2>. QED
    BY <1>1, <1>3, <2>1 DEF Books, Headed, HeadLabels, Rests, Moves, store
<1>. QED
  BY <1>2, <1>3, <1>4, RestKeepsBooks

LEMMA ArmBooks ==
  ASSUME Inv, Life, Books, ArmStorage \/ ArmOpen \/ ArmPublish \/ Free
  PROVE  Books'
<1>1. /\ Ctl \in Threads /\ Moves(Ctl) /\ me' = me /\ pc[Ctl] \in {"idle", "arm", "publish", "free"}
      /\ pc'[Ctl] \in {"arm", "publish", "idle", "leave"}
  BY FiniteThreads
     DEF ArmStorage, ArmOpen, ArmPublish, Free, Goes, At, Go, Inv, Typed, Moves
<1>2. Calm
  BY DEF ArmStorage, ArmOpen, ArmPublish, Free, Goes, At, Life, Phases, Inv, Quiet
<1>3. \A u \in Threads : pc[u] \notin Touching /\ pc'[u] \notin Touching /\ ~Below(u)
  BY <1>1, <1>2 DEF Calm, Moves, Touching
<1>4. ASSUME NEW u \in Threads PROVE Holds(u)'
  BY <1>1, <1>3 DEF Books, Holds, Below, Touching
<1>5. Headed'
  BY <1>1, <1>3 DEF Headed, Exports, HeadLabels, Below
<1>6. Accepting' = {} /\ Accepting = {} /\ Cardinality({}) = 0
  BY <1>3, FS_EmptySet DEF Accepting, Touching
<1>7. CASE ArmOpen \/ ArmPublish
  <2>1. UNCHANGED <<session, store, trig>> /\ InUse
    BY <1>7 DEF ArmOpen, ArmPublish, Goes, At, InUse, life, trigger, Life, Phases
  <2>2. Occupied' = Occupied
    BY <2>1 DEF Occupied, store
  <2>. QED
    BY <1>4, <1>5, <1>6, <2>1, <2>2 DEF Books, Stored, Balance, OwnEvents, store
<1>8. CASE ArmStorage \/ Free
  <2>1. cells' = Empty /\ DOMAIN Empty = 0 .. Capacity - 1
    BY <1>8 DEF ArmStorage, Free, Empty
  <2>2. \A i \in 0 .. Capacity - 1 : DOMAIN Empty[i] = CellFields /\ Empty[i].seq = 0
    BY DEF Empty, EmptyCell, CellFields
  <2>3. Stored'
    BY <1>8, <2>1, <2>2, RingAssumption DEF ArmStorage, Free, Books, Stored, trigger
  <2>4. Occupied' = {}
    BY <2>1, <2>2 DEF Occupied
  <2>5. CASE ArmStorage
    BY <1>4, <1>5, <1>6, <2>3, <2>4, <2>5 DEF ArmStorage, Books, Balance, OwnEvents
  <2>6. CASE Free
    <3>1. ~InUse'
      BY <1>1, <2>6 DEF Free, Goes, Go, Inv, Typed, InUse, At
    <3>. QED
      BY <1>4, <1>5, <2>3, <3>1 DEF Books, Balance, OwnEvents
  <2>. QED
    BY <1>8, <2>5, <2>6
<1>. QED
  BY <1>7, <1>8

-----------------------------------------------------------------------------
(* The export.                                                             *)

LEMMA InitBooks == Init => Books
<1>. SUFFICES ASSUME Init PROVE Books
  OBVIOUS
<1>1. \A i \in 0 .. Capacity - 1 : DOMAIN Empty[i] = CellFields /\ Empty[i].seq = 0
  BY DEF Empty, EmptyCell, CellFields
<1>2. Stored
  BY <1>1, RingAssumption DEF Init, Stored, Empty
<1>3. ASSUME NEW t \in Threads PROVE Holds(t) /\ pc[t] = "idle" /\ ~Below(t)
  BY FreshTurn DEF Init, Holds, Below, Touching
<1>4. ~InUse /\ Headed
  BY <1>3, FiniteThreads DEF Init, InUse, At, Headed, Exports, HeadLabels
<1>. QED
  BY <1>2, <1>3, <1>4 DEF Books, Balance, OwnEvents

LEMMA NextBooks == Inv /\ Life /\ Books /\ [Next]_vars => Books'
<1>. SUFFICES ASSUME Inv, Life, Books, [Next]_vars PROVE Books'
  OBVIOUS
<1>1. ASSUME NEW p \in Producers, Capture(p) PROVE Books'
  BY <1>1, CaptureBooks
<1>2. ASSUME NEW t \in Threads, ThreadStep(t) PROVE Books'
  BY <1>2, ThreadEffect, ThreadTurn, TurnKeepsBooks
<1>3. CASE RequestLoad \/ RequestStore \/ UNCHANGED vars
  <2>1. UNCHANGED <<state, session, store, trig, head, pc, me>>
    BY <1>3 DEF RequestLoad, RequestStore, vars, life, gate, trigger
  <2>. QED
    BY <2>1 DEF store, Books, Stored, Holds, Balance, OwnEvents, Headed, InUse, Occupied,
       Accepting, Exports, Below, At
<1>4. CASE ArmStorage \/ ArmOpen \/ ArmPublish \/ Free
  BY <1>4, ArmBooks
<1>5. CASE ControlFreeze \/ CloseForExport
  BY <1>5, CloseBooks
<1>6. CASE \/ \E w \in Windows : ControlTrigger(w)
           \/ Finish \/ ControlExport \/ Header \/ HeaderEvicted \/ HeaderDone \/ Scan \/ Visit
           \/ ControlDiscard \/ ControlStatus \/ Leave
  BY <1>6, CommandBooks
<1>. QED
  BY <1>1, <1>2, <1>3, <1>4, <1>5, <1>6 DEF Next, ControlStep, Threads

\* Every export accounts for the events it writes: nobody counts or fills a cell while
\* they are visited, and every cell holds an event of the session exported.  An export
\* that found the ring drained, as the recorder's does, also has a header that says so.
\* For any number of producers, cells and laps.
THEOREM ExportSafety == Spec => []ExportIsExact
<1>1. Inv /\ Books => ExportIsExact
  <2>1. SUFFICES ASSUME Inv, Books, pc[Ctl] = "visit" PROVE ExportIsExact
    BY DEF ExportIsExact, At
  <2>2. state = "Frozen" /\ \A t \in Threads : pc[t] \notin Touching
    BY <2>1 DEF Inv, Quiet
  <2>3. Accepting = {} /\ Cardinality({}) = 0
    BY <2>2, FS_EmptySet DEF Accepting, Touching
  <2>4. evicted + Cardinality(Occupied) = accepted + 0
    BY <2>1, <2>2, <2>3 DEF Books, Balance, InUse
  <2>5. accepted \in Nat
    BY <2>1 DEF Books, Stored
  <2>6. head.drained => head.accepted = accepted /\ head.evicted = evicted
    BY <2>1 DEF Books, Headed, Exports, HeadLabels
  <2>. QED
    BY <2>1, <2>2, <2>4, <2>5, <2>6 DEF ExportIsExact, Books, OwnEvents, InUse
<1>. QED
  BY InitInv, NextInv, InitLife, NextLife, InitBooks, NextBooks, <1>1, PTL DEF Spec

\* Whichever of two preempted writers comes last to their common cell, the event of
\* the newer lap stays; for any number of laps and writers.
THEOREM LapOrder == Spec => NewestLapKept
<1>1. ASSUME Inv, Life, Books, [Next]_vars PROVE [KeepsNewer]_vars
  <2>1. Stored
    BY <1>1 DEF Books
  <2>2. ASSUME NEW t \in Threads, ThreadStep(t) PROVE KeepsNewer
    <3>1. Turn(t) /\ Holds(t)
      BY <1>1, <2>2, ThreadTurn DEF Books
    <3>2. CASE Leaves(t) \/ Counts(t)
      BY <2>1, <3>2 DEF Leaves, Counts, Resealed, Stored, KeepsNewer
    <3>3. CASE Fills(t)
      <4>1. PICK i \in DOMAIN cells :
              /\ cells' = [cells EXCEPT ![i] = [busy |-> TRUE, seq |-> me[t].seq, tok |-> me[t].tok]]
              /\ cells[i].seq < me[t].seq
        BY <3>3 DEF Fills
      <4>2. me[t].seq \in Nat
        BY <3>1, <3>3 DEF Holds, Fills
      <4>. QED
        BY <2>1, <4>1, <4>2 DEF Stored, KeepsNewer
    <3>. QED
      BY <3>1, <3>2, <3>3 DEF Turn
  <2>3. CASE cells' = cells
    BY <2>1, <2>3 DEF Stored, KeepsNewer
  <2>4. CASE ArmStorage
    <3>1. session' = session + 1 /\ session \in Nat
      BY <1>1, <2>4 DEF ArmStorage, Life, Tokens
    <3>. QED
      BY <3>1 DEF KeepsNewer
  <2>5. CASE Free
    BY <2>5 DEF Free, KeepsNewer
  <2>6. CASE \/ \E p \in Producers : Capture(p)
             \/ RequestLoad \/ RequestStore \/ ArmOpen \/ ArmPublish \/ ControlFreeze
             \/ CloseForExport
    BY <2>3, <2>6 DEF Capture, RequestLoad, RequestStore, ArmOpen, ArmPublish, ControlFreeze,
       CloseForExport, CloseWindow, store
  <2>7. CASE \/ \E w \in Windows : ControlTrigger(w)
             \/ Finish \/ ControlExport \/ Header \/ HeaderEvicted \/ HeaderDone \/ Scan \/ Visit
             \/ ControlDiscard \/ ControlStatus \/ Leave
    BY <2>3, <2>7 DEF ControlTrigger, Finish, ControlExport, Header, HeaderEvicted, HeaderDone,
       Scan, Visit, ControlDiscard, ControlStatus, Leave, store
  <2>. QED
    BY <1>1, <2>2, <2>4, <2>5, <2>6, <2>7 DEF Next, ControlStep, Threads
<1>. QED
  BY InitInv, NextInv, InitLife, NextLife, InitBooks, NextBooks, <1>1, PTL DEF Spec, NewestLapKept
=============================================================================
