---------------------------- MODULE EvidenceRing ----------------------------
(***************************************************************************)
(* The frame-evidence ring: threads of the game append events without a    *)
(* lock while a control thread arms, triggers, freezes, exports and        *)
(* discards a session.  One action is one operation on the shared atomics  *)
(* that another thread could tell apart.  The ring has Pre cells that are  *)
(* overwritten lap after lap and, behind them, the cells of the events     *)
(* after the trigger.  The object recorder settles its open chains through *)
(* a hook that runs inside freeze().                                       *)
(***************************************************************************)
EXTENDS Naturals, FiniteSets

CONSTANTS
  Producers,    \* threads that record events
  Ctl,          \* the thread inside Control(), which controlMutex serializes
  Capacity,     \* cells
  MaxSeq,       \* the largest sequence number (UINT64_MAX)
  Window,       \* PresentEnds after a trigger that Record takes (16)
  Windows,      \* and after one that Control makes (0 .. 120)
  MaxSession,   \* bound: sessions
  Tickets,      \* bound: no new event once a session has drawn so many
  AsksAgain,    \* bound: may the game ask for what it has asked for already?
  None

Pre == Capacity - Capacity \div 4

ASSUME RingAssumption ==
  /\ Capacity \in Nat \ {0} /\ MaxSeq \in Nat \ {0} /\ Window \in Nat \ {0}
  /\ Windows \subseteq Nat
  /\ MaxSession \in Nat /\ Tickets \in [1 .. MaxSession -> Nat] /\ AsksAgain \in BOOLEAN
  /\ Ctl \notin Producers /\ None \notin Producers \cup {Ctl} /\ IsFiniteSet(Producers)

Threads == Producers \cup {Ctl}

VARIABLES
  state, session,                    \* m_state, m_session
  active, game, asking,              \* Store::active, gameTrigger, and the session the
                                     \*   game is asking a trigger for
  reserved, accepted, evicted,       \* tickets, stored events, overwritten events
  cells,                             \* m_storage
  trig, claimed, remaining,          \* m_trigger, m_triggerClaim, m_remaining
  writers,                           \* m_writers
  hooking, open, settler,            \* m_preFreezeRunning; the object recorder's
                                     \*   window, and who is in CloseWindow
  head,                              \* head: the header of the export under way
  pc, me                             \* each thread and its locals

life == <<state, session>>
gate == <<active, game, asking>>
store == <<reserved, accepted, evicted, cells>>
trigger == <<trig, claimed, remaining>>
object == <<hooking, open, settler>>
vars == <<life, gate, store, trigger, writers, object, head, pc, me>>

\* The locals of t after its last use of its ticket.
Spent(t) == [me[t] EXCEPT !.seq = 0, !.at = 0, !.post = FALSE, !.ok = FALSE]

EmptyCell == [busy |-> FALSE, seq |-> 0, tok |-> 0]

Empty == [i \in 0 .. Capacity - 1 |-> EmptyCell]

Fresh == [tok |-> 0, kind |-> "Event", seq |-> 0, at |-> 0, post |-> FALSE, ok |-> FALSE,
          window |-> Window, home |-> "idle", back |-> "exit", outer |-> None]

At(t, label) == pc[t] = label

Go(t, label) == pc' = [pc EXCEPT ![t] = label]

Goes(t, from, to) == At(t, from) /\ Go(t, to)

\* Record returns.  Below one that CloseWindow made is the frame it interrupted,
\* and the object recorder's lock is free again.
Returns(t) ==
  /\ Go(t, me[t].home)
  /\ \/ /\ me[t].kind = "Terminal" /\ me' = [me EXCEPT ![t] = me[t].outer]
        /\ settler' = None
     \/ me[t].kind # "Terminal" /\ me' = [me EXCEPT ![t] = Fresh] /\ UNCHANGED settler

FrozenReady == state = "Frozen" /\ writers = 0

Recording == state \in {"Armed", "Triggered"}

Init ==
  /\ state = "Idle" /\ session = 0 /\ active = 0 /\ game = 0 /\ asking = 0
  /\ reserved = 0 /\ accepted = 0 /\ evicted = 0 /\ cells = Empty
  /\ trig = MaxSeq /\ claimed = FALSE /\ remaining = 0 /\ writers = 0
  /\ hooking = FALSE /\ open = FALSE /\ settler = None
  /\ head = None
  /\ pc = [t \in Threads |-> "idle"] /\ me = [t \in Threads |-> Fresh]

-----------------------------------------------------------------------------
(* Record.  The session was captured earlier and may be over by now.       *)

Capture(p) ==
  /\ Goes(p, "idle", "gate") /\ active # 0 /\ reserved < Tickets[active]
  /\ me' = [me EXCEPT ![p] = [Fresh EXCEPT !.tok = active]]
  /\ UNCHANGED <<life, gate, store, trigger, writers, object, head>>

\* RequestTriggerFromGame, whose one caller holds its own mutex: the gate is read ...
RequestLoad ==
  /\ asking = 0 /\ active # 0 /\ (AsksAgain \/ game # active) /\ asking' = active
  /\ UNCHANGED <<life, active, game, store, trigger, writers, object, head, pc, me>>

\* ... and the session it named is stored, whatever has become of it.
RequestStore ==
  /\ asking # 0 /\ game' = asking /\ asking' = 0
  /\ UNCHANGED <<life, active, store, trigger, writers, object, head, pc, me>>

\* A session that has ended takes nothing.
Gate(t) ==
  /\ At(t, "gate")
  /\ \/ active # me[t].tok /\ Returns(t)
     \/ active = me[t].tok /\ Go(t, "take") /\ UNCHANGED <<me, settler>>
  /\ UNCHANGED <<life, gate, store, trigger, writers, hooking, open, head>>

\* A trigger requested for this session is taken once, by the exchange; the gate may
\* have shut since it was looked at.
Take(t) ==
  /\ At(t, "take")
  /\ \/ game = me[t].tok /\ game' = 0 /\ Go(t, "tenter")
     \/ game # me[t].tok /\ Go(t, "enter") /\ UNCHANGED game
  /\ UNCHANGED <<life, active, asking, store, trigger, writers, object, head, me>>

-----------------------------------------------------------------------------
(* Ring::trigger, from Record or from Control.                             *)

TriggerEnter(t) ==
  /\ Goes(t, "tenter", "tclaim") /\ writers' = writers + 1
  /\ UNCHANGED <<life, gate, store, trigger, object, head, me>>

Claims(t) == state = "Armed" /\ me[t].tok = session /\ ~claimed

TriggerClaim(t) ==
  /\ At(t, "tclaim")
  /\ \/ ~Claims(t) /\ Go(t, "texit") /\ UNCHANGED <<claimed, remaining, me>>
     \/ /\ Claims(t) /\ Go(t, "tstore")
        /\ claimed' = TRUE /\ remaining' = me[t].window
        /\ me' = [me EXCEPT ![t].at = reserved, ![t].ok = TRUE]
  /\ UNCHANGED <<life, gate, store, trig, writers, object, head>>

TriggerStore(t) ==
  /\ Goes(t, "tstore", "tstate") /\ trig' = me[t].at
  /\ me' = [me EXCEPT ![t].at = 0]
  /\ UNCHANGED <<life, gate, store, claimed, remaining, writers, object, head>>

\* Mutant: a plain store instead of the exchange.
TriggerStateStored(t) ==
  /\ At(t, "tstate") /\ state' = "Triggered"
  /\ Go(t, IF me[t].window = 0 THEN "freeze" ELSE "texit")
  /\ me' = [me EXCEPT ![t].back = "texit"]
  /\ UNCHANGED <<session, gate, store, trigger, writers, object, head>>

\* The events of the window may have frozen the ring already.
TriggerState(t) ==
  /\ At(t, "tstate")
  /\ \/ state # "Armed" /\ Go(t, "texit") /\ UNCHANGED <<state, me>>
     \/ /\ state = "Armed" /\ state' = "Triggered"
        /\ Go(t, IF me[t].window = 0 THEN "freeze" ELSE "texit")
        /\ me' = [me EXCEPT ![t].back = "texit"]
  /\ UNCHANGED <<session, gate, store, trigger, writers, object, head>>

\* Record goes on with its event, Control with its answer.
TriggerExit(t) ==
  /\ Goes(t, "texit", IF me[t].kind # "Control" THEN "enter"
                      ELSE IF me[t].ok THEN "leave" ELSE "idle")
  /\ writers' = writers - 1
  /\ me' = [me EXCEPT ![t].back = "exit", ![t].ok = FALSE]
  /\ UNCHANGED <<life, gate, store, trigger, object, head>>

-----------------------------------------------------------------------------
(* Ring::append.                                                           *)

\* Mutant: the writer is not counted.
EnterUncounted(t) ==
  /\ Goes(t, "enter", "check")
  /\ UNCHANGED <<life, gate, store, trigger, writers, object, head, me>>

Enter(t) ==
  /\ Goes(t, "enter", "check") /\ writers' = writers + 1
  /\ UNCHANGED <<life, gate, store, trigger, object, head, me>>

\* Mutant: the token is not compared.
CheckStateOnly(t) ==
  /\ Goes(t, "check", IF Recording THEN "reserve" ELSE "exit")
  /\ UNCHANGED <<life, gate, store, trigger, writers, object, head, me>>

Check(t) ==
  /\ Goes(t, "check", IF Recording /\ me[t].tok = session THEN "reserve" ELSE "exit")
  /\ UNCHANGED <<life, gate, store, trigger, writers, object, head, me>>

Reserve(t) ==
  /\ At(t, "reserve")
  /\ \/ reserved = MaxSeq /\ Go(t, "freeze") /\ UNCHANGED <<reserved, me>>
     \/ /\ reserved # MaxSeq /\ Go(t, "place") /\ reserved' = reserved + 1
        /\ me' = [me EXCEPT ![t].seq = reserved + 1]
  /\ UNCHANGED <<life, gate, accepted, evicted, cells, trigger, writers, object, head>>

After(seq) == trig # MaxSeq /\ seq > trig

Cell(seq) == IF After(seq) THEN Pre + (seq - trig - 1) ELSE (seq - 1) % Pre

\* The cell is chosen by the trigger as it is now; past the last one, freeze.
Place(t) ==
  /\ At(t, "place")
  /\ \/ Cell(me[t].seq) >= Capacity /\ Go(t, "freeze") /\ me' = [me EXCEPT ![t] = Spent(t)]
     \/ /\ Cell(me[t].seq) < Capacity /\ Go(t, "claim")
        /\ me' = [me EXCEPT ![t].at = Cell(me[t].seq), ![t].post = After(me[t].seq)]
  /\ UNCHANGED <<life, gate, store, trigger, writers, object, head>>

\* busy.test_and_set: a preempted writer's cell is left alone.
Claim(t) ==
  /\ At(t, "claim")
  /\ \/ /\ cells[me[t].at].busy /\ Go(t, "exit")
        /\ me' = [me EXCEPT ![t] = Spent(t)] /\ UNCHANGED cells
     \/ /\ ~cells[me[t].at].busy /\ Go(t, "write")
        /\ cells' = [cells EXCEPT ![me[t].at].busy = TRUE] /\ UNCHANGED me
  /\ UNCHANGED <<life, gate, reserved, accepted, evicted, trigger, writers, object,
                 head>>

\* Mutant: an old ticket replaces the event of a newer lap.
Outdated(t) == cells[me[t].at].seq = me[t].seq

Outlapped(t) == cells[me[t].at].seq >= me[t].seq

Write(t) ==
  /\ At(t, "write")
  /\ \/ /\ Outlapped(t) /\ Go(t, "exit")
        /\ cells' = [cells EXCEPT ![me[t].at].busy = FALSE] /\ UNCHANGED evicted
     \/ /\ ~Outlapped(t) /\ Go(t, "accept")
        /\ evicted' = evicted + (IF cells[me[t].at].seq = 0 THEN 0 ELSE 1)
        /\ cells' = [cells EXCEPT ![me[t].at] =
                       [busy |-> TRUE, seq |-> me[t].seq, tok |-> me[t].tok]]
  /\ UNCHANGED <<life, gate, reserved, accepted, trigger, writers, object, head, me>>

\* The event counts and the cell is free; the window's last PresentEnd freezes.
\* Whether an event after the trigger is a PresentEnd matters only here.
Accept(t, presentEnd) ==
  /\ presentEnd => me[t].post /\ me[t].kind = "Event" /\ remaining > 0
  /\ Goes(t, "accept", IF presentEnd /\ remaining = 1 THEN "freeze" ELSE "exit")
  /\ accepted' = accepted + 1 /\ cells' = [cells EXCEPT ![me[t].at].busy = FALSE]
  /\ remaining' = IF presentEnd THEN remaining - 1 ELSE remaining
  /\ me' = [me EXCEPT ![t] = Spent(t)]
  /\ UNCHANGED <<life, gate, reserved, evicted, trig, claimed, writers, object, head>>

Exit(t) ==
  /\ Goes(t, "exit", "look") /\ writers' = writers - 1
  /\ me' = [me EXCEPT ![t] = Spent(t)]
  /\ UNCHANGED <<life, gate, store, trigger, object, head>>

\* append has returned; whoever then finds the ring frozen ends the session.
Look(t) ==
  /\ At(t, "look")
  /\ \/ state = "Frozen" /\ Go(t, "cut") /\ UNCHANGED <<me, settler>>
     \/ state # "Frozen" /\ Returns(t)
  /\ UNCHANGED <<life, gate, store, trigger, writers, hooking, open, head>>

\* Mutant: the session goes on.
CutNot(t) ==
  /\ At(t, "cut") /\ Returns(t)
  /\ UNCHANGED <<life, gate, store, trigger, writers, hooking, open, head>>

Cut(t) ==
  /\ At(t, "cut") /\ active' = 0 /\ Returns(t)
  /\ UNCHANGED <<life, game, asking, store, trigger, writers, hooking, open, head>>

-----------------------------------------------------------------------------
(* Ring::freeze, its hook, and the object recorder's CloseWindow.          *)

\* One thread at a time runs the hook; another one freezes without it.
Freeze(t) ==
  /\ At(t, "freeze")
  /\ \/ state # "Frozen" /\ ~hooking /\ hooking' = TRUE /\ Go(t, "hook")
     \/ (state = "Frozen" \/ hooking) /\ Go(t, "stop") /\ UNCHANGED hooking
  /\ UNCHANGED <<life, gate, store, trigger, writers, open, settler, head, me>>

\* The window is settled once, under the recorder's recursive lock: the terminal
\* of its open chain is recorded like any event, and the caller goes on at next.
CloseWindow(t, next) ==
  /\ settler \in {None, t} /\ open' = FALSE
  /\ \/ /\ open /\ active # 0 /\ Go(t, "gate") /\ settler' = t
        /\ me' = [me EXCEPT ![t] = [Fresh EXCEPT !.tok = active, !.kind = "Terminal",
                                                 !.home = next, !.outer = me[t]]]
     \/ ~(open /\ active # 0) /\ Go(t, next) /\ UNCHANGED <<settler, me>>
  /\ UNCHANGED <<life, gate, store, trigger, writers, hooking, head>>

Hook(t) == At(t, "hook") /\ CloseWindow(t, "unhook")

Unhook(t) ==
  /\ Goes(t, "unhook", "stop") /\ hooking' = FALSE
  /\ UNCHANGED <<life, gate, store, trigger, writers, open, settler, head, me>>

Stop(t) ==
  /\ At(t, "stop") /\ Go(t, me[t].back) /\ state' = "Frozen"
  /\ UNCHANGED <<session, gate, store, trigger, writers, object, head, me>>

-----------------------------------------------------------------------------
(* Control, one command at a time.                                         *)

ArmStorage ==
  /\ Goes(Ctl, "idle", "arm") /\ state = "Idle" /\ writers = 0 /\ session < MaxSession
  /\ session' = session + 1 /\ cells' = Empty
  /\ reserved' = 0 /\ accepted' = 0 /\ evicted' = 0
  /\ trig' = MaxSeq /\ claimed' = FALSE /\ remaining' = 0
  /\ UNCHANGED <<state, gate, writers, object, head, me>>

\* The ring is armed, then the object recorder, and only then the gate opens.
ArmOpen ==
  /\ Goes(Ctl, "arm", "publish") /\ state' = "Armed" /\ open' = TRUE
  /\ UNCHANGED <<session, gate, store, trigger, writers, hooking, settler, head, me>>

ArmPublish ==
  /\ Goes(Ctl, "publish", "idle") /\ active' = session
  /\ UNCHANGED <<life, game, asking, store, trigger, writers, object, head, me>>

\* A command's first step on the shared state: Ring::trigger counts itself in ...
ControlTrigger(w) ==
  /\ Goes(Ctl, "idle", "tclaim") /\ session # 0 /\ writers' = writers + 1
  /\ me' = [me EXCEPT ![Ctl] = [Fresh EXCEPT !.tok = session, !.kind = "Control",
                                             !.window = w]]
  /\ UNCHANGED <<life, gate, store, trigger, object, head>>

\* ... and a freeze settles the window.
ControlFreeze == At(Ctl, "idle") /\ session # 0 /\ CloseWindow(Ctl, "finish")

Finish ==
  /\ Goes(Ctl, "finish", IF Recording THEN "freeze" ELSE "idle")
  /\ me' = [me EXCEPT ![Ctl] = IF Recording THEN [Fresh EXCEPT !.back = "leave"] ELSE Fresh]
  /\ UNCHANGED <<life, gate, store, trigger, writers, object, head>>

\* The recorder's worker has seen FrozenForExport and finds the ring drained; a client
\* of the pipe exports a session when it likes.
ControlExport ==
  /\ Goes(Ctl, "idle", "closing") /\ session # 0
  /\ me' = [me EXCEPT ![Ctl] = [Fresh EXCEPT !.kind = IF FrozenReady THEN "Drained"
                                                                    ELSE "Export",
                                             !.ok = ~Recording]]
  /\ UNCHANGED <<life, gate, store, trigger, writers, object, head>>

CloseForExport == At(Ctl, "closing") /\ CloseWindow(Ctl, "header")

\* The header is a snapshot of counters that are read one after the other.
Header ==
  /\ At(Ctl, "header")
  /\ \/ /\ state # "Frozen" /\ Go(Ctl, "idle") /\ UNCHANGED head
        /\ me' = [me EXCEPT ![Ctl] = Fresh]
     \/ /\ state = "Frozen" /\ Go(Ctl, "evicted") /\ UNCHANGED me
        /\ head' = [accepted |-> accepted, evicted |-> 0, drained |-> me[Ctl].kind = "Drained"]
  /\ UNCHANGED <<life, gate, store, trigger, writers, object>>

HeaderEvicted ==
  /\ Goes(Ctl, "evicted", "shut") /\ head' = [head EXCEPT !.evicted = evicted]
  /\ UNCHANGED <<life, gate, store, trigger, writers, object, me>>

\* The gate is shut if the command found the ring not recording.
HeaderDone ==
  /\ Goes(Ctl, "shut", "scan") /\ active' = IF me[Ctl].ok THEN 0 ELSE active
  /\ me' = [me EXCEPT ![Ctl] = Fresh]
  /\ UNCHANGED <<life, game, asking, store, trigger, writers, object, head>>

\* visitFrozen looks again, and the export fails when a writer is inside.
Scan ==
  /\ Goes(Ctl, "scan", IF FrozenReady THEN "visit" ELSE "idle")
  /\ head' = IF FrozenReady THEN head ELSE None
  /\ UNCHANGED <<life, gate, store, trigger, writers, object, me>>

Visit ==
  /\ Goes(Ctl, "visit", "idle") /\ head' = None
  /\ UNCHANGED <<life, gate, store, trigger, writers, object, me>>

ControlDiscard ==
  /\ Goes(Ctl, "idle", "free") /\ FrozenReady
  /\ UNCHANGED <<life, gate, store, trigger, writers, object, head, me>>

Free ==
  /\ Goes(Ctl, "free", "leave") /\ cells' = Empty /\ state' = "Idle"
  /\ UNCHANGED <<session, gate, reserved, accepted, evicted, trigger, writers, object,
                 head, me>>

\* Every command that gets this far closes the gate of a ring that is not recording.
CloseGate == active' = IF Recording THEN active ELSE 0

ControlStatus ==
  /\ At(Ctl, "idle") /\ session # 0 /\ CloseGate
  /\ UNCHANGED <<life, game, asking, store, trigger, writers, object, head, pc, me>>

Leave ==
  /\ Goes(Ctl, "leave", "idle") /\ CloseGate
  /\ me' = [me EXCEPT ![Ctl] = Fresh]
  /\ UNCHANGED <<life, game, asking, store, trigger, writers, object, head>>

-----------------------------------------------------------------------------
ThreadStep(t) ==
  \/ Gate(t) \/ Take(t) \/ Look(t) \/ Cut(t)
  \/ TriggerEnter(t) \/ TriggerClaim(t) \/ TriggerStore(t) \/ TriggerState(t)
  \/ TriggerExit(t)
  \/ Enter(t) \/ Check(t) \/ Reserve(t) \/ Place(t) \/ Claim(t) \/ Write(t)
  \/ (\E end \in BOOLEAN : Accept(t, end)) \/ Exit(t)
  \/ Freeze(t) \/ Hook(t) \/ Unhook(t) \/ Stop(t)

ControlStep ==
  \/ ThreadStep(Ctl) \/ ArmOpen \/ ArmPublish \/ Finish
  \/ CloseForExport \/ Header \/ HeaderEvicted \/ HeaderDone \/ Scan \/ Visit \/ Free \/ Leave

Next ==
  \/ \E p \in Producers : Capture(p) \/ ThreadStep(p)
  \/ RequestLoad \/ RequestStore \/ ControlStep
  \/ ArmStorage \/ (\E w \in Windows : ControlTrigger(w)) \/ ControlFreeze
  \/ ControlExport \/ ControlDiscard \/ ControlStatus

Spec == Init /\ [][Next]_vars

-----------------------------------------------------------------------------
Occupied == {i \in DOMAIN cells : cells[i].seq # 0}

\* The cells are read, freed or replaced only while no producer can touch one:
\* visitFrozen, discard and arm look at the writer count, every writer counts
\* itself before it looks at the state, and the states only move one way.
\* Without a lock this is all that protects an export from a torn event and a
\* preempted writer from freed storage.
StorageIsQuiet ==
  pc[Ctl] \in {"visit", "free", "arm"} =>
    \A t \in Threads : ~(pc[t] \in {"reserve", "place", "claim", "write", "accept"})

\* An export accounts for its events: what is written is every event accepted and
\* not evicted, all of the session exported, though a writer that captured an earlier
\* session may have been preempted anywhere in Record.  Exports that waited for the
\* drained ring, as the recorder's do, also have a header that says so (accepted =
\* evicted + exported); a client's header may have been read before the last writers
\* were through.
ExportIsExact ==
  At(Ctl, "visit") =>
    /\ accepted = evicted + Cardinality(Occupied)
    /\ head.drained => head.accepted = accepted /\ head.evicted = evicted
    /\ \A i \in Occupied : cells[i].tok = session

KeepsNewer ==
  session' = session /\ state' # "Idle" =>
    \A i \in DOMAIN cells : cells'[i].seq >= cells[i].seq

\* An older ticket never replaces the event of a newer lap, whatever the order
\* in which two preempted writers reach their common cell.
NewestLapKept == [][KeepsNewer]_vars

\* t is inside append or freeze, or about to store 0.
WillEnd(t) ==
  \/ pc[t] \in {"check", "reserve", "place", "claim", "write", "accept", "exit", "look",
                "cut",
                "freeze", "hook", "unhook", "stop", "leave"}
  \/ me[t].kind = "Terminal"
  \/ At(t, "texit") /\ me[t].kind = "Control" /\ me[t].ok

\* A frozen ring ends its session: as long as the gate is open, a thread that
\* will store 0 is on its way out of append or out of its command.  Without it
\* the producers would go on counting themselves in, and neither an export nor
\* a discard could count on a drained ring.
FreezeEndsSession ==
  state = "Frozen" /\ active # 0 => \E t \in Threads : WillEnd(t)

\* The phase as the rest of the recorder sees it: a session begins when its ring
\* opens, and is published with the gate.
Phase == IF At(Ctl, "publish") THEN "Arming" ELSE state

Session == INSTANCE EvidenceSession WITH
  phase <- Phase, session <- IF At(Ctl, "arm") THEN session - 1 ELSE session

\* Whatever the threads do, the ring behaves as EvidenceSession says: one session
\* at a time goes once through its phases, a trigger request names a session that
\* was published and is taken once, and the gate of the first session shuts only
\* after its freeze.
ImplementsSession == Session!Spec
=============================================================================
