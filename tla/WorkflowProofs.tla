---------------------------- MODULE WorkflowProofs ----------------------------
(***************************************************************************)
(* Proofs about the workflow service, for any processes, drivers, orders,  *)
(* verifiers and attempt budget, and with results that expire.             *)
(*                                                                         *)
(* Every action is a store transaction (or none) followed by a move of one *)
(* process, so the invariant is kept by each of the few shapes of them     *)
(* (Settles, Notes, Reads, ...) and an action only has to name its shape.  *)
(***************************************************************************)
EXTENDS WorkflowService, FiniteSetTheorems, TLAPS

\* A decision was taken once, about the destructive action.
OneAnswer ==
    /\ \A e \in ledger : e.type \in Decisions => e.action = Edit /\ e.attempt = 0
    /\ \A e, f \in ledger : e.type \in Decisions /\ f.type \in Decisions => e = f

\* A process on its way into the destructive tool has an approval behind it.
Entering == {"start", "tool"}
Permitted ==
    \A p \in Procs : call[p].pc \in Entering /\ call[p].action = Edit => Approved

\* What a call carries at the steps that use it.
Busy == Entering \cup {"prepare", "copy", "dispatch", "put", "finish"}
Loaded(c) ==
    /\ c.pc \in Busy => c.action \in Actions
    /\ c.pc = "put" => c.says \in Verdicts
    /\ c.pc = "verify" => c.check > 0

IInv ==
    /\ TypeOK
    /\ OneAnswer
    /\ Permitted
    /\ \A p \in Procs : Loaded(call[p])

\* The steps at which a call needs nothing in particular.
Easy == Steps \ (Busy \cup {"verify"})

-----------------------------------------------------------------------------
(* The shapes of a step.                                                   *)

Moves(p) ==
    \E c \in Call :
        /\ Loaded(c)
        /\ call' = [call EXCEPT ![p] = c]
        /\ c.pc \in Entering /\ c.action = Edit => Approved'

\* A transaction that takes no decision.
Transacts ==
    /\ StoreTypeOK'
    /\ ledger \subseteq ledger'
    /\ \A e \in ledger' : e.type \in Decisions => e \in ledger

Around ==
    /\ runs' \in [Actions -> Nat]
    /\ output' \in {"absent", "other", "copy", "edited"}
    /\ order' \in Orders
    /\ render' \in RenderStatus

Quiet(receipts) ==
    receipts = {} \/ \E e \in Receipt : e.type \notin Decisions /\ receipts = {e}

LEMMA ActionsAssumption ==
    /\ Look \in Actions /\ Edit \in Actions
    /\ \A i \in 1 .. Len(Checks) : Checks[i] \in Actions
    /\ Orders \subseteq Order
    /\ Says \subseteq Verdicts
    /\ Found \subseteq {"absent", "other"}
BY ServiceAssumption

LEMMA RecordTyped ==
    ASSUME StoreTypeOK
    PROVE  Record \in Versioned
BY DEF StoreTypeOK, Record, Versioned

LEMMA NoCallTyped == NoCall \in Call /\ NoCall.pc = "idle"
BY DEF NoCall, Fresh, Call, Versioned, States, Terminal, Steps, RenderStatus

LEMMA ApprovalStays ==
    ASSUME ledger \subseteq ledger', Approved
    PROVE  Approved'
BY DEF Approved, ReceiptsOf

LEMMA Preserved ==
    ASSUME IInv, NEW p \in Procs, Moves(p), Transacts, Around
    PROVE  IInv'
<1>1. PICK c \in Call : /\ Loaded(c)
                        /\ call' = [call EXCEPT ![p] = c]
                        /\ c.pc \in Entering /\ c.action = Edit => Approved'
  BY DEF Moves
<1>2. call \in [Procs -> Call]
  BY DEF IInv, TypeOK, DispatchTypeOK
<1>3. call' \in [Procs -> Call]
  BY <1>1, <1>2
<1>4. TypeOK'
  BY <1>3 DEF TypeOK, Transacts, Around, DispatchTypeOK
<1>5. OneAnswer'
  BY DEF OneAnswer, Transacts, IInv
<1>6. Permitted'
  <2>1. SUFFICES ASSUME NEW q \in Procs,
                        call'[q].pc \in Entering, call'[q].action = Edit
                 PROVE  Approved'
    BY DEF Permitted
  <2>2. CASE q = p
    BY <1>1, <1>2, <2>1, <2>2
  <2>3. CASE q # p
    <3>1. call'[q] = call[q]
      BY <1>1, <1>2, <2>3
    <3>2. Approved
      BY <2>1, <3>1 DEF IInv, Permitted
    <3>3. QED
      BY <3>2, ApprovalStays DEF Transacts
  <2>4. QED
    BY <2>2, <2>3
<1>7. \A q \in Procs : Loaded(call'[q])
  <2>1. SUFFICES ASSUME NEW q \in Procs
                 PROVE  Loaded(call'[q])
    OBVIOUS
  <2>2. CASE q = p
    BY <1>1, <1>2, <2>2
  <2>3. CASE q # p
    BY <1>1, <1>2, <2>3 DEF IInv
  <2>4. QED
    BY <2>2, <2>3
<1>8. \A q \in Procs : (Loaded(call[q]))' <=> Loaded(call'[q])
  BY DEF Loaded
<1>9. QED
  BY <1>4, <1>5, <1>6, <1>7, <1>8 DEF IInv

-----------------------------------------------------------------------------
(* The store's transactions.                                               *)

LEMMA Grown ==
    ASSUME StoreTypeOK, NEW e
    PROVE  /\ IsFiniteSet(ledger \cup {e})
           /\ Cardinality(ledger \cup {e}) < version + 1
<1>1. IsFiniteSet(ledger) /\ Cardinality(ledger) < version /\ version \in Nat
  BY DEF StoreTypeOK
<1>2. Cardinality(ledger) \in Nat
  BY <1>1, FS_CardinalityType
<1>3. /\ IsFiniteSet(ledger \cup {e})
      /\ \/ Cardinality(ledger \cup {e}) = Cardinality(ledger)
         \/ Cardinality(ledger \cup {e}) = Cardinality(ledger) + 1
  BY <1>1, FS_AddElement
<1>4. QED
  BY <1>1, <1>2, <1>3

LEMMA StoreUnchanged ==
    ASSUME IInv, UNCHANGED storeVars
    PROVE  Transacts
BY DEF IInv, TypeOK, Transacts, StoreTypeOK, storeVars

LEMMA Transitions ==
    ASSUME IInv, NEW target \in States, NEW at, NEW receipts, Quiet(receipts),
           Transition(target, at, receipts)
    PROVE  Transacts
<1>1. StoreTypeOK
  BY DEF IInv, TypeOK
<1>2. /\ state' = target /\ version' = version + 1
      /\ ledger' = ledger \cup receipts
      /\ results' = results /\ expired' = expired
  BY DEF Transition
<1>3. /\ ledger' \in SUBSET Receipt
      /\ \A e \in ledger' : e.type \in Decisions => e \in ledger
  BY <1>1, <1>2 DEF Quiet, StoreTypeOK
<1>4. IsFiniteSet(ledger') /\ Cardinality(ledger') < version'
  <2>1. CASE receipts = {}
    <3>1. ledger' = ledger
      BY <1>2, <2>1
    <3>2. IsFiniteSet(ledger) /\ Cardinality(ledger) < version /\ version \in Nat
      BY <1>1 DEF StoreTypeOK
    <3>3. Cardinality(ledger) \in Nat
      BY <3>2, FS_CardinalityType
    <3>4. QED
      BY <1>2, <3>1, <3>2, <3>3
  <2>2. CASE \E e \in Receipt : receipts = {e}
    BY <1>1, <1>2, <2>2, Grown
  <2>3. QED
    BY <2>1, <2>2 DEF Quiet
<1>5. QED
  BY <1>1, <1>2, <1>3, <1>4 DEF Transacts, StoreTypeOK

LEMMA AppendTyped ==
    ASSUME IInv, NEW e \in Receipt, NEW at, AppendEvent(e, at)
    PROVE  StoreTypeOK' /\ ledger' = ledger \cup {e}
<1>1. StoreTypeOK
  BY DEF IInv, TypeOK
<1>2. state' = state /\ results' = results /\ expired' = expired
  BY DEF AppendEvent
<1>3. CASE e \in ledger
  <2>1. ledger' = ledger /\ version' = version
    BY <1>3 DEF AppendEvent
  <2>2. QED
    BY <1>1, <1>2, <1>3, <2>1 DEF StoreTypeOK
<1>4. CASE e \notin ledger
  <2>1. ledger' = ledger \cup {e} /\ version' = version + 1
    BY <1>4 DEF AppendEvent
  <2>2. QED
    BY <1>1, <1>2, <2>1, Grown DEF StoreTypeOK
<1>5. QED
  BY <1>3, <1>4

LEMMA Appends ==
    ASSUME IInv, NEW e \in Receipt, NEW at, AppendEvent(e, at), e.type \notin Decisions
    PROVE  Transacts
BY AppendTyped DEF Transacts

LEMMA Puts ==
    ASSUME IInv, NEW a \in Actions, NEW verdict \in Verdicts, PutResult(a, verdict)
    PROVE  Transacts
BY DEF IInv, TypeOK, Transacts, StoreTypeOK, PutResult

-----------------------------------------------------------------------------
(* The moves of a process.                                                 *)

LEMMA CallFields ==
    ASSUME IInv, NEW p \in Procs
    PROVE  /\ call \in [Procs -> Call]
           /\ call[p] \in Call
           /\ call[p].pc \in Steps
           /\ call[p].action \in Actions \cup {NoAction}
           /\ call[p].attempt \in Nat
           /\ call[p].says \in Verdicts \cup RenderStatus
           /\ call[p].check \in Nat
           /\ call[p].record \in Versioned
           /\ Loaded(call[p])
BY DEF IInv, TypeOK, DispatchTypeOK, Call

LEMMA GoesMoves ==
    ASSUME IInv, NEW p \in Procs, NEW pc \in Steps \ (Entering \cup {"put", "verify"}),
           pc \in Busy => call[p].action \in Actions, Goes(p, pc)
    PROVE  Moves(p)
<1>1. call' = [call EXCEPT ![p] = [call[p] EXCEPT !.pc = pc]]
  BY CallFields DEF Goes
<1>2. /\ [call[p] EXCEPT !.pc = pc] \in Call
      /\ [call[p] EXCEPT !.pc = pc].pc = pc
      /\ [call[p] EXCEPT !.pc = pc].action = call[p].action
  BY CallFields DEF Call
<1>3. QED
  BY <1>1, <1>2 DEF Moves, Loaded

LEMMA ReturnsMoves ==
    ASSUME IInv, NEW p \in Procs, Returns(p)
    PROVE  Moves(p)
BY NoCallTyped DEF Moves, Returns, Entering, Busy, Loaded

LEMMA GoesWithMoves ==
    ASSUME IInv, NEW p \in Procs, NEW pc \in Steps \ {"put", "verify"}, GoesWith(p, pc),
           Transacts, pc \in Busy => call[p].action \in Actions,
           pc \in Entering /\ call[p].action = Edit => Approved'
    PROVE  Moves(p)
<1>1. call' = [call EXCEPT ![p] = [call[p] EXCEPT !.pc = pc, !.record = Record']]
  BY CallFields DEF GoesWith
<1>2. Record' \in Versioned
  BY DEF Transacts, StoreTypeOK, Record, Versioned
<1>3. /\ [call[p] EXCEPT !.pc = pc, !.record = Record'] \in Call
      /\ [call[p] EXCEPT !.pc = pc, !.record = Record'].pc = pc
      /\ [call[p] EXCEPT !.pc = pc, !.record = Record'].action = call[p].action
  BY <1>2, CallFields DEF Call
<1>4. QED
  BY <1>1, <1>3 DEF Moves, Loaded

LEMMA DispatchesMoves ==
    ASSUME IInv, NEW p \in Procs, NEW a \in Actions, Dispatches(p, a)
    PROVE  Moves(p)
<1>1. call' = [call EXCEPT ![p] = [call[p] EXCEPT !.pc = "dispatch", !.action = a]]
  BY CallFields DEF Dispatches
<1>2. /\ [call[p] EXCEPT !.pc = "dispatch", !.action = a] \in Call
      /\ [call[p] EXCEPT !.pc = "dispatch", !.action = a].pc = "dispatch"
      /\ [call[p] EXCEPT !.pc = "dispatch", !.action = a].action = a
  BY CallFields DEF Call, Steps
<1>3. QED
  BY <1>1, <1>2 DEF Moves, Entering, Loaded

\* A call that takes an answer along.
LEMMA HearsMoves ==
    ASSUME IInv, NEW p \in Procs, NEW pc \in Steps \ (Entering \cup {"verify"}),
           NEW says \in Verdicts \cup RenderStatus,
           pc \in Busy => call[p].action \in Actions, pc = "put" => says \in Verdicts,
           call' = [call EXCEPT ![p].pc = pc, ![p].says = says]
    PROVE  Moves(p)
<1>1. call' = [call EXCEPT ![p] = [call[p] EXCEPT !.pc = pc, !.says = says]]
  BY CallFields
<1>2. /\ [call[p] EXCEPT !.pc = pc, !.says = says] \in Call
      /\ [call[p] EXCEPT !.pc = pc, !.says = says].pc = pc
      /\ [call[p] EXCEPT !.pc = pc, !.says = says].action = call[p].action
      /\ [call[p] EXCEPT !.pc = pc, !.says = says].says = says
  BY CallFields DEF Call
<1>3. QED
  BY <1>1, <1>2 DEF Moves, Loaded

\* A call that reads the record again.
LEMMA RereadsMoves ==
    ASSUME IInv, NEW p \in Procs, NEW pc \in Easy,
           call' = [call EXCEPT ![p].pc = pc, ![p].record = Record]
    PROVE  Moves(p)
<1>1. call' = [call EXCEPT ![p] = [call[p] EXCEPT !.pc = pc, !.record = Record]]
  BY CallFields
<1>2. Record \in Versioned
  BY RecordTyped DEF IInv, TypeOK
<1>3. /\ [call[p] EXCEPT !.pc = pc, !.record = Record] \in Call
      /\ [call[p] EXCEPT !.pc = pc, !.record = Record].pc = pc
  BY <1>2, CallFields DEF Call, Easy
<1>4. QED
  BY <1>1, <1>3 DEF Moves, Loaded, Easy, Busy, Entering

LEMMA FreshMoves ==
    ASSUME IInv, NEW p \in Procs, NEW pc \in Easy \cup {"verify"}, NEW record \in Versioned,
           NEW check \in Nat, NEW resuming \in BOOLEAN, pc = "verify" => check > 0,
           call' = [call EXCEPT ![p] = Fresh(pc, record, check, resuming)]
    PROVE  Moves(p)
<1>1. /\ Fresh(pc, record, check, resuming) \in Call
      /\ Fresh(pc, record, check, resuming).pc = pc
      /\ Fresh(pc, record, check, resuming).check = check
  BY DEF Fresh, Call, RenderStatus, Easy, Steps
<1>2. QED
  BY <1>1 DEF Moves, Loaded, Easy, Busy, Entering

-----------------------------------------------------------------------------
(* The shapes of a step keep the invariant.                                *)

LEMMA AroundUnchanged ==
    ASSUME IInv, UNCHANGED <<runs, output, outside>>
    PROVE  Around
BY DEF IInv, TypeOK, DispatchTypeOK, Around, outside

\* Nothing but the call changes.
LEMMA OnlyMoves ==
    ASSUME IInv, NEW p \in Procs, Moves(p),
           UNCHANGED <<storeVars, runs, output, outside>>
    PROVE  IInv'
BY StoreUnchanged, AroundUnchanged, Preserved

LEMMA ReadsOK ==
    ASSUME IInv, NEW p \in Procs, NEW pc \in Easy, Reads(p, pc)
    PROVE  IInv'
<1>1. call' = [call EXCEPT ![p] = Fresh(pc, Record, 0, FALSE)]
  BY DEF Reads
<1>2. Record \in Versioned
  BY RecordTyped DEF IInv, TypeOK
<1>3. Moves(p)
  BY <1>1, <1>2, FreshMoves DEF Easy
<1>4. QED
  BY <1>3, OnlyMoves DEF Reads

LEMMA SettlesOK ==
    ASSUME IInv, NEW p \in Procs, NEW target \in States, NEW receipts, Quiet(receipts),
           Settles(p, target, receipts)
    PROVE  IInv'
<1>1. Transacts
  BY Transitions DEF Settles
<1>2. Moves(p) /\ Around
  BY ReturnsMoves, AroundUnchanged DEF Settles
<1>3. QED
  BY <1>1, <1>2, Preserved

LEMMA SettlesFromOK ==
    ASSUME IInv, NEW p \in Procs, NEW from, NEW target \in States,
           NEW receipts, Quiet(receipts), SettlesFrom(p, from, target, receipts)
    PROVE  IInv'
<1>1. Transacts
  BY Transitions DEF SettlesFrom
<1>2. Moves(p) /\ Around
  BY ReturnsMoves, AroundUnchanged DEF SettlesFrom
<1>3. QED
  BY <1>1, <1>2, Preserved

LEMMA NotesOK ==
    ASSUME IInv, NEW p \in Procs, NEW e \in Receipt, e.type \notin Decisions,
           NEW pc \in Easy, Notes(p, e, pc), UNCHANGED outside
    PROVE  IInv'
<1>1. Transacts
  BY Appends DEF Notes
<1>2. Moves(p) /\ Around
  BY <1>1, GoesWithMoves, AroundUnchanged DEF Notes, Easy, Busy
<1>3. QED
  BY <1>1, <1>2, Preserved

LEMMA ReceiptedTyped ==
    ASSUME NEW type \in ReceiptTypes, NEW a \in Actions \cup {NoAction},
           NEW attempt \in Nat, NEW says \in Verdicts \cup RenderStatus
    PROVE  /\ Receipted(type, a, attempt, says) \in Receipt
           /\ Receipted(type, a, attempt, says).type = type
BY DEF Receipted, Receipt

-----------------------------------------------------------------------------
(* The actions of dispatch_durable.                                        *)

LEMMA DispatchesSomething ==
    ASSUME IInv, NEW p \in Procs
    PROVE  Cardinality(Started(call[p].action)) \in Nat
<1>1. IsFiniteSet(ledger)
  BY DEF IInv, TypeOK, StoreTypeOK
<1>2. Started(call[p].action) \subseteq ledger
  BY DEF Started, ReceiptsOf
<1>3. QED
  BY <1>1, <1>2, FS_Subset, FS_CardinalityType

\* An approved call goes on to its receipt.
LEMMA AuthorizedOK ==
    ASSUME IInv, NEW p \in Procs, DispatchAuthorized(p), UNCHANGED outside
    PROVE  IInv'
<1> DEFINE attempt == Cardinality(Started(call[p].action)) + 1
           c == [call[p] EXCEPT !.pc = "start", !.attempt = attempt]
<1>1. attempt \in Nat
  BY DispatchesSomething
<1>2. call' = [call EXCEPT ![p] = c]
  BY CallFields DEF DispatchAuthorized
<1>3. c \in Call /\ c.pc = "start" /\ c.action = call[p].action
  BY <1>1, CallFields DEF Call, Steps
<1>4. UNCHANGED <<storeVars, runs, output, outside>>
  BY DEF DispatchAuthorized
<1>5. call[p].action = Edit => Approved'
  BY <1>4, ApprovalStays DEF DispatchAuthorized, storeVars
<1>6. Moves(p)
  <2>1. c.action \in Actions
    BY <1>3, CallFields DEF Loaded, Busy, DispatchAuthorized, At
  <2>2. QED
    BY <1>2, <1>3, <1>5, <2>1 DEF Moves, Loaded
<1>7. QED
  BY <1>4, <1>6, OnlyMoves

\* The receipt says which call enters its tool.
LEMMA StartedStep ==
    ASSUME IInv, NEW p \in Procs, DispatchStarted(p), UNCHANGED outside
    PROVE  IInv'
<1> DEFINE a == call[p].action
           e == Receipted("dispatch.started", a, call[p].attempt, "none")
<1>0. a \in Actions
  BY CallFields DEF Loaded, Busy, Entering, DispatchStarted, At
<1>1. e \in Receipt /\ e.type = "dispatch.started"
  BY CallFields, ReceiptedTyped DEF ReceiptTypes, RenderStatus
<1>2. Transacts
  BY <1>1, Appends DEF DispatchStarted, Decisions
<1>3. a = Edit => Approved'
  <2>1. a = Edit => Approved
    BY DEF DispatchStarted, At, IInv, Permitted, Entering
  <2>2. QED
    BY <1>2, <2>1, ApprovalStays DEF Transacts
<1>4. Moves(p)
  BY <1>0, <1>2, <1>3, GoesWithMoves DEF DispatchStarted, Steps
<1>5. runs' \in [Actions -> Nat]
  BY <1>0 DEF DispatchStarted, IInv, TypeOK, DispatchTypeOK
<1>6. Around
  BY <1>5 DEF DispatchStarted, IInv, TypeOK, DispatchTypeOK, Around, outside
<1>7. QED
  BY <1>2, <1>4, <1>6, Preserved

\* What the other steps of the dispatcher leave alone.
LEMMA DispatchOK ==
    ASSUME IInv, NEW p \in Procs, Dispatch(p), UNCHANGED outside
    PROVE  IInv'
<1>1. CASE DispatchReplayed(p)
  <2>1. call[p].action \in Actions
    BY <1>1, CallFields DEF Loaded, Busy, DispatchReplayed, At
  <2>2. results[call[p].action] \in Verdicts
    BY <1>1, <2>1 DEF DispatchReplayed, Readable, IInv, TypeOK, StoreTypeOK
  <2>3. Moves(p)
    BY <1>1, <2>1, <2>2, HearsMoves DEF DispatchReplayed, Steps, Entering
  <2>4. QED
    BY <1>1, <2>3, OnlyMoves DEF DispatchReplayed
<1>2. CASE DispatchInDoubt(p)
  <2>1. Moves(p)
    BY <1>2, GoesMoves DEF DispatchInDoubt, Steps, Busy, Entering
  <2>2. QED
    BY <1>2, <2>1, OnlyMoves DEF DispatchInDoubt
<1>3. CASE DispatchRefused(p)
  <2>1. Moves(p)
    BY <1>3, GoesMoves DEF DispatchRefused, Steps, Busy, Entering
  <2>2. QED
    BY <1>3, <2>1, OnlyMoves DEF DispatchRefused
<1>4. CASE ToolReturns(p)
  <2>1. PICK verdict \in Verdicts :
              /\ call' = [call EXCEPT ![p].pc = "put", ![p].says = verdict]
              /\ Touched(call[p].action)
    BY <1>4, ActionsAssumption DEF ToolReturns
  <2>2. call[p].action \in Actions
    BY <1>4, CallFields DEF Loaded, Busy, Entering, ToolReturns, At
  <2>3. Moves(p)
    BY <2>1, <2>2, HearsMoves DEF Steps, Entering
  <2>4. Around
    BY <1>4, <2>1 DEF ToolReturns, Touched, IInv, TypeOK, DispatchTypeOK, Around, outside
  <2>5. QED
    BY <1>4, <2>3, <2>4, StoreUnchanged, Preserved DEF ToolReturns
<1>5. CASE ToolRaises(p)
  <2> DEFINE e == Receipted("dispatch.failed", call[p].action, call[p].attempt, "none")
  <2>1. e \in Receipt /\ e.type = "dispatch.failed"
    BY CallFields, ReceiptedTyped DEF ReceiptTypes, RenderStatus
  <2>2. Transacts
    BY <1>5, <2>1, Appends DEF ToolRaises, Decisions
  <2>3. Moves(p)
    BY <1>5, ReturnsMoves DEF ToolRaises
  <2>4. Around
    BY <1>5 DEF ToolRaises, Touched, IInv, TypeOK, DispatchTypeOK, Around, outside
  <2>5. QED
    BY <2>2, <2>3, <2>4, Preserved
<1>6. CASE ResultStored(p)
  <2>1. call[p].action \in Actions /\ call[p].says \in Verdicts
    BY <1>6, CallFields DEF Loaded, Busy, ResultStored, At
  <2>2. Transacts
    BY <1>6, <2>1, Puts DEF ResultStored
  <2>3. Moves(p)
    BY <1>6, <2>1, GoesMoves DEF ResultStored, Steps, Entering
  <2>4. QED
    BY <1>6, <2>2, <2>3, AroundUnchanged, Preserved DEF ResultStored
<1>7. CASE DispatchCompleted(p)
  <2> DEFINE e == Receipted("dispatch.completed", call[p].action,
                            call[p].attempt, call[p].says)
  <2>1. e \in Receipt /\ e.type = "dispatch.completed"
    BY CallFields, ReceiptedTyped DEF ReceiptTypes
  <2>2. Transacts
    BY <1>7, <2>1, Appends DEF DispatchCompleted, Decisions
  <2>3. Moves(p)
    BY <1>7, GoesMoves DEF DispatchCompleted, Steps, Busy, Entering
  <2>4. QED
    BY <1>7, <2>2, <2>3, AroundUnchanged, Preserved DEF DispatchCompleted
<1>8. QED
  BY <1>1, <1>2, <1>3, <1>4, <1>5, <1>6, <1>7, AuthorizedOK, StartedStep DEF Dispatch

LEMMA StopsOK ==
    ASSUME IInv, NEW p \in Procs, Stops(p), UNCHANGED outside
    PROVE  IInv'
<1>1. Moves(p) /\ Transacts
  BY ReturnsMoves, StoreUnchanged DEF Stops
<1>2. Around
  BY DEF Stops, Touched, IInv, TypeOK, DispatchTypeOK, Around, outside
<1>3. QED
  BY <1>1, <1>2, Preserved

-----------------------------------------------------------------------------
(* The actions of the service.                                             *)

LEMMA NothingIsQuiet == Quiet({})
BY DEF Quiet

LEMMA ContinueOK ==
    ASSUME IInv, NEW p \in Procs, NEW resuming \in BOOLEAN, Continue(p, resuming)
    PROVE  IInv'
<1>1. Record \in Versioned
  BY RecordTyped DEF IInv, TypeOK
<1>2. "continue" \in Easy
  BY DEF Easy, Steps, Busy, Entering
<1>3. call' = [call EXCEPT ![p] = Fresh("continue", Record, 0, resuming)]
  BY DEF Continue
<1>4. "continue" \in Easy \cup {"verify"} /\ 0 \in Nat /\ resuming \in BOOLEAN
  BY <1>2
<1>5. "continue" # "verify"
  OBVIOUS
<1>6. Moves(p)
  BY <1>1, <1>3, <1>4, <1>5, FreshMoves
<1>7. QED
  BY <1>6, OnlyMoves DEF Continue

\* start and the steps from intake to plan.
LEMMA EarlyOK ==
    ASSUME IInv, NEW p \in Procs,
           \/ StartAgain(p) \/ StartAbstains(p) \/ StartRejects(p)
           \/ LeaveIntake(p) \/ AdapterAbstains(p) \/ Recon(p) \/ ReconEnds(p)
           \/ PlanReading(p) \/ Plan(p) \/ RequestDecision(p)
    PROVE  IInv'
<1> USE NothingIsQuiet
<1>0. /\ {"abstaining", "rejecting", "planned"} \subseteq Easy
      /\ {"recon", "needs_review", "failed", "plan", "execute", "decision"} \subseteq States
  BY DEF Easy, Steps, Busy, Entering, States, Terminal
<1>1. CASE StartAgain(p)
  BY <1>0, <1>1, ReadsOK DEF StartAgain
<1>2. CASE StartAbstains(p)
  <2>1. CASE Settles(p, "needs_review", {})
    BY <1>0, <2>1, SettlesOK
  <2>2. CASE /\ Transition("recon", call[p].record, {})
             /\ GoesWith(p, "abstaining")
             /\ UNCHANGED <<runs, output, outside>>
    <3>1. Transacts
      BY <1>0, <2>2, Transitions
    <3>2. Moves(p)
      BY <1>0, <2>2, <3>1, GoesWithMoves DEF Easy, Busy
    <3>3. QED
      BY <2>2, <3>1, <3>2, AroundUnchanged, Preserved
  <2>3. QED
    BY <1>2, <2>1, <2>2 DEF StartAbstains
<1>3. CASE StartRejects(p)
  BY <1>0, <1>3, SettlesOK DEF StartRejects
<1>4. CASE LeaveIntake(p)
  BY <1>0, <1>4, SettlesOK DEF LeaveIntake
<1>5. CASE AdapterAbstains(p)
  BY <1>0, <1>5, SettlesOK DEF AdapterAbstains
<1>6. CASE Recon(p)
  BY <1>6, ActionsAssumption, DispatchesMoves, OnlyMoves DEF Recon
<1>7. CASE ReconEnds(p)
  <2>1. (IF call[p].says = "bad" THEN "needs_review" ELSE "plan") \in States
    BY <1>0
  <2>2. QED
    BY <1>7, <2>1, SettlesFromOK DEF ReconEnds
<1>8. CASE PlanReading(p)
  BY <1>0, <1>8, SettlesOK DEF PlanReading
<1>9. CASE Plan(p)
  <2> DEFINE e == Receipted("action.planned", Edit, 0, "none")
  <2>1. e \in Receipt /\ e.type \notin Decisions
    BY ActionsAssumption, ReceiptedTyped DEF ReceiptTypes, RenderStatus, Decisions
  <2>2. QED
    BY <1>0, <1>9, <2>1, NotesOK DEF Plan
<1>10. CASE RequestDecision(p)
  BY <1>0, <1>10, SettlesOK DEF RequestDecision
<1>11. QED
  BY <1>1, <1>2, <1>3, <1>4, <1>5, <1>6, <1>7, <1>8, <1>9, <1>10

\* The steps of execute.
LEMMA ExecuteOK ==
    ASSUME IInv, NEW p \in Procs,
           \/ ExecuteReading(p) \/ Execute(p) \/ Prepare(p) \/ CopySource(p)
           \/ ExecutionEnds(p)
    PROVE  IInv'
<1>0. Edit \in Actions /\ "verify" \in States
  BY ActionsAssumption DEF States
<1>1. CASE ExecuteReading(p)
  <2> DEFINE e == Receipted("execution.completed", NoAction, 0, "good")
  <2>1. e \in Receipt /\ e.type = "execution.completed"
    BY ReceiptedTyped DEF ReceiptTypes, Verdicts
  <2>2. Quiet({e})
    BY <2>1 DEF Quiet, Decisions
  <2>3. QED
    BY <1>0, <1>1, <2>2, SettlesOK DEF ExecuteReading
<1>2. CASE Execute(p)
  <2>1. CASE Dispatches(p, Edit)
    BY <1>0, <1>2, <2>1, DispatchesMoves, OnlyMoves DEF Execute
  <2>2. CASE call' = [call EXCEPT ![p].pc = "prepare", ![p].action = Edit]
    <3> DEFINE c == [call[p] EXCEPT !.pc = "prepare", !.action = Edit]
    <3>1. call' = [call EXCEPT ![p] = c]
      BY <2>2, CallFields
    <3>2. c \in Call /\ c.pc = "prepare" /\ c.action = Edit
      BY <1>0, CallFields DEF Call, Steps
    <3>3. Moves(p)
      BY <1>0, <3>1, <3>2 DEF Moves, Loaded, Entering
    <3>4. QED
      BY <1>2, <3>3, OnlyMoves DEF Execute
  <2>3. QED
    BY <1>2, <2>1, <2>2 DEF Execute
<1>3. CASE Prepare(p)
  <2>1. call[p].action \in Actions
    BY <1>3, CallFields DEF Loaded, Busy, Prepare, At
  <2>2. \E pc \in {"copy", "dispatch", "refused"} : Goes(p, pc)
    BY <1>3 DEF Prepare
  <2>3. Moves(p)
    BY <2>1, <2>2, GoesMoves DEF Steps, Entering
  <2>4. QED
    BY <1>3, <2>3, OnlyMoves DEF Prepare
<1>4. CASE CopySource(p)
  <2>1. call[p].action \in Actions
    BY <1>4, CallFields DEF Loaded, Busy, CopySource, At
  <2>2. Moves(p) /\ Transacts
    BY <1>4, <2>1, GoesMoves, StoreUnchanged DEF CopySource, Steps, Entering
  <2>3. Around
    BY <1>4 DEF CopySource, IInv, TypeOK, DispatchTypeOK, Around, outside
  <2>4. QED
    BY <2>2, <2>3, Preserved
<1>5. CASE ExecutionEnds(p)
  <2> DEFINE e == Receipted("execution.completed", Edit, 0, call[p].says)
  <2>1. e \in Receipt /\ e.type = "execution.completed"
    BY <1>0, CallFields, ReceiptedTyped DEF ReceiptTypes
  <2>2. Quiet({e})
    BY <2>1 DEF Quiet, Decisions
  <2>3. QED
    BY <1>0, <1>5, <2>2, SettlesFromOK DEF ExecutionEnds
<1>6. QED
  BY <1>1, <1>2, <1>3, <1>4, <1>5

\* The steps of verify, without the render.
LEMMA VerifyOK ==
    ASSUME IInv, NEW p \in Procs,
           \/ EnterVerify(p) \/ NextCheck(p) \/ CheckReturns(p) \/ NoteCheck(p)
           \/ CheckNoted(p) \/ Complete(p) \/ Incomplete(p)
    PROVE  IInv'
<1> USE NothingIsQuiet
<1>0. /\ {"check", "next"} \subseteq Easy
      /\ {"completed", "needs_review"} \subseteq States
      /\ Record \in Versioned
  BY RecordTyped DEF Easy, Steps, Busy, Entering, States, Terminal, IInv, TypeOK
<1>1. CASE EnterVerify(p)
  <2>1. call' = [call EXCEPT ![p] = Fresh("verify", call[p].record, 1, FALSE)]
    BY <1>1 DEF EnterVerify
  <2>2. /\ "verify" \in Easy \cup {"verify"} /\ call[p].record \in Versioned
        /\ 1 \in Nat /\ 1 > 0 /\ FALSE \in BOOLEAN
    BY CallFields
  <2>3. Moves(p)
    BY <2>1, <2>2, FreshMoves
  <2>4. QED
    BY <1>1, <2>3, OnlyMoves DEF EnterVerify
<1>2. CASE NextCheck(p)
  <2> DEFINE a == CheckList[call[p].check]
  <2>1. a \in Actions
    <3>1. call[p].check \in Nat /\ call[p].check > 0 /\ call[p].check <= Len(CheckList)
      BY <1>2, CallFields DEF NextCheck, At, Loaded
    <3>2. CheckList = Checks
      BY <3>1 DEF CheckList
    <3>3. call[p].check \in 1 .. Len(Checks)
      BY <3>1, <3>2, ServiceAssumption
    <3>4. QED
      BY <3>2, <3>3, ActionsAssumption
  <2>2. CASE Readable(a)
    <3> DEFINE c == [call[p] EXCEPT !.pc = "check", !.action = a, !.says = results[a]]
    <3>1. results[a] \in Verdicts
      BY <2>1, <2>2 DEF Readable, IInv, TypeOK, StoreTypeOK
    <3>2. call' = [call EXCEPT ![p] = c]
      BY <1>2, <2>2, CallFields DEF NextCheck
    <3>3. c \in Call /\ c.pc = "check"
      BY <2>1, <3>1, CallFields DEF Call, Steps
    <3>4. Moves(p)
      BY <3>2, <3>3 DEF Moves, Loaded, Busy, Entering
    <3>5. QED
      BY <1>2, <3>4, OnlyMoves DEF NextCheck
  <2>3. CASE Dispatches(p, a)
    BY <1>2, <2>1, <2>3, DispatchesMoves, OnlyMoves DEF NextCheck
  <2>4. QED
    BY <1>2, <2>2, <2>3 DEF NextCheck
<1>3. CASE CheckReturns(p)
  BY <1>0, <1>3, RereadsMoves, OnlyMoves DEF CheckReturns
<1>4. CASE NoteCheck(p)
  <2>1. CASE Goes(p, "next") /\ UNCHANGED <<storeVars, runs, output>>
    <3>1. Moves(p)
      BY <1>0, <2>1, GoesMoves DEF Easy, Busy
    <3>2. QED
      BY <1>4, <2>1, <3>1, OnlyMoves DEF NoteCheck
  <2>2. CASE Notes(p, Checked(call[p].action, call[p].says), "next")
    <3> DEFINE e == Checked(call[p].action, call[p].says)
    <3>0. PICK says \in {"good", "bad"} :
             e = Receipted("verification.checked", call[p].action, 0, says)
      BY DEF Checked
    <3>1. e \in Receipt /\ e.type = "verification.checked"
      BY <3>0, CallFields, ReceiptedTyped DEF ReceiptTypes, Verdicts
    <3>2. QED
      BY <1>0, <1>4, <2>2, <3>1, NotesOK DEF NoteCheck, Decisions
  <2>3. QED
    BY <1>4, <2>1, <2>2 DEF NoteCheck
<1>5. CASE CheckNoted(p)
  <2>1. call' = [call EXCEPT ![p] = Fresh("verify", Record, call[p].check + 1, FALSE)]
    BY <1>5 DEF CheckNoted
  <2>2. call[p].check + 1 \in Nat /\ call[p].check + 1 > 0
    BY CallFields
  <2>3. Moves(p)
    BY <1>0, <2>1, <2>2, FreshMoves
  <2>4. QED
    BY <1>5, <2>3, OnlyMoves DEF CheckNoted
<1>6. CASE Complete(p)
  BY <1>0, <1>6, SettlesOK DEF Complete
<1>7. CASE Incomplete(p)
  BY <1>0, <1>7, SettlesOK DEF Incomplete
<1>8. QED
  BY <1>1, <1>2, <1>3, <1>4, <1>5, <1>6, <1>7

\* The render verification.
LEMMA RenderOK ==
    ASSUME IInv, NEW p \in Procs,
           \/ SubmitRender(p) \/ NoteSubmitted(p) \/ PollRender(p) \/ NoteRendered(p)
           \/ RenderUnverified(p) \/ CompleteRendered(p) \/ RenderRefused(p)
    PROVE  IInv'
<1> USE NothingIsQuiet
<1>0. /\ {"submitted", "rendered", "complete", "stuck"} \subseteq Easy
      /\ {"completed", "needs_review"} \subseteq States
      /\ render \in RenderStatus /\ "none" \in RenderStatus /\ "pending" \in RenderStatus
      /\ "succeeded" \in RenderStatus
  BY DEF Easy, Steps, Busy, Entering, States, Terminal, RenderStatus, IInv, TypeOK
<1>1. CASE SubmitRender(p)
  <2>1. render' \in RenderStatus
    BY <1>0, <1>1 DEF SubmitRender
  <2>2. Moves(p)
    BY <1>0, <1>1, <2>1, HearsMoves DEF SubmitRender, Easy, Busy
  <2>3. Around
    BY <1>1, <2>1 DEF SubmitRender, IInv, TypeOK, DispatchTypeOK, Around
  <2>4. QED
    BY <1>1, <2>2, <2>3, StoreUnchanged, Preserved DEF SubmitRender
<1>2. CASE NoteSubmitted(p)
  <2> DEFINE e == Receipted("render.submitted", NoAction, 0, call[p].says)
  <2>1. e \in Receipt /\ e.type = "render.submitted"
    BY CallFields, ReceiptedTyped DEF ReceiptTypes
  <2>2. QED
    BY <1>0, <1>2, <2>1, NotesOK DEF NoteSubmitted, Decisions
<1>3. CASE PollRender(p)
  <2>1. PICK answer \in {render, "none"} :
               call' = [call EXCEPT ![p].pc = "rendered", ![p].says = answer]
    BY <1>3 DEF PollRender
  <2>2. Moves(p)
    BY <1>0, <2>1, HearsMoves DEF Easy, Busy
  <2>3. QED
    BY <1>3, <2>2, OnlyMoves DEF PollRender
<1>4. CASE NoteRendered(p)
  <2> DEFINE e == Receipted("render.completed", NoAction, 0, "succeeded")
  <2>1. e \in Receipt /\ e.type = "render.completed"
    BY <1>0, ReceiptedTyped DEF ReceiptTypes
  <2>2. QED
    BY <1>0, <1>4, <2>1, NotesOK DEF NoteRendered, Decisions
<1>5. CASE RenderUnverified(p)
  BY <1>0, <1>5, SettlesOK DEF RenderUnverified
<1>6. CASE CompleteRendered(p)
  BY <1>0, <1>6, SettlesOK DEF CompleteRendered
<1>7. CASE RenderRefused(p)
  <2>1. Moves(p)
    BY <1>0, <1>7, GoesMoves DEF RenderRefused, Easy, Busy
  <2>2. QED
    BY <1>7, <2>1, OnlyMoves DEF RenderRefused
<1>8. QED
  BY <1>1, <1>2, <1>3, <1>4, <1>5, <1>6, <1>7

\* What becomes of a refused dispatch.
LEMMA RefusalOK ==
    ASSUME IInv, NEW p \in Procs, RefusalNoted(p) \/ Reconsider(p) \/ Abstain(p)
    PROVE  IInv'
<1>0. {"stuck", "review"} \subseteq Easy /\ "needs_review" \in States
  BY DEF Easy, Steps, Busy, Entering, States, Terminal
<1>1. CASE RefusalNoted(p)
  <2> DEFINE e == Checked(call[p].action, "bad")
  <2>1. PICK says \in {"good", "bad"} :
            e = Receipted("verification.checked", call[p].action, 0, says)
    BY DEF Checked
  <2>2. e \in Receipt /\ e.type = "verification.checked"
    BY <2>1, CallFields, ReceiptedTyped DEF ReceiptTypes, Verdicts
  <2>3. QED
    BY <1>0, <1>1, <2>2, NotesOK DEF RefusalNoted, Decisions
<1>2. CASE Reconsider(p)
  BY <1>0, <1>2, RereadsMoves, OnlyMoves DEF Reconsider
<1>3. CASE Abstain(p)
  BY <1>0, <1>3, NothingIsQuiet, SettlesOK DEF Abstain
<1>4. QED
  BY <1>1, <1>2, <1>3

\* A decision is taken under one key, so there is never a second one.
LEMMA AnswerStep ==
    ASSUME IInv, NEW p \in Procs, NEW type \in Decisions, NEW pc \in Easy,
           Notes(p, Receipted(type, Edit, 0, "none"), pc), UNCHANGED outside
    PROVE  IInv'
<1> DEFINE e == Receipted(type, Edit, 0, "none")
<1>1. /\ e \in Receipt
      /\ e.type = type /\ e.action = Edit /\ e.attempt = 0
  BY ActionsAssumption DEF Receipted, Receipt, ReceiptTypes, RenderStatus
<1>2. StoreTypeOK' /\ ledger' = ledger \cup {e}
  BY <1>1, AppendTyped DEF Notes
<1>3. Approved => Approved'
  BY <1>2, ApprovalStays
<1>4. \A f \in ledger : f.type \in Decisions => f = e
  <2>1. SUFFICES ASSUME NEW f \in ledger, f.type \in Decisions
                 PROVE  EventKey(f) = EventKey(e)
    BY <1>1 DEF Notes, AppendEvent
  <2>2. f.action = Edit /\ f.attempt = 0
    BY <2>1 DEF IInv, OneAnswer
  <2>3. QED
    BY <1>1, <2>1, <2>2 DEF EventKey
<1>5. OneAnswer'
  BY <1>1, <1>2, <1>4 DEF OneAnswer, IInv
<1>6. /\ call' = [call EXCEPT ![p] = [call[p] EXCEPT !.pc = pc, !.record = Record']]
      /\ Record' \in Versioned
  BY <1>2, CallFields DEF Notes, GoesWith, StoreTypeOK, Record, Versioned
<1>7. /\ [call[p] EXCEPT !.pc = pc, !.record = Record'] \in Call
      /\ [call[p] EXCEPT !.pc = pc, !.record = Record'].pc = pc
  BY <1>6, CallFields DEF Call, Easy
<1>8. call' \in [Procs -> Call]
  BY <1>6, <1>7, CallFields
<1>9. TypeOK'
  BY <1>2, <1>8 DEF TypeOK, DispatchTypeOK, Notes, IInv, outside
<1>10. /\ call'[p].pc = pc
       /\ \A q \in Procs : q # p => call'[q] = call[q]
  BY <1>6, <1>7, CallFields
<1>11. Permitted'
  BY <1>3, <1>10 DEF Permitted, IInv, Easy, Busy
<1>12. \A q \in Procs : Loaded(call[q])'
  BY <1>10 DEF Loaded, IInv, Easy, Busy, Entering
<1>13. QED
  BY <1>5, <1>9, <1>11, <1>12 DEF IInv

\* approve_decision and cancel.
LEMMA ClientOK ==
    ASSUME IInv, NEW p \in Procs,
           \/ Decide(p) \/ RecordDecision(p) \/ ApplyDecision(p)
           \/ Cancel(p) \/ CancelRender(p) \/ Cancelled(p)
    PROVE  IInv'
<1> USE NothingIsQuiet
<1>0. /\ {"approve", "reject", "approved", "rejected", "cancel", "cancelling"} \subseteq Easy
      /\ {"execute", "needs_review", "cancelled"} \subseteq States
  BY DEF Easy, Steps, Busy, Entering, States, Terminal
<1>1. CASE Decide(p)
  BY <1>0, <1>1, ReadsOK DEF Decide
<1>2. CASE RecordDecision(p)
  BY <1>0, <1>2, AnswerStep DEF RecordDecision, Decisions
<1>3. CASE ApplyDecision(p)
  BY <1>0, <1>3, SettlesOK DEF ApplyDecision
<1>4. CASE Cancel(p)
  BY <1>0, <1>4, ReadsOK DEF Cancel
<1>5. CASE CancelRender(p)
  <2>1. Moves(p) /\ Transacts
    BY <1>0, <1>5, GoesMoves, StoreUnchanged DEF CancelRender, Easy, Busy
  <2>2. Around
    BY <1>5 DEF CancelRender, IInv, TypeOK, DispatchTypeOK, Around, RenderStatus
  <2>3. QED
    BY <2>1, <2>2, Preserved
<1>6. CASE Cancelled(p)
  BY <1>0, <1>6, SettlesOK DEF Cancelled
<1>7. QED
  BY <1>1, <1>2, <1>3, <1>4, <1>5, <1>6

-----------------------------------------------------------------------------
(* The environment, and the theorems.                                      *)

LEMMA CallsUnchanged ==
    ASSUME IInv, StoreTypeOK', ledger' = ledger, UNCHANGED <<dispatchVars, order>>,
           render' \in RenderStatus
    PROVE  IInv'
<1>1. TypeOK'
  BY DEF IInv, TypeOK, DispatchTypeOK, dispatchVars
<1>2. OneAnswer' /\ Permitted'
  BY DEF IInv, OneAnswer, Permitted, Approved, ReceiptsOf, dispatchVars
<1>3. \A q \in Procs : Loaded(call[q])'
  BY DEF IInv, Loaded, dispatchVars
<1>4. QED
  BY <1>1, <1>2, <1>3 DEF IInv

LEMMA InitIInv == Init => IInv
<1> SUFFICES ASSUME Init
             PROVE  IInv
  OBVIOUS
<1>1. StoreTypeOK
  <2>1. IsFiniteSet(ledger) /\ Cardinality(ledger) = 0
    BY FS_EmptySet DEF Init, StoreInit
  <2>2. QED
    BY <2>1 DEF Init, StoreInit, StoreTypeOK, States
<1>2. DispatchTypeOK
  BY NoCallTyped, ActionsAssumption DEF Init, DispatchInit, DispatchTypeOK
<1>3. order \in Orders /\ render \in RenderStatus
  BY DEF Init, RenderStatus
<1>4. OneAnswer
  BY DEF Init, StoreInit, OneAnswer
<1>5. \A p \in Procs : call[p] = NoCall
  BY DEF Init, DispatchInit
<1>6. Permitted /\ \A p \in Procs : Loaded(call[p])
  BY <1>5, NoCallTyped DEF Permitted, Loaded, Busy, Entering
<1>7. QED
  BY <1>1, <1>2, <1>3, <1>4, <1>6 DEF IInv, TypeOK

LEMMA NextIInv == IInv /\ [Next]_vars => IInv'
<1> SUFFICES ASSUME IInv, [Next]_vars
             PROVE  IInv'
  OBVIOUS
<1>0. StoreTypeOK
  BY DEF IInv, TypeOK
<1>1. CASE \E p \in Procs : Step(p)
  BY <1>1, EarlyOK, ExecuteOK, VerifyOK, RenderOK, RefusalOK, ClientOK DEF Step
<1>2. CASE \E p \in Procs, resuming \in BOOLEAN : Continue(p, resuming)
  BY <1>2, ContinueOK
<1>3. CASE \E p \in Procs : (Dispatch(p) \/ Stops(p)) /\ UNCHANGED outside
  BY <1>3, DispatchOK, StopsOK
<1>4. CASE \E a \in Actions : ResultExpires(a) /\ UNCHANGED <<dispatchVars, outside>>
  <2>1. StoreTypeOK' /\ ledger' = ledger
    BY <1>0, <1>4 DEF ResultExpires, StoreTypeOK
  <2>2. QED
    BY <1>4, <2>1, CallsUnchanged DEF outside, IInv, TypeOK
<1>5. CASE PurgeExpired /\ UNCHANGED <<dispatchVars, outside>>
  <2>1. StoreTypeOK' /\ ledger' = ledger
    BY <1>0, <1>5 DEF PurgeExpired, StoreTypeOK
  <2>2. QED
    BY <1>5, <2>1, CallsUnchanged DEF outside, IInv, TypeOK
<1>6. CASE RenderEnds
  <2>1. StoreTypeOK' /\ ledger' = ledger
    BY <1>0, <1>6 DEF RenderEnds, storeVars, StoreTypeOK
  <2>2. render' \in RenderStatus
    BY <1>6 DEF RenderEnds, RenderStatus
  <2>3. QED
    BY <1>6, <2>1, <2>2, CallsUnchanged DEF RenderEnds
<1>7. CASE UNCHANGED vars
  <2>1. StoreTypeOK' /\ ledger' = ledger
    BY <1>0, <1>7 DEF vars, storeVars, StoreTypeOK
  <2>2. QED
    BY <1>7, <2>1, CallsUnchanged DEF vars, IInv, TypeOK
<1>8. QED
  BY <1>1, <1>2, <1>3, <1>4, <1>5, <1>6, <1>7 DEF Next

LEMMA Invariance == Spec => []IInv
BY InitIInv, NextIInv, PTL DEF Spec

\* Every record, receipt, result and call is of its type, and the ledger holds
\* fewer receipts than there were versions (append_event, transition).
THEOREM TypeCorrect == Spec => []TypeOK
<1>1. IInv => TypeOK
  BY DEF IInv
<1>2. QED
  BY <1>1, Invariance, PTL

\* The destructive tool is entered only under the one decision there is, an
\* approval: authorize_action and the decision key of approve_decision.
THEOREM DecidedMutation == Spec => []MutationDecided
<1>1. IInv => MutationDecided
  <2>1. SUFFICES ASSUME IInv, NEW p \in Procs, At(p, "tool"), call[p].action = Edit
                 PROVE  /\ ReceiptsOf("decision.approved", Edit) # {}
                        /\ ReceiptsOf("decision.rejected", Edit) = {}
    BY DEF MutationDecided
  <2>2. Approved
    BY <2>1 DEF IInv, Permitted, Entering, At
  <2>3. PICK e \in ledger : e.type = "decision.approved"
    BY <2>2 DEF Approved, ReceiptsOf
  <2>4. \A f \in ledger : f.type # "decision.rejected"
    BY <2>1, <2>3 DEF IInv, OneAnswer, Decisions
  <2>5. QED
    BY <2>2, <2>4 DEF Approved, ReceiptsOf
<1>2. QED
  BY <1>1, Invariance, PTL

-----------------------------------------------------------------------------
(* How the attempts of a workflow and the workflow itself end.  Most steps     *)
(* leave the receipts of the dispatcher, the results and the tools alone       *)
(* (Quietly); that is shown once for all of them, and what is left to look at  *)
(* are the six steps of a call inside dispatch_durable and the clock.          *)

\* The steps of a call that continue_workflow or resume began.
Path == {"continue", "planned", "prepare", "copy", "dispatch", "start", "tool",
         "put", "finish", "returned", "refused", "doubt", "stuck", "review",
         "verify", "check", "next", "submitted", "rendered", "complete"}
\* Between authorize_action and the terminal receipt.
Engaged == {"start", "tool", "put", "finish"}
DispatchTypes == {"dispatch.started", "dispatch.failed", "dispatch.completed"}

\* p moves, and the dispatcher has done nothing.
Quietly(p) ==
    /\ call' = [call EXCEPT ![p] = call'[p]]
    /\ call'[p].pc \notin Engaged
    /\ call'[p].pc \in Path => call[p].pc \in Path \/ (p \in Drivers /\ state \notin Terminal)
    /\ UNCHANGED <<runs, results, expired, order>>
    /\ ledger \subseteq ledger'
    /\ \A e \in ledger' \ ledger : e.type \notin DispatchTypes
    /\ state \in Terminal => UNCHANGED state
    /\ call'[p].pc = "copy" => output = "absent"
    /\ \/ UNCHANGED output
       \/ call[p].pc \in {"copy", "tool"} /\ call'[p].pc # "copy"
    /\ output' = "copy" => output = "copy" \/ call[p].pc = "copy"

\* The steps inside dispatch_durable.
Works(p) ==
    \/ DispatchAuthorized(p) \/ DispatchStarted(p) \/ ToolReturns(p)
    \/ ToolRaises(p) \/ ResultStored(p) \/ DispatchCompleted(p)

\* The clock, the constructor of a store, the render service.
Aside ==
    /\ UNCHANGED <<call, runs, ledger, state, order, output>>
    /\ \A a \in Actions : results'[a] \in {results[a], "none"}
    /\ \A a \in Actions : results'[a] # results[a] => a \in expired
    /\ ResultsExpire \/ expired' \subseteq expired
    /\ results' \in [Actions -> Verdicts \cup {"none"}]

-----------------------------------------------------------------------------
LEMMA CallTyped ==
    ASSUME IInv, NEW p \in Procs
    PROVE  call \in [Procs -> Call] /\ call[p] \in Call
BY DEF IInv, TypeOK, DispatchTypeOK

\* assert_transition: nothing leads out of a terminal state.
LEMMA NoWayOut ==
    ASSUME NEW target, NEW at, NEW receipts, Transition(target, at, receipts)
    PROVE  state \notin Terminal
BY DEF Transition, AllowedTransitions, Terminal

LEMMA QuietSteps ==
    ASSUME IInv, NEW p \in Procs, Step(p)
    PROVE  Quietly(p)
<1> USE CallTyped, NoWayOut DEF Quietly, Engaged, Path, DispatchTypes, outside, storeVars
<1>1. CASE StartAgain(p)
  BY <1>1 DEF StartAgain, Reads, Fresh
<1>2. CASE StartAbstains(p)
  <2>1. CASE Settles(p, "needs_review", {})
    BY <2>1 DEF Settles, Transition, Returns, NoCall, Fresh
  <2>2. CASE Transition("recon", call[p].record, {}) /\ GoesWith(p, "abstaining")
             /\ UNCHANGED <<runs, output, outside>>
    BY <2>2 DEF Transition, GoesWith, Call
  <2>3. QED
    BY <1>2, <2>1, <2>2 DEF StartAbstains
<1>3. CASE StartRejects(p) \/ LeaveIntake(p) \/ AdapterAbstains(p) \/ PlanReading(p)
           \/ RequestDecision(p) \/ Complete(p) \/ Incomplete(p) \/ RenderUnverified(p)
           \/ CompleteRendered(p) \/ Abstain(p) \/ ApplyDecision(p) \/ Cancelled(p)
  BY <1>3 DEF StartRejects, LeaveIntake, AdapterAbstains, PlanReading, RequestDecision,
              Complete, Incomplete, RenderUnverified, CompleteRendered, Abstain,
              ApplyDecision, Cancelled, Settles, Transition, Returns, NoCall, Fresh
<1>4. CASE ReconEnds(p) \/ ExecutionEnds(p) \/ ExecuteReading(p)
  BY <1>4 DEF ReconEnds, ExecutionEnds, ExecuteReading, Settles, SettlesFrom,
              Transition, Returns, NoCall, Fresh, Receipted
<1>5. CASE Recon(p) \/ Execute(p) \/ NextCheck(p)
  BY <1>5 DEF Recon, Execute, NextCheck, Dispatches, In, At, Call
<1>6. CASE Plan(p) \/ NoteSubmitted(p) \/ NoteRendered(p) \/ RefusalNoted(p) \/ RecordDecision(p)
  BY <1>6 DEF Plan, NoteSubmitted, NoteRendered, RefusalNoted, RecordDecision, Notes,
              AppendEvent, GoesWith, Receipted, Checked, In, At, Call
<1>7. CASE Prepare(p) \/ CopySource(p) \/ RenderRefused(p) \/ CancelRender(p)
  BY <1>7 DEF Prepare, CopySource, RenderRefused, CancelRender, Goes, At, Call
<1>8. CASE EnterVerify(p) \/ CheckReturns(p) \/ CheckNoted(p) \/ Reconsider(p)
  BY <1>8 DEF EnterVerify, CheckReturns, CheckNoted, Reconsider, Fresh, In, At, Call
<1>9. CASE NoteCheck(p)
  BY <1>9 DEF NoteCheck, Goes, Notes, AppendEvent, GoesWith, Receipted, Checked, At, Call
<1>10. CASE SubmitRender(p) \/ PollRender(p)
  BY <1>10 DEF SubmitRender, PollRender, Judging, At, Call
<1>11. CASE Decide(p) \/ Cancel(p)
  BY <1>11 DEF Decide, Cancel, Reads, Fresh
<1>12. QED
  BY <1>1, <1>2, <1>3, <1>4, <1>5, <1>6, <1>7, <1>8, <1>9, <1>10, <1>11 DEF Step

LEMMA QuietDispatch ==
    ASSUME IInv, NEW p \in Procs, UNCHANGED outside,
           DispatchReplayed(p) \/ DispatchInDoubt(p) \/ DispatchRefused(p) \/ Stops(p)
    PROVE  Quietly(p)
BY CallTyped DEF Quietly, Engaged, Path, DispatchTypes, outside, storeVars,
      DispatchReplayed, DispatchInDoubt, DispatchRefused, Stops, Touched, Goes, Returns, NoCall, Fresh, At, Call

LEMMA QuietContinue ==
    ASSUME IInv, NEW p \in Procs, NEW resuming \in BOOLEAN, Continue(p, resuming)
    PROVE  Quietly(p)
BY CallTyped DEF Quietly, Engaged, Path, outside, storeVars, Continue, Fresh

LEMMA AsideSteps ==
    ASSUME IInv,
           \/ \E a \in Actions : ResultExpires(a) /\ UNCHANGED <<dispatchVars, outside>>
           \/ PurgeExpired /\ UNCHANGED <<dispatchVars, outside>>
           \/ RenderEnds
           \/ UNCHANGED vars
    PROVE  Aside
<1> USE DEF IInv, TypeOK, StoreTypeOK, Aside, dispatchVars, outside, storeVars
<1>1. CASE \E a \in Actions : ResultExpires(a) /\ UNCHANGED <<dispatchVars, outside>>
  BY <1>1 DEF ResultExpires
<1>2. CASE PurgeExpired /\ UNCHANGED <<dispatchVars, outside>>
  BY <1>2 DEF PurgeExpired
<1>3. CASE RenderEnds \/ UNCHANGED vars
  BY <1>3 DEF RenderEnds, vars
<1>4. QED
  BY <1>1, <1>2, <1>3

LEMMA Classes ==
    ASSUME IInv, [Next]_vars
    PROVE  \/ \E p \in Procs : Quietly(p)
           \/ \E p \in Procs : Works(p) /\ UNCHANGED outside
           \/ Aside
BY QuietSteps, QuietDispatch, QuietContinue, AsideSteps DEF Next, Dispatch, Works

-----------------------------------------------------------------------------
(* Attempts, with one driver.                                              *)

\* One process at a time is inside continue_workflow or resume.
OneDriver == \A p, q \in Drivers : p = q
OnlyDrivers == \A p \in Procs : call[p].pc \in Path => p \in Drivers

FailedAt(a, n) == \E f \in Failed(a) : f.attempt = n

\* A started receipt is told apart by its attempt; attempts are numbered from 1.
Counted ==
    /\ \A e \in ledger : e.type = "dispatch.started" => e.says = "none"
    /\ \A a \in Actions : \A e \in Started(a) : e.attempt \in 1 .. Cardinality(Started(a))
    /\ \A a \in Actions : \A n \in 1 .. Cardinality(Started(a)) :
          \E e \in Started(a) : e.attempt = n

\* A call inside dispatch_durable: the action is not completed, every other attempt
\* failed, and its own has not.
EngagedOK(p) ==
    LET a == call[p].action
        n == Cardinality(Started(a))
    IN  call[p].pc \in Engaged =>
            /\ Completed(a) = {}
            /\ \A e \in Started(a) : e.attempt # call[p].attempt => FailedAt(a, e.attempt)
            /\ ~FailedAt(a, call[p].attempt)
            /\ call[p].attempt = IF call[p].pc = "start" THEN n + 1 ELSE n
            /\ call[p].attempt > 0

AttemptInv ==
    /\ OnlyDrivers
    /\ Counted
    /\ OneOutcome
    /\ RunsOnce
    /\ \A p \in Procs : EngagedOK(p)

LEMMA QuietReceipts ==
    ASSUME ledger \subseteq ledger', \A e \in ledger' \ ledger : e.type \notin DispatchTypes,
           NEW a
    PROVE  /\ Started(a)' = Started(a)
           /\ Failed(a)' = Failed(a)
           /\ Completed(a)' = Completed(a)
BY DEF Started, Failed, Completed, ReceiptsOf, DispatchTypes

LEMMA QuietAttempts ==
    ASSUME IInv, AttemptInv, NEW p \in Procs, Quietly(p)
    PROVE  AttemptInv'
<1>1. \A q \in Procs : q # p => call'[q] = call[q]
  BY CallTyped DEF Quietly
<1>2. \A a : /\ Started(a)' = Started(a)
             /\ Failed(a)' = Failed(a)
             /\ Completed(a)' = Completed(a)
  BY QuietReceipts DEF Quietly
<1>3. OnlyDrivers'
  BY <1>1 DEF OnlyDrivers, AttemptInv, Quietly
<1>4. Counted'
  BY <1>2 DEF Counted, AttemptInv, Quietly, DispatchTypes
<1>5. OneOutcome'
  BY <1>2 DEF OneOutcome, AttemptInv
<1>6. RunsOnce'
  BY <1>2 DEF RunsOnce, AttemptInv, Quietly
<1>7. \A q \in Procs : EngagedOK(q)'
  <2>1. SUFFICES ASSUME NEW q \in Procs
                 PROVE  EngagedOK(q)'
    OBVIOUS
  <2>2. CASE q = p
    BY <2>2 DEF EngagedOK, Quietly
  <2>3. CASE q # p
    <3>1. call'[q] = call[q]
      BY <1>1, <2>3
    <3>2. EngagedOK(q)
      BY DEF AttemptInv
    <3>3. QED
      BY <1>2, <3>1, <3>2 DEF EngagedOK, FailedAt
  <2>4. QED
    BY <2>2, <2>3
<1>8. QED
  BY <1>3, <1>4, <1>5, <1>6, <1>7 DEF AttemptInv

LEMMA AsideAttempts ==
    ASSUME IInv, AttemptInv, Aside
    PROVE  AttemptInv'
<1>1. \A a : /\ Started(a)' = Started(a)
             /\ Failed(a)' = Failed(a)
             /\ Completed(a)' = Completed(a)
  BY DEF Started, Failed, Completed, ReceiptsOf, Aside
<1>2. OnlyDrivers' /\ Counted' /\ OneOutcome' /\ RunsOnce'
  BY <1>1 DEF OnlyDrivers, Counted, OneOutcome, RunsOnce, AttemptInv, Aside
<1>3. \A q \in Procs : EngagedOK(q)'
  BY <1>1 DEF EngagedOK, FailedAt, AttemptInv, Aside
<1>4. QED
  BY <1>2, <1>3 DEF AttemptInv

\* What a receipt adds to the receipts of its type and action.
LEMMA Received ==
    ASSUME NEW e, ledger' = ledger \cup {e}, NEW type, NEW a
    PROVE  ReceiptsOf(type, a)' = IF e.type = type /\ e.action = a
                                  THEN ReceiptsOf(type, a) \cup {e}
                                  ELSE ReceiptsOf(type, a)
BY DEF ReceiptsOf

LEMMA ReceivedOfDispatch ==
    ASSUME NEW e, ledger' = ledger \cup {e}
    PROVE  \A a :
             /\ Started(a)' = IF e.type = "dispatch.started" /\ e.action = a
                              THEN Started(a) \cup {e} ELSE Started(a)
             /\ Failed(a)' = IF e.type = "dispatch.failed" /\ e.action = a
                             THEN Failed(a) \cup {e} ELSE Failed(a)
             /\ Completed(a)' = IF e.type = "dispatch.completed" /\ e.action = a
                                THEN Completed(a) \cup {e} ELSE Completed(a)
BY Received DEF Started, Failed, Completed

LEMMA Finite ==
    ASSUME IInv, NEW a
    PROVE  IsFiniteSet(Started(a)) /\ Cardinality(Started(a)) \in Nat
<1>1. IsFiniteSet(ledger)
  BY DEF IInv, TypeOK, StoreTypeOK
<1>2. Started(a) \subseteq ledger
  BY DEF Started, ReceiptsOf
<1>3. QED
  BY <1>1, <1>2, FS_Subset, FS_CardinalityType

\* Every receipt and every call is typed.
LEMMA Typed ==
    ASSUME IInv
    PROVE  /\ \A e \in ledger : e \in Receipt /\ e.attempt \in Nat
           /\ runs \in [Actions -> Nat]
           /\ \A p \in Procs : call[p].attempt \in Nat
BY DEF IInv, TypeOK, StoreTypeOK, DispatchTypeOK, Receipt, Call

\* A call inside the dispatcher is the only one.
LEMMA Lonely ==
    ASSUME IInv, AttemptInv, OneDriver, NEW p \in Procs, call[p].pc \in Path,
           NEW q \in Procs, q # p
    PROVE  call[q].pc \notin Path /\ call[q].pc \notin Engaged
BY DEF AttemptInv, OnlyDrivers, OneDriver, Path, Engaged

\* Only the call moves, inside the dispatcher.
LEMMA WorkAttempts ==
    ASSUME IInv, AttemptInv, OneDriver, NEW p \in Procs, call[p].pc \in Path,
           call' = [call EXCEPT ![p] = call'[p]], UNCHANGED <<ledger, runs>>, EngagedOK(p)'
    PROVE  AttemptInv'
<1>1. \A q \in Procs : q # p => call'[q] = call[q]
  BY CallTyped
<1>2. \A a : /\ Started(a)' = Started(a)
             /\ Failed(a)' = Failed(a)
             /\ Completed(a)' = Completed(a)
  BY DEF Started, Failed, Completed, ReceiptsOf
<1>3. OnlyDrivers'
  BY <1>1 DEF OnlyDrivers, AttemptInv
<1>4. Counted' /\ OneOutcome' /\ RunsOnce'
  BY <1>2 DEF Counted, OneOutcome, RunsOnce, AttemptInv
<1>5. \A q \in Procs : EngagedOK(q)'
  BY <1>1, Lonely DEF EngagedOK
<1>6. QED
  BY <1>3, <1>4, <1>5 DEF AttemptInv

LEMMA AuthorizedAttempts ==
    ASSUME IInv, AttemptInv, OneDriver, NEW p \in Procs, DispatchAuthorized(p)
    PROVE  AttemptInv'
<1> DEFINE a == call[p].action
           n == Cardinality(Started(a))
<1>1. /\ call' = [call EXCEPT ![p] = call'[p]]
      /\ call'[p].pc = "start" /\ call'[p].action = a /\ call'[p].attempt = n + 1
      /\ call[p].pc = "dispatch"
      /\ UNCHANGED <<ledger, runs>>
  BY CallTyped DEF DispatchAuthorized, storeVars, At, Call
<1>2. a \in Actions
  BY <1>1, CallFields DEF Loaded, Busy
<1>3. Completed(a) = {} /\ ~InDoubt(a)
  BY DEF DispatchAuthorized
<1>4. n \in Nat
  BY Finite
<1>5. \A e \in Started(a) : FailedAt(a, e.attempt)
  BY <1>3 DEF InDoubt, FailedAt
<1>6. ~FailedAt(a, n + 1)
  BY <1>2, <1>4 DEF FailedAt, AttemptInv, OneOutcome, Counted
<1>7. EngagedOK(p)'
  <2>1. /\ Started(a)' = Started(a)
        /\ Completed(a)' = Completed(a)
        /\ Failed(a)' = Failed(a)
    BY <1>1 DEF Started, Failed, Completed, ReceiptsOf
  <2>2. QED
    BY <1>1, <1>3, <1>4, <1>5, <1>6, <2>1 DEF EngagedOK, FailedAt
<1>8. QED
  BY <1>1, <1>7, WorkAttempts DEF Path

LEMMA ReturnsAttempts ==
    ASSUME IInv, AttemptInv, OneDriver, NEW p \in Procs, ToolReturns(p) \/ ResultStored(p)
    PROVE  AttemptInv'
<1>1. /\ call' = [call EXCEPT ![p] = call'[p]]
      /\ call'[p].pc \in {"put", "finish"} /\ call[p].pc \in {"tool", "put"}
      /\ call'[p].action = call[p].action /\ call'[p].attempt = call[p].attempt
      /\ UNCHANGED <<ledger, runs>>
  BY CallTyped DEF ToolReturns, ResultStored, PutResult, Goes, storeVars, At, Call
<1>2. EngagedOK(p)
  BY DEF AttemptInv
<1>3. EngagedOK(p)'
  BY <1>1, <1>2 DEF EngagedOK, FailedAt, Started, Failed, Completed, ReceiptsOf, Engaged
<1>4. QED
  BY <1>1, <1>3, WorkAttempts DEF Path

\* The started receipt is a new one, and numbered next.
LEMMA StartedAttempts ==
    ASSUME IInv, AttemptInv, OneDriver, NEW p \in Procs, DispatchStarted(p)
    PROVE  AttemptInv'
<1>a. PICK a \in Actions : a = call[p].action
  BY CallFields DEF DispatchStarted, At, Loaded, Busy, Entering
<1>n. PICK n \in Nat : n = Cardinality(Started(a))
  BY Finite
<1>e. PICK e : e = Receipted("dispatch.started", a, n + 1, "none")
  OBVIOUS
<1>1. /\ call' = [call EXCEPT ![p] = call'[p]]
      /\ call'[p].pc = "tool" /\ call'[p].action = a /\ call'[p].attempt = call[p].attempt
      /\ call[p].pc = "start"
      /\ runs' = [runs EXCEPT ![a] = @ + 1]
  BY <1>a, CallTyped DEF DispatchStarted, GoesWith, At, Call
<1>3. /\ call[p].attempt = n + 1 /\ Completed(a) = {} /\ ~FailedAt(a, n + 1)
      /\ \A f \in Started(a) : f.attempt # n + 1 => FailedAt(a, f.attempt)
  BY <1>1, <1>a, <1>n DEF AttemptInv, EngagedOK, Engaged
<1>4. \A f \in Started(a) : f.attempt \in Nat /\ f.attempt # n + 1 /\ f.attempt < n + 1
  BY <1>n DEF AttemptInv, Counted
<1>5. ledger' = ledger \cup {e}
  BY <1>3, <1>a, <1>e DEF DispatchStarted, AppendEvent
<1>6. e.type = "dispatch.started" /\ e.action = a /\ e.attempt = n + 1 /\ e.says = "none"
  BY <1>e DEF Receipted
<1>7. /\ Started(a)' = Started(a) \cup {e}
      /\ \A b : b # a => Started(b)' = Started(b)
      /\ \A b : Failed(b)' = Failed(b) /\ Completed(b)' = Completed(b)
  BY <1>5, <1>6, ReceivedOfDispatch
<1>8. Cardinality(Started(a)') = n + 1
  <2>1. e \notin Started(a)
    BY <1>4, <1>6
  <2>2. Cardinality(Started(a) \cup {e}) = n + 1
    BY <2>1, <1>n, Finite, FS_AddElement
  <2>3. QED
    BY <1>7, <2>2
<1>9. OnlyDrivers'
  BY <1>1, CallTyped DEF OnlyDrivers, AttemptInv, Path
<1>10. Counted'
  <2>1. \A f \in ledger' : f.type = "dispatch.started" => f.says = "none"
    BY <1>5, <1>6 DEF Counted, AttemptInv
  <2>2. SUFFICES ASSUME NEW b \in Actions
                 PROVE  /\ \A f \in Started(b)' : f.attempt \in 1 .. Cardinality(Started(b)')
                        /\ \A m \in 1 .. Cardinality(Started(b)') :
                              \E f \in Started(b)' : f.attempt = m
    BY <2>1 DEF Counted
  <2>3. /\ \A f \in Started(b) : f.attempt \in 1 .. Cardinality(Started(b))
        /\ \A m \in 1 .. Cardinality(Started(b)) : \E f \in Started(b) : f.attempt = m
    BY DEF AttemptInv, Counted
  <2>4. CASE b = a
    <3>1. \A f \in Started(a) \cup {e} : f.attempt \in 1 .. n + 1
      BY <1>n, <1>6, <2>3, <2>4
    <3>2. \A m \in 1 .. n + 1 : m = n + 1 \/ m \in 1 .. n
      OBVIOUS
    <3>3. \A m \in 1 .. n + 1 : \E f \in Started(a) \cup {e} : f.attempt = m
      BY <1>n, <1>6, <2>3, <2>4, <3>2
    <3>4. QED
      BY <1>7, <1>8, <2>4, <3>1, <3>3
  <2>5. CASE b # a
    BY <1>7, <2>3, <2>5
  <2>6. QED
    BY <2>4, <2>5
<1>11. OneOutcome'
  BY <1>7 DEF OneOutcome, AttemptInv
<1>12. RunsOnce'
  <2>1. SUFFICES ASSUME NEW b \in Actions
                 PROVE  /\ runs'[b] <= Cardinality(Started(b)')
                        /\ \A f, g \in Started(b)' :
                              f.attempt < g.attempt => \E h \in Failed(b)' : h.attempt = f.attempt
    BY DEF RunsOnce
  <2>2. /\ runs[b] <= Cardinality(Started(b))
        /\ \A f, g \in Started(b) :
              f.attempt < g.attempt => \E h \in Failed(b) : h.attempt = f.attempt
    BY DEF AttemptInv, RunsOnce
  <2>3. CASE b = a
    <3>1. runs'[a] <= n + 1
      BY <1>1, <1>n, <2>2, <2>3, Typed
    <3>2. \A f \in Started(a) : \E h \in Failed(a) : h.attempt = f.attempt
      BY <1>3, <1>4 DEF FailedAt
    <3>3. \A f, g \in Started(a)' :
             f.attempt < g.attempt => \E h \in Failed(a)' : h.attempt = f.attempt
      <4>1. SUFFICES ASSUME NEW f \in Started(a) \cup {e}, NEW g \in Started(a) \cup {e},
                            f.attempt < g.attempt
                     PROVE  \E h \in Failed(a) : h.attempt = f.attempt
        BY <1>7
      <4>2. f # e
        BY <1>n, <1>4, <1>6, <4>1
      <4>3. QED
        BY <3>2, <4>1, <4>2
    <3>4. QED
      BY <1>8, <2>3, <3>1, <3>3
  <2>4. CASE b # a
    BY <1>1, <1>7, <2>2, <2>4, Typed
  <2>5. QED
    BY <2>3, <2>4
<1>13. EngagedOK(p)'
  <2>1. \A f \in Started(a)' : f.attempt # n + 1 => FailedAt(a, f.attempt)
    BY <1>3, <1>6, <1>7
  <2>2. QED
    BY <1>1, <1>3, <1>7, <1>8, <2>1 DEF EngagedOK, FailedAt
<1>14. \A q \in Procs : EngagedOK(q)'
  <2>1. \A q \in Procs : q # p => call'[q] = call[q] /\ call[q].pc \notin Engaged
    BY <1>1, CallTyped, Lonely DEF Path
  <2>2. QED
    BY <1>13, <2>1 DEF EngagedOK
<1>15. QED
  BY <1>9, <1>10, <1>11, <1>12, <1>14 DEF AttemptInv

\* A terminal receipt is the first one of its attempt.
LEMMA EndedAttempts ==
    ASSUME IInv, AttemptInv, OneDriver, NEW p \in Procs, ToolRaises(p) \/ DispatchCompleted(p)
    PROVE  AttemptInv'
<1>a. PICK a \in Actions : a = call[p].action
  BY CallFields DEF ToolRaises, DispatchCompleted, At, Loaded, Busy, Entering
<1>n. PICK n \in Nat : n = Cardinality(Started(a))
  BY Finite
<1>1. /\ call' = [call EXCEPT ![p] = call'[p]]
      /\ call'[p].pc \in {"idle", "returned"} /\ call[p].pc \in {"tool", "finish"}
      /\ runs' = runs
  <2>1. CASE ToolRaises(p)
    BY <2>1, CallTyped DEF ToolRaises, Returns, NoCall, Fresh, At
  <2>2. CASE DispatchCompleted(p)
    BY <2>2, CallTyped DEF DispatchCompleted, Goes, At, Call
  <2>3. QED
    BY <2>1, <2>2
<1>2. /\ call[p].attempt = n /\ n > 0 /\ Completed(a) = {} /\ ~FailedAt(a, n)
  BY <1>1, <1>a, <1>n DEF AttemptInv, EngagedOK, Engaged
<1>3. PICK e : /\ ledger' = ledger \cup {e}
               /\ e.type \in {"dispatch.failed", "dispatch.completed"}
               /\ e.action = a /\ e.attempt = n
  <2>1. CASE ToolRaises(p)
    <3>0. PICK f : f = Receipted("dispatch.failed", a, n, "none")
      OBVIOUS
    <3>1. ledger' = ledger \cup {f}
      BY <1>2, <1>a, <2>1, <3>0 DEF ToolRaises, AppendEvent
    <3>2. QED
      BY <3>0, <3>1 DEF Receipted
  <2>2. CASE DispatchCompleted(p)
    <3>0. PICK f : f = Receipted("dispatch.completed", a, n, call[p].says)
      OBVIOUS
    <3>1. ledger' = ledger \cup {f}
      BY <1>2, <1>a, <2>2, <3>0 DEF DispatchCompleted, AppendEvent
    <3>2. QED
      BY <3>0, <3>1 DEF Receipted
  <2>3. QED
    BY <2>1, <2>2
<1>4. /\ \A b : Started(b)' = Started(b)
      /\ \A b : b # a => Failed(b)' = Failed(b) /\ Completed(b)' = Completed(b)
      /\ \/ Failed(a)' = Failed(a) \cup {e} /\ Completed(a)' = {}
         \/ Failed(a)' = Failed(a) /\ Completed(a)' = {e}
  BY <1>2, <1>3, ReceivedOfDispatch
<1>5. OnlyDrivers'
  BY <1>1, CallTyped DEF OnlyDrivers, AttemptInv, Path
<1>6. Counted'
  BY <1>3, <1>4 DEF Counted, AttemptInv
<1>7. OneOutcome'
  <2>1. SUFFICES ASSUME NEW b \in Actions
                 PROVE  /\ \A f \in Completed(b)', g \in Completed(b)' \cup Failed(b)' :
                              f.attempt = g.attempt => f = g
                        /\ \A g \in Completed(b)' \cup Failed(b)' :
                              \E f \in Started(b)' : f.attempt = g.attempt
    BY DEF OneOutcome
  <2>2. /\ \A f \in Completed(b), g \in Completed(b) \cup Failed(b) :
              f.attempt = g.attempt => f = g
        /\ \A g \in Completed(b) \cup Failed(b) : \E f \in Started(b) : f.attempt = g.attempt
    BY DEF AttemptInv, OneOutcome
  <2>3. CASE b # a
    BY <1>4, <2>2, <2>3
  <2>4. CASE b = a
    <3>1. \E f \in Started(a) : f.attempt = e.attempt
      BY <1>2, <1>3, <1>n DEF AttemptInv, Counted
    <3>2. \A g \in Failed(a) : g.attempt # e.attempt
      BY <1>2, <1>3 DEF FailedAt
    <3>3. QED
      BY <1>4, <2>2, <2>4, <3>1, <3>2
  <2>5. QED
    BY <2>3, <2>4
<1>8. RunsOnce'
  BY <1>1, <1>4 DEF RunsOnce, AttemptInv
<1>9. \A q \in Procs : EngagedOK(q)'
  <2>1. \A q \in Procs : q # p => call'[q] = call[q] /\ call[q].pc \notin Engaged
    BY <1>1, CallTyped, Lonely DEF Path
  <2>2. QED
    BY <1>1, <2>1 DEF EngagedOK, Engaged
<1>10. QED
  BY <1>5, <1>6, <1>7, <1>8, <1>9 DEF AttemptInv

LEMMA InitAttempts == Init => AttemptInv
<1> SUFFICES ASSUME Init
             PROVE  AttemptInv
  OBVIOUS
<1>1. \A a : Started(a) = {} /\ Failed(a) = {} /\ Completed(a) = {}
  BY DEF Init, StoreInit, Started, Failed, Completed, ReceiptsOf
<1>2. \A p \in Procs : call[p].pc = "idle"
  BY NoCallTyped DEF Init, DispatchInit
<1>3. OneOutcome /\ OnlyDrivers /\ \A p \in Procs : EngagedOK(p)
  BY <1>1, <1>2 DEF OneOutcome, OnlyDrivers, EngagedOK, Engaged, Path
<1>4. Counted /\ RunsOnce
  <2>1. Cardinality({}) = 0
    BY FS_EmptySet
  <2>2. QED
    BY <1>1, <2>1 DEF Counted, RunsOnce, Init, StoreInit, DispatchInit
<1>5. QED
  BY <1>3, <1>4 DEF AttemptInv

LEMMA NextAttempts ==
    ASSUME IInv, AttemptInv, OneDriver, [Next]_vars
    PROVE  AttemptInv'
BY Classes, QuietAttempts, AsideAttempts, AuthorizedAttempts, StartedAttempts,
   ReturnsAttempts, EndedAttempts DEF Works

LEMMA AttemptInvariance ==
    ASSUME OneDriver
    PROVE  Spec => [](IInv /\ AttemptInv)
<1>1. IInv /\ AttemptInv /\ [Next]_vars => AttemptInv'
  BY NextAttempts
<1>2. QED
  BY <1>1, InitAttempts, Invariance, PTL DEF Spec

\* With one process at a time in continue_workflow or resume, and any number that
\* answer decisions, cancel or start again: a tool is entered at most once per
\* started receipt, and only after every earlier attempt has its failed receipt
\* (dispatch_durable).
THEOREM NoSecondRun == ASSUME OneDriver PROVE Spec => []RunsOnce
<1>1. AttemptInv => RunsOnce
  BY DEF AttemptInv
<1>2. QED
  BY <1>1, AttemptInvariance, PTL

\* ... and no attempt both completes and fails, or ends without a start.
THEOREM SingleOutcome == ASSUME OneDriver PROVE Spec => []OneOutcome
<1>1. AttemptInv => OneOutcome
  BY DEF AttemptInv
<1>2. QED
  BY <1>1, AttemptInvariance, PTL

-----------------------------------------------------------------------------
(* What an ended workflow keeps.                                           *)

\* A call about to enter its tool read a live record.
Ready(p) == call[p].pc = "start" => call[p].record.state \notin Terminal

EndInv == \A p \in Procs : Ready(p)

\* What the steps inside the dispatcher do to a call, the state and the output.
LEMMA WorkingSteps ==
    ASSUME IInv, NEW p \in Procs, Works(p), UNCHANGED outside
    PROVE  /\ call' = [call EXCEPT ![p] = call'[p]]
           /\ call[p].pc \in Path
           /\ call'[p].pc = "start" => DispatchAuthorized(p)
           /\ call'[p].pc # "copy"
           /\ UNCHANGED state
           /\ output' \in {output, "edited"}
           /\ runs' # runs => DispatchStarted(p)
           /\ output' # output => call[p].pc = "tool"
<1> USE CallTyped DEF Path, storeVars
<1>1. CASE DispatchAuthorized(p) \/ ResultStored(p)
  BY <1>1 DEF DispatchAuthorized, ResultStored, PutResult, Goes, At, Call
<1>2. CASE DispatchStarted(p)
  BY <1>2 DEF DispatchStarted, AppendEvent, GoesWith, At, Call
<1>3. CASE ToolReturns(p)
  BY <1>3 DEF ToolReturns, Touched, At, Call
<1>4. CASE ToolRaises(p)
  BY <1>4 DEF ToolRaises, Touched, AppendEvent, Returns, NoCall, Fresh, At
<1>5. CASE DispatchCompleted(p)
  BY <1>5 DEF DispatchCompleted, AppendEvent, Goes, At, Call
<1>6. QED
  BY <1>1, <1>2, <1>3, <1>4, <1>5 DEF Works

LEMMA InitEnd == Init => EndInv
BY NoCallTyped DEF Init, DispatchInit, EndInv, Ready

LEMMA NextEnd ==
    ASSUME IInv, AttemptInv, OneDriver, EndInv, [Next]_vars
    PROVE  EndInv'
<1>1. ASSUME NEW p \in Procs, Quietly(p)
      PROVE  EndInv'
  <2>1. SUFFICES ASSUME NEW q \in Procs
                 PROVE  Ready(q)'
    BY DEF EndInv
  <2>2. CASE q = p
    BY <1>1, <2>2 DEF Ready, Quietly, Engaged
  <2>3. CASE q # p
    <3>1. call'[q] = call[q]
      BY <1>1, <2>3, CallTyped DEF Quietly
    <3>2. QED
      BY <3>1 DEF EndInv, Ready
  <2>4. QED
    BY <2>2, <2>3
<1>2. ASSUME NEW p \in Procs, Works(p), UNCHANGED outside
      PROVE  EndInv'
  <2>1. SUFFICES ASSUME NEW q \in Procs
                 PROVE  Ready(q)'
    BY DEF EndInv
  <2>2. CASE q = p
    <3>1. CASE call'[p].pc = "start"
      <4>1. DispatchAuthorized(p)
        BY <1>2, <3>1, WorkingSteps
      <4>2. call'[p].record.state = call[p].record.state
        BY <4>1, CallTyped DEF DispatchAuthorized, Call
      <4>3. QED
        BY <2>2, <3>1, <4>1, <4>2 DEF Ready, DispatchAuthorized
    <3>2. QED
      BY <1>2, <2>2, <3>1, WorkingSteps DEF Ready
  <2>3. CASE q # p
    <3>1. call'[q] = call[q]
      BY <1>2, <2>3, CallTyped, WorkingSteps
    <3>2. QED
      BY <3>1 DEF EndInv, Ready
  <2>4. QED
    BY <2>2, <2>3
<1>3. CASE Aside
  BY <1>3 DEF EndInv, Ready, Aside
<1>4. QED
  BY <1>1, <1>2, <1>3, Classes

\* A started receipt needs the version its call read, so a workflow that has ended
\* since gets none.
LEMMA NoStartAfterEnd ==
    ASSUME IInv, AttemptInv, EndInv, NEW p \in Procs, DispatchStarted(p)
    PROVE  state \notin Terminal
<1>a. PICK a \in Actions : a = call[p].action
  BY CallFields DEF DispatchStarted, At, Loaded, Busy, Entering
<1>n. PICK n \in Nat : n = Cardinality(Started(a))
  BY Finite
<1>e. PICK e : e = Receipted("dispatch.started", a, n + 1, "none")
  OBVIOUS
<1>1. call[p].pc = "start" /\ call[p].attempt = n + 1
  BY <1>a, <1>n DEF DispatchStarted, At, AttemptInv, EngagedOK, Engaged
<1>2. e \notin ledger
  <2>1. \A f \in Started(a) : f.attempt # n + 1
    BY <1>n DEF AttemptInv, Counted
  <2>2. QED
    BY <1>e, <2>1 DEF Started, ReceiptsOf, Receipted
<1>3. call[p].record = Record
  BY <1>a, <1>e, <1>1, <1>2 DEF DispatchStarted, AppendEvent
<1>4. QED
  BY <1>1, <1>3 DEF EndInv, Ready, Record

LEMMA EndInvariance ==
    ASSUME OneDriver
    PROVE  Spec => []EndInv
<1>1. IInv /\ AttemptInv /\ EndInv /\ [Next]_vars => EndInv'
  BY NextEnd
<1>2. QED
  BY <1>1, InitEnd, AttemptInvariance, PTL DEF Spec

\* With one driver an ended workflow stays as it ended and no tool is entered for
\* it: transition, and the started receipt of dispatch_durable.
THEOREM EndStays == ASSUME OneDriver PROVE Spec => EndIsFinal
<1>1. ASSUME IInv, AttemptInv, EndInv, [Next]_vars, state \in Terminal
      PROVE  UNCHANGED <<state, runs>>
  BY <1>1, Classes, WorkingSteps, NoStartAfterEnd DEF Quietly, Aside
<1>2. IInv /\ AttemptInv /\ EndInv /\ [Next]_vars =>
         [(state \in Terminal) => UNCHANGED <<state, runs>>]_vars
  BY <1>1
<1>3. QED
  BY <1>2, AttemptInvariance, EndInvariance, PTL DEF Spec, EndIsFinal

-----------------------------------------------------------------------------
(* Results and their receipts, with one driver or results that are kept.   *)

\* The row holds the result, or has run out.
Settled(rows, a, says) == rows[a] = says \/ (ResultsExpire /\ rows[a] = "none")

ReceiptInv ==
    /\ ~ResultsExpire => expired = {}
    /\ \A p \in Procs : call[p].pc = "finish" =>
          call[p].says \in Verdicts /\ Settled(results, call[p].action, call[p].says)
    /\ \A a \in Actions : \A e \in Completed(a) : e.says \in Verdicts /\ Settled(results, a, e.says)

\* Nobody else is inside the dispatcher, or no row runs out.
Steady == ~ResultsExpire \/ (OneDriver /\ AttemptInv)

LEMMA VerdictIsSomething == "none" \notin Verdicts
BY DEF Verdicts

LEMMA NextReceipt ==
    ASSUME IInv, ReceiptInv, Steady, [Next]_vars
    PROVE  ReceiptInv'
<1> USE CallTyped
<1>1. ASSUME NEW p \in Procs, Quietly(p)
      PROVE  ReceiptInv'
  <2>1. \A a : Completed(a)' = Completed(a)
    BY <1>1, QuietReceipts DEF Quietly
  <2>2. \A q \in Procs : call'[q].pc = "finish" => call'[q] = call[q]
    BY <1>1 DEF Quietly, Engaged
  <2>3. UNCHANGED <<results, expired>>
    BY <1>1 DEF Quietly
  <2>4. QED
    BY <2>1, <2>2, <2>3 DEF ReceiptInv, Settled
<1>2. CASE Aside
  <2>1. \A a : Completed(a)' = Completed(a)
    BY <1>2 DEF Aside, Completed, ReceiptsOf
  <2>2. \A a \in Actions : \A says : Settled(results, a, says) => Settled(results', a, says)
    BY <1>2 DEF Aside, Settled, ReceiptInv
  <2>3. \A p \in Procs : call[p].pc = "finish" => call[p].action \in Actions
    BY CallFields DEF Loaded, Busy
  <2>4. ~ResultsExpire => expired' = {}
    BY <1>2 DEF Aside, ReceiptInv
  <2>5. \A p \in Procs : call'[p] = call[p]
    BY <1>2 DEF Aside
  <2>6. QED
    BY <2>1, <2>2, <2>3, <2>4, <2>5 DEF ReceiptInv
<1>3. ASSUME NEW p \in Procs,
             \/ DispatchAuthorized(p) \/ DispatchStarted(p) \/ ToolReturns(p) \/ ToolRaises(p)
      PROVE  ReceiptInv'
  <2>1. /\ UNCHANGED <<results, expired>>
        /\ call' = [call EXCEPT ![p] = call'[p]] /\ call'[p].pc # "finish"
    <3>1. CASE DispatchAuthorized(p)
      BY <3>1 DEF DispatchAuthorized, storeVars, Call
    <3>2. CASE DispatchStarted(p)
      BY <3>2 DEF DispatchStarted, AppendEvent, GoesWith, Call
    <3>3. CASE ToolReturns(p)
      BY <3>3 DEF ToolReturns, storeVars, Call
    <3>4. CASE ToolRaises(p)
      BY <3>4 DEF ToolRaises, AppendEvent, Returns, NoCall, Fresh
    <3>5. QED
      BY <1>3, <3>1, <3>2, <3>3, <3>4
  <2>2. \A a : Completed(a)' = Completed(a)
    BY <1>3 DEF DispatchAuthorized, DispatchStarted, ToolReturns, ToolRaises, storeVars,
                AppendEvent, Receipted, Completed, ReceiptsOf
  <2>3. \A q \in Procs : call'[q].pc = "finish" => call'[q] = call[q]
    BY <2>1
  <2>4. QED
    BY <2>1, <2>2, <2>3 DEF ReceiptInv, Settled
<1>4. ASSUME NEW p \in Procs, ResultStored(p)
      PROVE  ReceiptInv'
  <2>a. PICK a \in Actions : a = call[p].action
    BY <1>4, CallFields DEF ResultStored, At, Loaded, Busy
  <2>v. PICK v \in Verdicts : v = call[p].says
    BY <1>4, CallFields DEF ResultStored, At, Loaded
  <2>1. /\ results[a] \in {v, "none"} /\ results' = [results EXCEPT ![a] = v]
        /\ UNCHANGED <<ledger, expired>>
        /\ call' = [call EXCEPT ![p].pc = "finish"]
    BY <1>4, <2>a, <2>v DEF ResultStored, PutResult, Goes
  <2>2. results \in [Actions -> Verdicts \cup {"none"}]
    BY DEF IInv, TypeOK, StoreTypeOK
  <2>3. \A b : Completed(b)' = Completed(b)
    BY <2>1 DEF Completed, ReceiptsOf
  <2>4. \A b \in Actions, says \in Verdicts :
           ~ResultsExpire /\ Settled(results, b, says) => Settled(results', b, says)
    BY <2>1, <2>2, VerdictIsSomething DEF Settled
  <2>5. \A b \in Actions : \A says : b # a /\ Settled(results, b, says) => Settled(results', b, says)
    BY <2>1, <2>2 DEF Settled
  <2>6. ResultsExpire => Completed(a) = {}
    BY <1>4, <2>a DEF Steady, AttemptInv, EngagedOK, Engaged, ResultStored, At
  <2>7. \A q \in Procs : q # p => call'[q] = call[q] /\ (ResultsExpire => call[q].pc # "finish")
    BY <1>4, <2>1, Lonely DEF Steady, ResultStored, At, Path, Engaged
  <2>8. call'[p].action = a /\ call'[p].says = v
    BY <2>1, <2>a, <2>v DEF Call
  <2>9. Settled(results', a, v)
    BY <2>1, <2>2 DEF Settled
  <2>10. \A q \in Procs : call[q].pc = "finish" => call[q].action \in Actions
    BY CallFields DEF Loaded, Busy
  <2>11. \A q \in Procs : call'[q].pc = "finish" =>
            call'[q].says \in Verdicts /\ Settled(results', call'[q].action, call'[q].says)
    <3>1. SUFFICES ASSUME NEW q \in Procs, call'[q].pc = "finish"
                   PROVE  call'[q].says \in Verdicts /\ Settled(results', call'[q].action, call'[q].says)
      OBVIOUS
    <3>2. CASE q = p
      BY <2>8, <2>9, <3>2 DEF Settled
    <3>3. CASE q # p
      <4>1. /\ call'[q] = call[q] /\ call[q].pc = "finish" /\ ~ResultsExpire
            /\ call[q].says \in Verdicts /\ Settled(results, call[q].action, call[q].says)
        BY <2>7, <3>1, <3>3 DEF ReceiptInv
      <4>2. QED
        BY <2>4, <2>10, <4>1 DEF Settled
    <3>4. QED
      BY <3>2, <3>3
  <2>12. \A b \in Actions : \A e \in Completed(b)' : e.says \in Verdicts /\ Settled(results', b, e.says)
    BY <2>3, <2>4, <2>5, <2>6 DEF ReceiptInv
  <2>13. QED
    BY <2>1, <2>11, <2>12 DEF ReceiptInv, Settled
<1>5. ASSUME NEW p \in Procs, DispatchCompleted(p)
      PROVE  ReceiptInv'
  <2>a. PICK a \in Actions : a = call[p].action
    BY <1>5, CallFields DEF DispatchCompleted, At, Loaded, Busy
  <2>e. PICK e : e = Receipted("dispatch.completed", a, call[p].attempt, call[p].says)
    OBVIOUS
  <2>1. /\ ledger' = ledger \cup {e} /\ UNCHANGED <<results, expired>>
        /\ call' = [call EXCEPT ![p].pc = "returned"]
    BY <1>5, <2>a, <2>e DEF DispatchCompleted, AppendEvent, Goes
  <2>2. e.type = "dispatch.completed" /\ e.action = a /\ e.says = call[p].says
    BY <2>e DEF Receipted
  <2>3. e.says \in Verdicts /\ Settled(results, a, e.says)
    BY <1>5, <2>2, <2>a DEF DispatchCompleted, At, ReceiptInv
  <2>4. \A b : Completed(b)' = IF b = a THEN Completed(b) \cup {e} ELSE Completed(b)
    BY <2>1, <2>2, ReceivedOfDispatch
  <2>5. \A q \in Procs : call'[q].pc = "finish" => call'[q] = call[q]
    BY <2>1 DEF Call
  <2>6. QED
    BY <2>1, <2>3, <2>4, <2>5 DEF ReceiptInv, Settled
<1>6. QED
  BY <1>1, <1>2, <1>3, <1>4, <1>5, Classes DEF Works

LEMMA InitReceipt == Init => ReceiptInv
BY NoCallTyped DEF Init, StoreInit, DispatchInit, ReceiptInv, Completed, ReceiptsOf

LEMMA ReceiptInvariance ==
    ASSUME OneDriver \/ ~ResultsExpire
    PROVE  Spec => []ReceiptInv
<1>1. IInv /\ ReceiptInv /\ Steady /\ [Next]_vars => ReceiptInv'
  BY NextReceipt
<1>2. CASE ~ResultsExpire
  <2>1. Steady
    BY <1>2 DEF Steady
  <2>2. IInv /\ ReceiptInv /\ [Next]_vars => ReceiptInv'
    BY <1>1, <2>1
  <2>3. QED
    BY <2>2, InitReceipt, Invariance, PTL DEF Spec
<1>3. CASE OneDriver
  <2>1. AttemptInv => Steady
    BY <1>3 DEF Steady
  <2>2. Spec => []AttemptInv
    BY <1>3, AttemptInvariance, PTL
  <2>3. QED
    BY <1>1, <2>1, <2>2, InitReceipt, Invariance, PTL DEF Spec
<1>4. QED
  BY <1>2, <1>3

\* A completed receipt and the stored row never disagree, for any number of drivers
\* while rows are kept, and for one driver when they may expire: put_action_result
\* before the receipt, and the row that is there must be the same.
THEOREM ReceiptsMatch ==
    ASSUME OneDriver \/ ~ResultsExpire
    PROVE  Spec => []ResultIsReceipted
<1>1. ReceiptInv => ResultIsReceipted
  BY DEF ReceiptInv, Settled, ResultIsReceipted
<1>2. QED
  BY <1>1, ReceiptInvariance, PTL

-----------------------------------------------------------------------------
(* Where a step leads.                                                     *)

Rendering == {"submitted", "rendered", "complete"}
Walks == {"dispatch", "start", "tool", "put", "finish", "returned", "check", "next"}
Late == {"plan", "decision", "execute", "repair", "verify", "completed"}

Leads(p) ==
    /\ render = "succeeded" => render' = "succeeded"
    /\ call'[p].pc \in Rendering =>
          SubmitRender(p) \/ NoteSubmitted(p) \/ PollRender(p) \/ NoteRendered(p)
    /\ call'[p].pc \in Walks \cup {"verify", "prepare", "copy"} =>
          \/ Recon(p) \/ Execute(p) \/ Prepare(p) \/ CopySource(p) \/ EnterVerify(p)
          \/ NextCheck(p) \/ CheckReturns(p) \/ NoteCheck(p) \/ CheckNoted(p)
          \/ DispatchReplayed(p)
    /\ state' \in Late => state \in Late \/ ReconEnds(p)
    /\ state' \in {"verify", "completed"} =>
          state \in {"verify", "completed", "repair"} \/ ExecuteReading(p) \/ ExecutionEnds(p)
    /\ state' = "repair" => state = "repair"
    /\ state' = "completed" => state = "completed" \/ Complete(p) \/ CompleteRendered(p)

\* The transition table between the states that matter here.
LEMMA WayIn ==
    ASSUME IInv, NEW target, NEW at, NEW receipts, Transition(target, at, receipts)
    PROVE  /\ state' = target
           /\ target \in Late => state \in Late \/ (state = "recon" /\ target = "plan")
           /\ target = "verify" => state \in {"execute", "repair"}
           /\ target = "completed" => state = "verify"
<1>1. state \in States
  BY DEF IInv, TypeOK, StoreTypeOK
<1>2. QED
  BY <1>1 DEF Transition, AllowedTransitions, Late, States, Terminal

LEMMA LeadingSteps ==
    ASSUME IInv, NEW p \in Procs, Step(p)
    PROVE  Leads(p)
<1> USE CallTyped, WayIn DEF Leads, Rendering, Walks, Late, outside, storeVars
<1>1. CASE StartAgain(p) \/ Decide(p) \/ Cancel(p)
  BY <1>1 DEF StartAgain, Decide, Cancel, Reads, Fresh
<1>2. CASE StartAbstains(p)
  <2>1. CASE Settles(p, "needs_review", {})
    BY <2>1 DEF Settles, Returns, NoCall, Fresh
  <2>2. CASE Transition("recon", call[p].record, {}) /\ GoesWith(p, "abstaining")
             /\ UNCHANGED <<runs, output, outside>>
    BY <2>2 DEF GoesWith, Call
  <2>3. QED
    BY <1>2, <2>1, <2>2 DEF StartAbstains
<1>3. CASE StartRejects(p) \/ LeaveIntake(p) \/ AdapterAbstains(p) \/ PlanReading(p)
           \/ RequestDecision(p) \/ Incomplete(p) \/ RenderUnverified(p)
           \/ Abstain(p) \/ ApplyDecision(p) \/ Cancelled(p)
  <2>1. \E target \in {"failed", "recon", "needs_review", "execute", "decision", "cancelled"} :
           /\ Settles(p, target, {})
           /\ target = "execute" => state \in Late
    BY <1>3 DEF StartRejects, LeaveIntake, AdapterAbstains, PlanReading, RequestDecision,
                Incomplete, RenderUnverified, Abstain, ApplyDecision, Cancelled, Settles
  <2>2. QED
    BY <2>1 DEF Settles, Returns, NoCall, Fresh
<1>4. CASE Complete(p) \/ CompleteRendered(p)
  BY <1>4 DEF Complete, CompleteRendered, Settles, Returns, NoCall, Fresh
<1>5. CASE ReconEnds(p) \/ ExecutionEnds(p) \/ ExecuteReading(p)
  BY <1>5 DEF ReconEnds, ExecutionEnds, ExecuteReading, Settles, SettlesFrom,
              Returns, NoCall, Fresh
<1>6. CASE Recon(p) \/ Execute(p) \/ NextCheck(p)
  <2>1. call'[p].pc \notin Rendering
    BY <1>6 DEF Recon, Execute, NextCheck, Dispatches, Call
  <2>2. UNCHANGED <<state, render>>
    BY <1>6 DEF Recon, Execute, NextCheck
  <2>3. QED
    BY <1>6, <2>1, <2>2
<1>7. CASE Plan(p) \/ NoteSubmitted(p) \/ NoteRendered(p) \/ RefusalNoted(p) \/ RecordDecision(p)
  BY <1>7 DEF Plan, NoteSubmitted, NoteRendered, RefusalNoted, RecordDecision, Notes,
              AppendEvent, GoesWith, Call
<1>8. CASE Prepare(p) \/ CopySource(p) \/ RenderRefused(p) \/ CancelRender(p)
  BY <1>8 DEF Prepare, CopySource, RenderRefused, CancelRender, Goes, Call
<1>9. CASE EnterVerify(p) \/ CheckReturns(p) \/ CheckNoted(p) \/ Reconsider(p)
  BY <1>9 DEF EnterVerify, CheckReturns, CheckNoted, Reconsider, Fresh, Call
<1>10. CASE NoteCheck(p)
  BY <1>10 DEF NoteCheck, Goes, Notes, AppendEvent, GoesWith, Call
<1>11. CASE SubmitRender(p) \/ PollRender(p)
  BY <1>11 DEF SubmitRender, PollRender, Call
<1>12. QED
  BY <1>1, <1>2, <1>3, <1>4, <1>5, <1>6, <1>7, <1>8, <1>9, <1>10, <1>11 DEF Step

LEMMA LeadingCalls ==
    ASSUME IInv, NEW p \in Procs,
           \/ \E resuming \in BOOLEAN : Continue(p, resuming)
           \/ /\ DispatchReplayed(p) \/ DispatchInDoubt(p) \/ DispatchRefused(p) \/ Stops(p)
              /\ UNCHANGED outside
    PROVE  Leads(p)
BY CallTyped DEF Leads, Rendering, Walks, Late, outside, storeVars, Continue, Fresh,
      DispatchReplayed, DispatchInDoubt, DispatchRefused, Stops, Goes, Returns, NoCall, Call

LEMMA LeadingClasses ==
    ASSUME IInv, [Next]_vars
    PROVE  \/ \E p \in Procs : Quietly(p) /\ Leads(p)
           \/ \E p \in Procs : Works(p) /\ UNCHANGED outside
           \/ Aside /\ (render = "succeeded" => render' = "succeeded")
<1>1. CASE \E p \in Procs : Step(p)
  BY <1>1, QuietSteps, LeadingSteps
<1>2. CASE \E p \in Procs, resuming \in BOOLEAN : Continue(p, resuming)
  BY <1>2, QuietContinue, LeadingCalls
<1>3. CASE \E p \in Procs : (Dispatch(p) \/ Stops(p)) /\ UNCHANGED outside
  BY <1>3, QuietDispatch, LeadingCalls DEF Dispatch, Works
<1>4. CASE \/ \E a \in Actions : ResultExpires(a) /\ UNCHANGED <<dispatchVars, outside>>
           \/ PurgeExpired /\ UNCHANGED <<dispatchVars, outside>>
           \/ RenderEnds
           \/ UNCHANGED vars
  <2>1. render = "succeeded" => render' = "succeeded"
    BY <1>4 DEF RenderEnds, outside, vars
  <2>2. QED
    BY <1>4, <2>1, AsideSteps
<1>5. QED
  BY <1>1, <1>2, <1>3, <1>4 DEF Next

\* What never shrinks.
LEMMA Grows ==
    ASSUME IInv, [Next]_vars
    PROVE  /\ ledger \subseteq ledger' /\ UNCHANGED order
           /\ \A a \in Actions : runs'[a] >= runs[a]
           /\ render = "succeeded" => render' = "succeeded"
<1>1. ASSUME NEW p \in Procs, Works(p), UNCHANGED outside
      PROVE  /\ ledger \subseteq ledger' /\ UNCHANGED <<order, render>>
             /\ \A a \in Actions : runs'[a] >= runs[a]
  BY <1>1, Typed DEF Works, DispatchAuthorized, DispatchStarted, ToolReturns, ToolRaises,
     ResultStored, DispatchCompleted, PutResult, AppendEvent, storeVars, outside
<1>2. QED
  BY <1>1, LeadingClasses, Typed DEF Quietly, Leads, Aside

-----------------------------------------------------------------------------
(* Completion on a render, for any number of drivers.                      *)

RenderDone == render = "succeeded" /\ ReceiptsOf("render.completed", NoAction) # {}

\* What a call in the render verification knows.
RenderOn(p) ==
    /\ call[p].pc \in Rendering => order.render
    /\ call[p].pc \in {"submitted", "rendered"} /\ call[p].says = "succeeded" =>
          render = "succeeded"
    /\ call[p].pc \in {"rendered", "complete"} => RenderSubmitted
    /\ call[p].pc = "complete" => RenderDone

RenderInv ==
    /\ CompletedIsRendered
    /\ \A p \in Procs : RenderOn(p)

LEMMA RenderKept ==
    ASSUME IInv, [Next]_vars
    PROVE  RenderSubmitted => RenderSubmitted'
BY Grows DEF RenderSubmitted, ReceiptsOf

LEMMA RenderDoneKept ==
    ASSUME IInv, [Next]_vars
    PROVE  RenderDone => RenderDone'
BY Grows DEF RenderDone, ReceiptsOf

LEMMA NotedReceipt ==
    ASSUME NEW p \in Procs, NEW e, NEW pc, Notes(p, e, pc)
    PROVE  e \in ledger'
BY DEF Notes, AppendEvent

LEMMA NextRender ==
    ASSUME IInv, RenderInv, [Next]_vars
    PROVE  RenderInv'
<1> USE CallTyped
<1>1. UNCHANGED order /\ (render = "succeeded" => render' = "succeeded")
  BY Grows
<1>2. ASSUME NEW q \in Procs, call'[q] = call[q]
      PROVE  RenderOn(q)'
  BY <1>1, <1>2, RenderKept, RenderDoneKept DEF RenderInv, RenderOn
<1>3. ASSUME NEW p \in Procs, Quietly(p), Leads(p)
      PROVE  RenderOn(p)'
  <2>1. CASE SubmitRender(p)
    <3>1. /\ order.render /\ call'[p].pc = "submitted" /\ call'[p].says = render'
      BY <2>1 DEF SubmitRender, ToRender, Call
    <3>2. QED
      BY <1>1, <3>1 DEF RenderOn
  <2>2. CASE NoteSubmitted(p)
    <3>1. /\ call'[p].pc = "rendered" /\ call'[p].says = call[p].says
          /\ call[p].pc = "submitted"
      BY <2>2 DEF NoteSubmitted, Notes, GoesWith, At, Call
    <3>2. RenderSubmitted'
      <4>1. PICK e : e = Receipted("render.submitted", NoAction, 0, call[p].says)
        OBVIOUS
      <4>2. e \in ledger' /\ e.type = "render.submitted" /\ e.action = NoAction
        BY <2>2, <4>1, NotedReceipt DEF NoteSubmitted, Receipted
      <4>3. QED
        BY <4>2 DEF RenderSubmitted, ReceiptsOf
    <3>3. QED
      BY <1>1, <3>1, <3>2 DEF RenderInv, RenderOn, Rendering
  <2>3. CASE PollRender(p)
    <3>1. /\ order.render /\ RenderSubmitted /\ call'[p].pc = "rendered"
          /\ call'[p].says \in {render, "none"} /\ render' = render
      BY <2>3 DEF PollRender, ToRender, outside, Call
    <3>2. QED
      BY <1>1, <3>1, RenderKept DEF RenderOn
  <2>4. CASE NoteRendered(p)
    <3>1. /\ call'[p].pc = "complete" /\ call[p].pc = "rendered"
          /\ call[p].says = "succeeded"
      BY <2>4 DEF NoteRendered, Notes, GoesWith, At, Call
    <3>2. RenderDone'
      <4>1. PICK e : e = Receipted("render.completed", NoAction, 0, "succeeded")
        OBVIOUS
      <4>2. e \in ledger' /\ e.type = "render.completed" /\ e.action = NoAction
        BY <2>4, <4>1, NotedReceipt DEF NoteRendered, Receipted
      <4>3. render' = "succeeded"
        BY <1>1, <3>1 DEF RenderInv, RenderOn
      <4>4. QED
        BY <4>2, <4>3 DEF RenderDone, ReceiptsOf
    <3>3. QED
      BY <1>1, <3>1, <3>2, RenderKept DEF RenderInv, RenderOn, Rendering
  <2>5. CASE call'[p].pc \notin Rendering
    BY <2>5 DEF RenderOn, Rendering
  <2>6. QED
    BY <1>3, <2>1, <2>2, <2>3, <2>4, <2>5 DEF Leads
<1>4. ASSUME NEW p \in Procs, Quietly(p), Leads(p)
      PROVE  CompletedIsRendered'
  <2>1. CASE state = "completed" \/ state' # "completed"
    BY <1>1, <2>1, RenderKept, RenderDoneKept DEF RenderInv, CompletedIsRendered, RenderDone
  <2>2. CASE Complete(p)
    <3>1. ~(order.render /\ order.kind # "read")
      BY <2>2 DEF Complete, ToRender
    <3>2. QED
      BY <1>1, <3>1 DEF CompletedIsRendered
  <2>3. CASE CompleteRendered(p)
    <3>1. RenderDone /\ RenderSubmitted
      BY <2>3 DEF CompleteRendered, At, RenderInv, RenderOn
    <3>2. QED
      BY <1>1, <3>1, RenderKept, RenderDoneKept DEF CompletedIsRendered, RenderDone
  <2>4. QED
    BY <1>4, <2>1, <2>2, <2>3 DEF Leads
<1>5. CASE \E p \in Procs : Quietly(p) /\ Leads(p)
  <2>1. PICK p \in Procs : Quietly(p) /\ Leads(p)
    BY <1>5
  <2>2. \A q \in Procs : q # p => call'[q] = call[q]
    BY <2>1 DEF Quietly
  <2>3. QED
    BY <1>2, <1>3, <1>4, <2>1, <2>2 DEF RenderInv
<1>6. ASSUME UNCHANGED state, \A q \in Procs : call'[q] = call[q] \/ call'[q].pc \notin Rendering
      PROVE  RenderInv'
  <2>1. CompletedIsRendered'
    BY <1>1, <1>6, RenderKept, RenderDoneKept DEF RenderInv, CompletedIsRendered, RenderDone
  <2>2. \A q \in Procs : call'[q].pc \notin Rendering => RenderOn(q)'
    BY DEF RenderOn, Rendering
  <2>3. QED
    BY <1>2, <1>6, <2>1, <2>2 DEF RenderInv
<1>7. CASE \E p \in Procs : Works(p) /\ UNCHANGED outside
  <2>1. PICK p \in Procs : Works(p) /\ UNCHANGED outside
    BY <1>7
  <2>2. call'[p].pc \notin Rendering
    BY <2>1 DEF Works, DispatchAuthorized, DispatchStarted, ToolReturns, ToolRaises, ResultStored,
       DispatchCompleted, Goes, GoesWith, Returns, NoCall, Fresh, Rendering, Call
  <2>3. QED
    BY <1>6, <2>1, <2>2, WorkingSteps
<1>8. CASE Aside
  BY <1>6, <1>8 DEF Aside
<1>9. QED
  BY <1>5, <1>7, <1>8, LeadingClasses

\* A workflow that asks for a real render completes only after its own job
\* succeeded, whoever drives it and however often its calls die
\* (_advance_render_verification).
THEOREM RenderedCompletion == Spec => []CompletedIsRendered
<1>1. Init => RenderInv
  BY NoCallTyped DEF Init, StoreInit, DispatchInit, RenderInv, RenderOn, CompletedIsRendered, Rendering
<1>2. IInv /\ RenderInv /\ [Next]_vars => RenderInv'
  BY NextRender
<1>3. RenderInv => CompletedIsRendered
  BY DEF RenderInv
<1>4. QED
  BY <1>1, <1>2, <1>3, Invariance, PTL DEF Spec

-----------------------------------------------------------------------------
(* Completion on the verifiers.                                            *)

CheckNotes(a) == ReceiptsOf("verification.checked", a)
CheckedTo(n) == \A i \in 1 .. Len(Checks) : i < n => CheckNotes(Checks[i]) # {}

\* A call in verify has left a receipt for every verifier it is past, and the one it
\* is at is the one of its number.
WalkOn(p) ==
    LET c == call[p] IN
    /\ c.pc = "verify" => CheckedTo(c.check)
    /\ c.pc \in Walks /\ c.action \notin {Look, Edit} =>
          c.check \in 1 .. Len(Checks) /\ c.action = Checks[c.check] /\ CheckedTo(c.check)
    /\ c.pc \in {"check", "next"} => c.action \notin {Look, Edit}
    /\ c.pc \in {"prepare", "copy"} => c.action = Edit
    /\ c.pc = "next" => CheckNotes(c.action) # {}
    /\ c.pc \in {"tool", "put", "finish"} => runs[c.action] > 0
    /\ c.pc = "returned" => Completed(c.action) # {}

\* Where a workflow is tells what has been completed.
Reached ==
    /\ order.kind = "read" /\ state \in Late => Completed(Look) # {}
    /\ order.kind # "read" /\ state \in {"verify", "completed", "repair"} => Completed(Edit) # {}

WalkInv ==
    /\ \A a \in Actions : results[a] # "none" => runs[a] > 0
    /\ \A p \in Procs : WalkOn(p)
    /\ Reached

LEMMA WalkKept ==
    ASSUME IInv, [Next]_vars
    PROVE  /\ \A n : CheckedTo(n) => CheckedTo(n)'
           /\ \A a : CheckNotes(a) # {} => CheckNotes(a)' # {}
           /\ \A a : Completed(a) # {} => Completed(a)' # {}
           /\ \A a \in Actions : runs[a] > 0 => runs'[a] > 0
<1>1. \A a : CheckNotes(a) \subseteq CheckNotes(a)' /\ Completed(a) \subseteq Completed(a)'
  BY Grows DEF CheckNotes, Completed, ReceiptsOf
<1>2. runs \in [Actions -> Nat] /\ runs' \in [Actions -> Nat]
  BY NextIInv, Typed DEF IInv, TypeOK, DispatchTypeOK
<1>3. QED
  BY <1>1, <1>2, Grows DEF CheckedTo

\* A check's receipt is there when the call goes on.
LEMMA NoteCheckWalks ==
    ASSUME IInv, WalkInv, NEW p \in Procs, NoteCheck(p), [Next]_vars
    PROVE  WalkOn(p)'
<1>1. /\ call'[p].pc = "next" /\ call[p].pc = "check"
      /\ call'[p].action = call[p].action /\ call'[p].check = call[p].check
  BY CallTyped DEF NoteCheck, Goes, Notes, GoesWith, At, Call
<1>2. WalkOn(p)
  BY DEF WalkInv
<1>3. CheckNotes(call[p].action)' # {}
  <2>a. PICK a : a = call[p].action
    OBVIOUS
  <2>1. CASE CheckNotes(a) # {}
    BY <1>1, <2>a, <2>1, WalkKept DEF CheckNotes, ReceiptsOf
  <2>2. CASE CheckNotes(a) = {}
    <3>1. PICK e : e = Checked(a, call[p].says)
      OBVIOUS
    <3>2. e \in ledger'
      BY <2>a, <2>2, <3>1, NotedReceipt DEF NoteCheck, CheckNotes
    <3>3. e.type = "verification.checked" /\ e.action = a
      BY <3>1 DEF Checked, Receipted
    <3>4. QED
      BY <1>1, <2>a, <3>2, <3>3 DEF CheckNotes, ReceiptsOf
  <2>3. QED
    BY <2>1, <2>2
<1>4. QED
  BY <1>1, <1>2, <1>3, WalkKept DEF WalkOn, Walks, CheckNotes, ReceiptsOf

\* The steps of a call that stay on the walk through the verifiers.
LEMMA StepWalks ==
    ASSUME IInv, WalkInv, NEW p \in Procs, Quietly(p), Leads(p), [Next]_vars
    PROVE  WalkOn(p)'
<1> USE CallTyped
<1>1. WalkOn(p) /\ call[p].check \in Nat
  BY CallFields DEF WalkInv
<1>2. CASE Recon(p) \/ Execute(p)
  <2>1. /\ call'[p].pc \in {"prepare", "dispatch"} /\ call'[p].action \in {Look, Edit}
        /\ call'[p].pc = "prepare" => call'[p].action = Edit
    BY <1>2 DEF Recon, Execute, Dispatches, Call
  <2>2. QED
    BY <2>1 DEF WalkOn, Walks
<1>3. CASE Prepare(p) \/ CopySource(p)
  <2>1. /\ call[p].pc \in {"prepare", "copy"} /\ call'[p].pc \in {"copy", "dispatch", "refused"}
        /\ call'[p].action = call[p].action
    BY <1>3 DEF Prepare, CopySource, Goes, At, Call
  <2>2. call[p].action = Edit
    BY <1>1, <2>1 DEF WalkOn
  <2>3. QED
    BY <2>1, <2>2 DEF WalkOn, Walks
<1>4. CASE EnterVerify(p)
  <2>1. call'[p].pc = "verify" /\ call'[p].check = 1
    BY <1>4 DEF EnterVerify, Fresh
  <2>2. QED
    BY <2>1 DEF WalkOn, Walks, CheckedTo
<1>5. CASE NextCheck(p)
  <2>1. /\ call[p].pc = "verify" /\ call[p].check > 0 /\ call[p].check <= Len(CheckList)
    BY <1>5, CallFields DEF NextCheck, At, Loaded
  <2>2. CheckList = Checks
    BY <1>1, <2>1 DEF CheckList
  <2>3. call[p].check \in 1 .. Len(Checks)
    BY <1>1, <2>1, <2>2, ServiceAssumption
  <2>4. Checks[call[p].check] \notin {Look, Edit}
    BY <2>3, ServiceAssumption
  <2>5. /\ call'[p].pc \in {"check", "dispatch"} /\ call'[p].action = Checks[call[p].check]
        /\ call'[p].check = call[p].check
    BY <1>5, <2>2 DEF NextCheck, Dispatches, Call
  <2>6. CheckedTo(call[p].check)
    BY <1>1, <2>1 DEF WalkOn
  <2>7. QED
    BY <2>3, <2>4, <2>5, <2>6, WalkKept DEF WalkOn, CheckedTo, CheckNotes, ReceiptsOf
<1>6. CASE CheckReturns(p)
  <2>1. /\ call[p].pc = "returned" /\ call[p].action \notin {Look, Edit}
        /\ call'[p].pc = "check" /\ call'[p].action = call[p].action
        /\ call'[p].check = call[p].check
    BY <1>6 DEF CheckReturns, At, Call
  <2>2. QED
    BY <1>1, <2>1, WalkKept DEF WalkOn, Walks, CheckedTo, CheckNotes, ReceiptsOf
<1>7. CASE NoteCheck(p)
  BY <1>7, NoteCheckWalks
<1>8. CASE CheckNoted(p)
  <2>1. /\ call[p].pc = "next" /\ call'[p].pc = "verify"
        /\ call'[p].check = call[p].check + 1
    BY <1>8 DEF CheckNoted, At, Fresh
  <2>2. CheckedTo(call[p].check + 1)
    <3>1. /\ CheckedTo(call[p].check) /\ call[p].action = Checks[call[p].check]
          /\ CheckNotes(call[p].action) # {}
      BY <1>1, <2>1 DEF WalkOn, Walks
    <3>2. \A i \in 1 .. Len(Checks) : i < call[p].check + 1 => i < call[p].check \/ i = call[p].check
      BY <1>1
    <3>3. QED
      BY <3>1, <3>2 DEF CheckedTo
  <2>3. QED
    BY <2>1, <2>2, WalkKept DEF WalkOn, Walks, CheckedTo, CheckNotes, ReceiptsOf
<1>9. CASE DispatchReplayed(p)
  <2>1. /\ call[p].pc = "dispatch" /\ call'[p].pc = "returned"
        /\ call'[p].action = call[p].action /\ call'[p].check = call[p].check
        /\ Completed(call[p].action) # {}
    BY <1>9 DEF DispatchReplayed, At, Call
  <2>2. Completed(call[p].action)' # {}
    <3>1. PICK a : a = call[p].action
      OBVIOUS
    <3>2. Completed(a)' # {}
      BY <2>1, <3>1, WalkKept
    <3>3. QED
      BY <2>1, <3>1, <3>2 DEF Completed, ReceiptsOf
  <2>3. QED
    BY <1>1, <2>1, <2>2, WalkKept DEF WalkOn, Walks, CheckedTo, CheckNotes, Completed, ReceiptsOf
<1>10. CASE call'[p].pc \notin Walks \cup {"verify", "prepare", "copy"}
  BY <1>10 DEF WalkOn, Walks
<1>11. QED
  BY <1>2, <1>3, <1>4, <1>5, <1>6, <1>7, <1>8, <1>9, <1>10 DEF Leads

\* The steps inside the dispatcher keep the place of the call.
LEMMA WorkWalks ==
    ASSUME IInv, WalkInv, NEW p \in Procs, Works(p), UNCHANGED outside, [Next]_vars
    PROVE  WalkOn(p)'
<1> USE CallTyped
<1>a. PICK a \in Actions : a = call[p].action
  BY CallFields DEF Works, DispatchAuthorized, DispatchStarted, ToolReturns, ToolRaises,
     ResultStored, DispatchCompleted, At, Loaded, Busy, Entering
<1>1. WalkOn(p)
  BY DEF WalkInv
<1>2. CASE ToolRaises(p)
  <2>1. call'[p].pc = "idle"
    BY <1>2 DEF ToolRaises, Returns, NoCall, Fresh
  <2>2. QED
    BY <2>1 DEF WalkOn, Walks
<1>3. CASE ~ToolRaises(p)
  <2>1. /\ call[p].pc \in {"dispatch", "start", "tool", "put", "finish"}
        /\ call'[p].pc \in {"start", "tool", "put", "finish", "returned"}
        /\ call'[p].action = a /\ call'[p].check = call[p].check
        /\ call'[p].pc = "tool" => DispatchStarted(p)
        /\ call'[p].pc \in {"put", "finish"} => call[p].pc \in {"tool", "put"}
        /\ call'[p].pc = "returned" => DispatchCompleted(p)
    <3>1. CASE DispatchAuthorized(p)
      BY <1>a, <3>1 DEF DispatchAuthorized, At, Call
    <3>2. CASE DispatchStarted(p)
      BY <1>a, <3>2 DEF DispatchStarted, GoesWith, At, Call
    <3>3. CASE ToolReturns(p)
      BY <1>a, <3>3 DEF ToolReturns, At, Call
    <3>4. CASE ResultStored(p)
      BY <1>a, <3>4 DEF ResultStored, Goes, At, Call
    <3>5. CASE DispatchCompleted(p)
      BY <1>a, <3>5 DEF DispatchCompleted, Goes, At, Call
    <3>6. QED
      BY <1>3, <3>1, <3>2, <3>3, <3>4, <3>5 DEF Works
  <2>2. call'[p].pc \in {"tool", "put", "finish"} => runs'[a] > 0
    <3>1. CASE DispatchStarted(p)
      <4>1. runs' = [runs EXCEPT ![a] = @ + 1]
        BY <1>a, <3>1 DEF DispatchStarted
      <4>2. QED
        BY <4>1, Typed
    <3>2. CASE call[p].pc \in {"tool", "put"}
      BY <1>1, <1>a, <3>2, WalkKept DEF WalkOn
    <3>3. QED
      BY <2>1, <3>1, <3>2
  <2>3. call'[p].pc = "returned" => Completed(a)' # {}
    <3>1. SUFFICES ASSUME DispatchCompleted(p)
                   PROVE  Completed(a)' # {}
      BY <2>1
    <3>2. PICK e : e = Receipted("dispatch.completed", a, call[p].attempt, call[p].says)
      OBVIOUS
    <3>3. e \in ledger'
      BY <1>a, <3>1, <3>2 DEF DispatchCompleted, AppendEvent
    <3>4. QED
      BY <3>2, <3>3 DEF Completed, ReceiptsOf, Receipted
  <2>4. a \notin {Look, Edit} =>
           /\ call[p].check \in 1 .. Len(Checks) /\ a = Checks[call[p].check]
           /\ CheckedTo(call[p].check)
    BY <1>1, <1>a, <2>1 DEF WalkOn, Walks
  <2>5. CheckedTo(call[p].check) => CheckedTo(call[p].check)'
    BY Grows, <2>1 DEF CheckedTo, CheckNotes, ReceiptsOf
  <2>6. QED
    BY <2>1, <2>2, <2>3, <2>4, <2>5 DEF WalkOn, Walks, Completed, ReceiptsOf, CheckedTo,
                                        CheckNotes
<1>4. QED
  BY <1>2, <1>3

LEMMA OthersWalk ==
    ASSUME IInv, WalkInv, [Next]_vars, NEW q \in Procs, call'[q] = call[q]
    PROVE  WalkOn(q)'
<1>1. WalkOn(q)
  BY DEF WalkInv
<1>2. call[q].pc \in {"tool", "put", "finish"} => call[q].action \in Actions
  BY CallFields DEF Loaded, Busy, Entering
<1>3. CheckedTo(call[q].check) => CheckedTo(call[q].check)'
  BY Grows DEF CheckedTo, CheckNotes, ReceiptsOf
<1>4. \A a : CheckNotes(a) \subseteq CheckNotes(a)' /\ Completed(a) \subseteq Completed(a)'
  BY Grows DEF CheckNotes, Completed, ReceiptsOf
<1>5. call[q].pc \in {"tool", "put", "finish"} => runs'[call[q].action] > 0
  BY <1>1, <1>2, WalkKept DEF WalkOn
<1>6. QED
  BY <1>1, <1>3, <1>4, <1>5 DEF WalkOn, CheckedTo, CheckNotes, Completed, ReceiptsOf

LEMMA ReachedKept ==
    ASSUME IInv, WalkInv, [Next]_vars
    PROVE  Reached'
<1>1. UNCHANGED order
  BY Grows
<1>2. /\ Completed(Look) # {} => Completed(Look)' # {}
      /\ Completed(Edit) # {} => Completed(Edit)' # {}
  BY WalkKept
<1>3. ASSUME NEW p \in Procs, Quietly(p), Leads(p)
      PROVE  Reached'
  <2>1. ReconEnds(p) => Completed(Look) # {}
    BY DEF ReconEnds, At, WalkInv, WalkOn
  <2>2. ExecutionEnds(p) => Completed(Edit) # {}
    BY DEF ExecutionEnds, At, WalkInv, WalkOn
  <2>3. ExecuteReading(p) => order.kind = "read"
    BY DEF ExecuteReading
  <2>4. order.kind = "read" /\ state' \in Late => Completed(Look) # {}
    BY <1>3, <2>1 DEF Leads, WalkInv, Reached
  <2>5. order.kind # "read" /\ state' \in {"verify", "completed", "repair"} => Completed(Edit) # {}
    BY <1>3, <2>2, <2>3 DEF Leads, WalkInv, Reached
  <2>6. QED
    BY <1>1, <1>2, <2>4, <2>5 DEF Reached
<1>4. ASSUME UNCHANGED state
      PROVE  Reached'
  BY <1>1, <1>2, <1>4 DEF WalkInv, Reached
<1>5. QED
  BY <1>3, <1>4, LeadingClasses, WorkingSteps DEF Aside

LEMMA NextWalk ==
    ASSUME IInv, WalkInv, [Next]_vars
    PROVE  WalkInv'
<1>1. \A p \in Procs : WalkOn(p)'
  <2>1. SUFFICES ASSUME NEW q \in Procs
                 PROVE  WalkOn(q)'
    OBVIOUS
  <2>2. CASE \E p \in Procs : Quietly(p) /\ Leads(p)
    BY <2>2, StepWalks, OthersWalk, CallTyped DEF Quietly
  <2>3. CASE \E p \in Procs : Works(p) /\ UNCHANGED outside
    <3>1. PICK p \in Procs : Works(p) /\ UNCHANGED outside
      BY <2>3
    <3>2. q # p => call'[q] = call[q]
      BY <3>1, WorkingSteps, CallTyped
    <3>3. QED
      BY <3>1, <3>2, WorkWalks, OthersWalk
  <2>4. CASE Aside
    BY <2>4, OthersWalk DEF Aside
  <2>5. QED
    BY <2>2, <2>3, <2>4, LeadingClasses
<1>2. \A a \in Actions : results'[a] # "none" => runs'[a] > 0
  <2>1. SUFFICES ASSUME NEW a \in Actions, results'[a] # "none"
                 PROVE  runs'[a] > 0
    OBVIOUS
  <2>2. CASE results[a] # "none"
    BY <2>2, WalkKept DEF WalkInv
  <2>3. CASE results[a] = "none"
    <3>1. PICK p \in Procs : Works(p) /\ UNCHANGED outside
      BY <2>1, <2>3, Classes DEF Quietly, Aside
    <3>2. ResultStored(p) /\ a = call[p].action
      <4>1. ResultStored(p)
        BY <2>1, <2>3, <3>1 DEF Works, DispatchAuthorized, DispatchStarted, ToolReturns,
           ToolRaises, DispatchCompleted, AppendEvent, storeVars
      <4>2. results' = [results EXCEPT ![call[p].action] = call[p].says]
        BY <4>1 DEF ResultStored, PutResult
      <4>3. results \in [Actions -> Verdicts \cup {"none"}]
        BY DEF IInv, TypeOK, StoreTypeOK
      <4>4. QED
        BY <2>1, <2>3, <4>1, <4>2, <4>3
    <3>3. runs[a] > 0
      BY <3>2 DEF ResultStored, At, WalkInv, WalkOn
    <3>4. QED
      BY <3>3, WalkKept
  <2>4. QED
    BY <2>2, <2>3
<1>3. QED
  BY <1>1, <1>2, ReachedKept DEF WalkInv

LEMMA InitWalk == Init => WalkInv
BY NoCallTyped DEF Init, StoreInit, DispatchInit, WalkInv, WalkOn, Walks, Reached, Late

\* Once it is completed nobody is inside continue_workflow, and no row that is kept
\* was missing.
Lasting ==
    /\ CompletedIsVerified
    /\ OneDriver /\ state = "completed" => \A p \in Procs : call[p].pc \notin Path
    /\ ~ResultsExpire /\ state = "completed" /\ ~order.render =>
          \A i \in 1 .. Len(CheckList) : results[CheckList[i]] # "none"

\* What a step does to a row: nothing, running out, or the first result.
LEMMA RowSteps ==
    ASSUME IInv, [Next]_vars, NEW a \in Actions
    PROVE  \/ results'[a] = results[a]
           \/ results'[a] = "none" /\ a \in expired
           \/ results[a] = "none" /\ \E p \in Procs : call[p].pc = "put"
<1>1. CASE \E p \in Procs : Quietly(p)
  BY <1>1 DEF Quietly
<1>2. ASSUME NEW p \in Procs, Works(p)
      PROVE  \/ results'[a] = results[a]
             \/ results[a] = "none" /\ call[p].pc = "put"
  <2>1. CASE ResultStored(p)
    <3>1. PICK v : v = call[p].says
      OBVIOUS
    <3>2. PICK b : b = call[p].action
      OBVIOUS
    <3>3. results[b] \in {v, "none"} /\ results' = [results EXCEPT ![b] = v]
          /\ call[p].pc = "put"
      BY <2>1, <3>1, <3>2 DEF ResultStored, PutResult, At
    <3>4. results \in [Actions -> Verdicts \cup {"none"}]
      BY DEF IInv, TypeOK, StoreTypeOK
    <3>5. QED
      BY <3>3, <3>4
  <2>2. QED
    BY <1>2, <2>1 DEF Works, DispatchAuthorized, DispatchStarted, ToolReturns,
       ToolRaises, DispatchCompleted, AppendEvent, storeVars
<1>3. CASE Aside
  BY <1>3 DEF Aside
<1>4. QED
  BY <1>1, <1>2, <1>3, Classes

LEMMA CheckListIs ==
    ASSUME IInv
    PROVE  /\ order.kind = "edit" => CheckList = Checks
           /\ order.kind # "edit" => CheckList = <<>>
           /\ \A i \in 1 .. Len(CheckList) : CheckList[i] \in Actions
           /\ Len(CheckList) \in Nat
BY ServiceAssumption DEF CheckList

\* policy.complete judges a workflow that is verified.
LEMMA CompleteVerifies ==
    ASSUME IInv, WalkInv, ReceiptInv, [Next]_vars, NEW p \in Procs, Complete(p)
    PROVE  /\ CompletedIsVerified'
           /\ \A i \in 1 .. Len(CheckList) : results'[CheckList[i]] # "none"
<1> DEFINE T == IF order.kind = "read" THEN Look ELSE Edit
<1>1. /\ call[p].pc = "verify" /\ call[p].check > Len(CheckList)
      /\ ExecutedSafely /\ DomainVerified /\ state = "verify"
  BY DEF Complete, Judging, At, Settles, Transition, Record
<1>2. UNCHANGED <<results, runs, order>> /\ ledger \subseteq ledger'
  BY DEF Complete, Settles, Transition, outside
<1>3. ExecutedSafely'
  BY <1>1, <1>2 DEF ExecutedSafely
<1>4. \E e \in Completed(T) : e.says \in Accepted(T) /\ e.action = T
  <2>1. T \in Actions
    BY ServiceAssumption
  <2>2. PICK e : e \in Completed(T)
    BY <1>1 DEF WalkInv, Reached, Late
  <2>3. results[T] # "none" /\ results[T] \in Accepted(T)
    BY <1>1 DEF DomainVerified, Passes, Readable, Accepted
  <2>4. e.says = results[T] /\ e.action = T
    BY <2>1, <2>2, <2>3 DEF ReceiptInv, Settled, Completed, ReceiptsOf
  <2>5. QED
    BY <2>2, <2>3, <2>4
<1>5. \E e \in Completed(T)' : e.says \in Accepted(e.action)'
  BY <1>2, <1>4 DEF Completed, ReceiptsOf, Accepted
<1>6. \A i \in 1 .. Len(CheckList) :
         /\ runs[CheckList[i]] > 0
         /\ results[CheckList[i]] \in Accepted(CheckList[i]) /\ results[CheckList[i]] # "none"
         /\ ReceiptsOf("verification.checked", CheckList[i]) # {}
  <2>1. SUFFICES ASSUME NEW i \in 1 .. Len(CheckList)
                 PROVE  /\ runs[CheckList[i]] > 0
                        /\ results[CheckList[i]] \in Accepted(CheckList[i])
                        /\ results[CheckList[i]] # "none"
                        /\ ReceiptsOf("verification.checked", CheckList[i]) # {}
    OBVIOUS
  <2>2. CheckList[i] \in Actions /\ CheckList = Checks
    BY CheckListIs
  <2>3. results[CheckList[i]] \in Accepted(CheckList[i]) /\ results[CheckList[i]] # "none"
    BY <1>1 DEF DomainVerified, Passes, Readable, Accepted
  <2>4. runs[CheckList[i]] > 0
    BY <2>2, <2>3 DEF WalkInv
  <2>5. CheckNotes(Checks[i]) # {}
    <3>1. CheckedTo(call[p].check)
      BY <1>1 DEF WalkInv, WalkOn
    <3>2. i < call[p].check
      BY <1>1, CallFields, CheckListIs
    <3>3. QED
      BY <2>2, <3>1, <3>2 DEF CheckedTo
  <2>6. QED
    BY <2>2, <2>3, <2>4, <2>5 DEF CheckNotes
<1>7. CheckList' = CheckList
  BY <1>2 DEF CheckList
<1>8. \A a : ReceiptsOf("verification.checked", a) \subseteq ReceiptsOf("verification.checked", a)'
             /\ Accepted(a)' = Accepted(a)
  BY <1>2 DEF ReceiptsOf, Accepted
<1>9. QED
  BY <1>2, <1>3, <1>5, <1>6, <1>7, <1>8 DEF CompletedIsVerified

\* What was verified stays verified.
LEMMA VerifiedStays ==
    ASSUME IInv, ReceiptInv, OneDriver \/ ~ResultsExpire, Lasting, [Next]_vars,
           state = "completed"
    PROVE  /\ CompletedIsVerified'
           /\ ~ResultsExpire /\ ~order.render =>
                 \A i \in 1 .. Len(CheckList) : results'[CheckList[i]] # "none"
<1>1. SUFFICES ASSUME ~order.render
               PROVE  /\ CompletedIsVerified'
                      /\ ~ResultsExpire =>
                            \A i \in 1 .. Len(CheckList) : results'[CheckList[i]] # "none"
  BY Grows DEF CompletedIsVerified
<1>2. ledger \subseteq ledger' /\ UNCHANGED order /\ \A a \in Actions : runs'[a] >= runs[a]
  BY Grows
<1>3. CheckList' = CheckList /\ ExecutedSafely /\ ExecutedSafely'
  BY <1>1, <1>2 DEF CheckList, ExecutedSafely, Lasting, CompletedIsVerified
<1>4. \E e \in Completed(IF order.kind = "read" THEN Look ELSE Edit)' :
         e.says \in Accepted(e.action)'
  BY <1>1, <1>2 DEF Lasting, CompletedIsVerified, Completed, ReceiptsOf, Accepted
<1>5. \A i \in 1 .. Len(CheckList) :
         /\ runs'[CheckList[i]] > 0
         /\ results'[CheckList[i]] \in Accepted(CheckList[i]) \cup {"none"}
         /\ ~ResultsExpire => results'[CheckList[i]] # "none"
         /\ ReceiptsOf("verification.checked", CheckList[i])' # {}
  <2>1. SUFFICES ASSUME NEW i \in 1 .. Len(CheckList)
                 PROVE  /\ runs'[CheckList[i]] > 0
                        /\ results'[CheckList[i]] \in Accepted(CheckList[i]) \cup {"none"}
                        /\ ~ResultsExpire => results'[CheckList[i]] # "none"
                        /\ ReceiptsOf("verification.checked", CheckList[i])' # {}
    OBVIOUS
  <2>2. PICK a \in Actions : a = CheckList[i]
    BY CheckListIs
  <2>3. /\ runs[a] > 0 /\ results[a] \in Accepted(a) \cup {"none"}
        /\ ReceiptsOf("verification.checked", a) # {}
        /\ ~ResultsExpire => results[a] # "none"
    BY <1>1, <2>2 DEF Lasting, CompletedIsVerified
  <2>4. runs'[a] > 0
    BY <2>3, WalkKept
  <2>5. results'[a] \in {results[a], "none"} /\ (~ResultsExpire => results'[a] = results[a])
    <3>1. \A p \in Procs : OneDriver => call[p].pc # "put"
      BY DEF Lasting, Path
    <3>2. ~ResultsExpire => expired = {}
      BY DEF ReceiptInv
    <3>3. QED
      BY <2>3, <3>1, <3>2, RowSteps
  <2>6. ReceiptsOf("verification.checked", a)' # {}
    BY <1>2, <2>3 DEF ReceiptsOf
  <2>7. QED
    BY <1>3, <2>2, <2>3, <2>4, <2>5, <2>6 DEF ReceiptsOf
<1>6. \A a : Accepted(a)' = Accepted(a)
  BY <1>2 DEF Accepted
<1>7. QED
  BY <1>2, <1>3, <1>4, <1>5, <1>6 DEF CompletedIsVerified, ReceiptsOf, Accepted

\* With one driver nobody enters continue_workflow after the end.
LEMMA NobodyLeft ==
    ASSUME IInv, OneDriver, AttemptInv, Lasting, [Next]_vars, state' = "completed",
           NEW q \in Procs
    PROVE  call'[q].pc \notin Path
<1>1. CASE state = "completed"
  <2>1. call[q].pc \notin Path
    BY <1>1 DEF Lasting
  <2>2. CASE \E p \in Procs : Quietly(p)
    BY <1>1, <2>1, <2>2, CallTyped DEF Quietly, Terminal
  <2>3. CASE \E p \in Procs : Works(p) /\ UNCHANGED outside
    BY <1>1, <2>3, WorkingSteps DEF Lasting
  <2>4. CASE Aside
    BY <2>1, <2>4 DEF Aside
  <2>5. QED
    BY <2>2, <2>3, <2>4, Classes
<1>2. CASE state # "completed"
  <2>1. PICK p \in Procs : Complete(p) \/ CompleteRendered(p)
    BY <1>2, LeadingClasses, WorkingSteps DEF Leads, Aside
  <2>2. call[p].pc \in Path /\ call' = [call EXCEPT ![p] = NoCall]
    BY <2>1 DEF Complete, CompleteRendered, Judging, Settles, Returns, At, Path
  <2>3. q # p => call'[q] = call[q] /\ call[q].pc \notin Path
    BY <2>2, CallTyped, Lonely
  <2>4. call'[p].pc = "idle"
    BY <2>2, CallTyped DEF NoCall, Fresh
  <2>5. QED
    BY <2>3, <2>4 DEF Path
<1>3. QED
  BY <1>1, <1>2

LEMMA NextLasting ==
    ASSUME IInv, OneDriver \/ ~ResultsExpire, OneDriver => AttemptInv,
           WalkInv, ReceiptInv, RenderInv, Lasting, [Next]_vars
    PROVE  Lasting'
<1>1. UNCHANGED order /\ CheckList' = CheckList
  BY Grows DEF CheckList
<1>2. OneDriver /\ state' = "completed" => \A p \in Procs : call'[p].pc \notin Path
  BY NobodyLeft
<1>3. /\ CompletedIsVerified'
      /\ ~ResultsExpire /\ state' = "completed" /\ ~order.render =>
            \A i \in 1 .. Len(CheckList) : results'[CheckList[i]] # "none"
  <2>1. CASE state = "completed"
    BY <2>1, VerifiedStays
  <2>2. CASE state' # "completed"
    BY <2>2 DEF CompletedIsVerified
  <2>3. CASE state # "completed" /\ state' = "completed"
    <3>1. PICK p \in Procs : Complete(p) \/ CompleteRendered(p)
      BY <2>3, LeadingClasses, WorkingSteps DEF Leads, Aside
    <3>2. CASE Complete(p)
      BY <3>2, CompleteVerifies
    <3>3. CASE CompleteRendered(p)
      <4>1. order.render
        BY <3>3 DEF CompleteRendered, At, RenderInv, RenderOn, Rendering
      <4>2. QED
        BY <1>1, <4>1 DEF CompletedIsVerified
    <3>4. QED
      BY <3>1, <3>2, <3>3
  <2>4. QED
    BY <2>1, <2>2, <2>3
<1>4. QED
  BY <1>1, <1>2, <1>3 DEF Lasting

\* A workflow that asks for no render completes only when its edit completed and
\* passed and every mandatory verifier was run, receipted and passed; for any number
\* of drivers while rows are kept, for one when they may expire (policy.complete,
\* execution_evidence_ok, verification_ok).
THEOREM VerifiedCompletion ==
    ASSUME OneDriver \/ ~ResultsExpire
    PROVE  Spec => []CompletedIsVerified
<1>1. Init => RenderInv /\ Lasting
  BY NoCallTyped DEF Init, StoreInit, DispatchInit, RenderInv, RenderOn, CompletedIsRendered,
     Rendering, Lasting, CompletedIsVerified
<1>2. IInv /\ RenderInv /\ [Next]_vars => RenderInv'
  BY NextRender
<1>3. IInv /\ WalkInv /\ [Next]_vars => WalkInv'
  BY NextWalk
<1>4. Spec => [](IInv /\ RenderInv /\ WalkInv /\ ReceiptInv)
  BY <1>1, <1>2, <1>3, InitWalk, Invariance, ReceiptInvariance, PTL DEF Spec
<1>5. Spec => [](OneDriver => AttemptInv)
  <2>1. CASE OneDriver
    BY <2>1, AttemptInvariance, PTL
  <2>2. CASE ~OneDriver
    BY <2>2, PTL
  <2>3. QED
    BY <2>1, <2>2
<1>6. /\ IInv /\ RenderInv /\ WalkInv /\ ReceiptInv /\ (OneDriver => AttemptInv)
      /\ Lasting /\ [Next]_vars
      => Lasting'
  BY NextLasting
<1>7. Lasting => CompletedIsVerified
  BY DEF Lasting
<1>8. QED
  BY <1>1, <1>4, <1>5, <1>6, <1>7, PTL DEF Spec
=============================================================================
