-------------------------- MODULE ActorSystemProofs --------------------------
(***************************************************************************)
(* What ActorSystem guarantees for every number of actors, every capacity  *)
(* and every program.                                                      *)
(***************************************************************************)
EXTENDS ActorSystem, TLAPS

\* A task in the middle of a statement is at a statement of that kind.
MidStatement ==
    \A t \in Tasks :
        /\ phase[t] \in {"parented", "registered"} =>
              ~AtEnd(t) /\ Stmt(t).op = "spawn"
        /\ phase[t] = "sending" => ~AtEnd(t) /\ Stmt(t).op = "send"

\* Ids are handed out in order, and only a task knows the actor it is about
\* to start.
IdsInOrder ==
    /\ \A a \in Ids : phase[a] = "none" <=> a >= nextId
    /\ self < nextId
    /\ \A t \in Tasks :
          /\ phase[t] = "parented" => reg[t] < nextId
          /\ phase[t] = "registered" => reg[t] \in Ids /\ phase[reg[t]] = "new"
          /\ phase[t] \in {"sending", "escalating"} => reg[t] \in Ids
    /\ \A t, u \in Tasks :
          phase[t] = "registered" /\ phase[u] = "registered" /\ reg[t] = reg[u]
             => t = u

\* The main executor never waits on a mailbox or enters the actor life cycle.
MainPhases ==
    phase[None] \in {"run", "parented", "registered", "sending", "gone"}

IInv == /\ TypeOK
        /\ MidStatement
        /\ IdsInOrder
        /\ MainPhases
        /\ RegistryExact
        /\ NamesLead
        /\ SupervisionForest

-----------------------------------------------------------------------------
(* Facts about the operators the actions are built from.                    *)

\* Every actor is a task, and none of them is the main executor.
LEMMA IdFacts ==
    /\ \A a \in Ids : a \in Tasks /\ a # None /\ a \in Nat /\ None < a
    /\ \A t \in Tasks : t \in Nat /\ (t # None => t \in Ids)
    /\ None \in Tasks
BY ActorAssumption DEF Ids, Tasks, None

\* A statement a task is at has the fields of its kind.
LEMMA StatementTypes ==
    ASSUME TypeOK, NEW t \in Tasks, ~AtEnd(t)
    PROVE  /\ Stmt(t) \in Statements
           /\ Stmt(t).op = "send" => Stmt(t).to \in Keys /\ Stmt(t).text \in Texts
           /\ Stmt(t).op = "spawn" =>
                 /\ Stmt(t).body \in Bodies
                 /\ Stmt(t).name \in Names \union {NoName}
                 /\ Stmt(t).strategy \in Strategies
<1>1. Body(t) \in Seq(Statements)
  <2>1. prog \in [Bodies -> Seq(Statements)]
    BY ActorAssumption DEF TypeOK
  <2>2. CASE t = None
    BY <2>1, <2>2, ActorAssumption DEF Body
  <2>3. CASE t # None
    <3>1. t \in Ids
      BY <2>3 DEF Tasks, Ids, None
    <3>2. meta[t].body \in Bodies
      BY <3>1 DEF TypeOK, Metadata
    <3> QED BY <2>1, <2>3, <3>2 DEF Body
  <2> QED BY <2>2, <2>3
<1>2. at[t] \in 1..Len(Body(t))
  BY <1>1 DEF TypeOK, AtEnd
<1>3. Stmt(t) \in Statements
  BY <1>1, <1>2 DEF Stmt
<1> QED BY <1>3 DEF Statements

\* resolve_sender returns a registered actor or nothing, and for an id only
\* the actor with that id.
LEMMA ResolveFinds ==
    ASSUME TypeOK, NEW key \in Keys
    PROVE  /\ Resolve(key) \in Tasks
           /\ Resolve(key) # None => Resolve(key) \in actors
           /\ key \in Ids => Resolve(key) \in {key, None}
<1>1. CASE key \in actors
  <2>1. Resolve(key) = key /\ key \in Ids
    BY <1>1 DEF Resolve, TypeOK
  <2> QED BY <1>1, <2>1 DEF Tasks, Ids
<1>2. CASE key \notin actors /\ key \in Names
  <2>1. key \notin Ids
    BY <1>2, ActorAssumption DEF Tasks, Ids
  <2>2. nameMap[key] \in Tasks
    BY <1>2 DEF TypeOK
  <2>3. None \in Tasks
    BY ActorAssumption DEF Tasks, None
  <2> QED BY <1>2, <2>1, <2>2, <2>3 DEF Resolve
<1>3. CASE key \notin actors /\ key \notin Names
  <2>1. Resolve(key) = None
    BY <1>3 DEF Resolve
  <2> QED BY <2>1, ActorAssumption DEF Tasks, None
<1> QED BY <1>1, <1>2, <1>3

\* Nothing is registered at first.
LEMMA InitInvariant == Init => IInv
<1> SUFFICES ASSUME Init PROVE IInv
  OBVIOUS
<1>1. TypeOK
  <2>1. NoMeta \in Metadata
    BY ActorAssumption DEF NoMeta, Metadata, Strategies, Tasks, None
  <2>2. [a \in Ids |-> <<>>] \in [Ids -> Seq(Messages)]
    OBVIOUS
  <2> QED BY <2>1, <2>2, ActorAssumption DEF Init, TypeOK, Tasks, None, Phases
<1>2. /\ \A a \in Ids : phase[a] = "none" /\ meta[a] = NoMeta
      /\ phase[None] = "run"
      /\ \A t \in Tasks : phase[t] \in {"none", "run"}
  BY IdFacts DEF Init
<1>3. MidStatement /\ MainPhases
  BY <1>2 DEF MidStatement, MainPhases
<1>4. RegistryExact /\ NamesLead
  BY <1>2 DEF Init, RegistryExact, Registered, NamesLead
<1>5. IdsInOrder
  <2>1. \A a \in Ids : a >= nextId
    BY ActorAssumption DEF Init, Ids
  <2>2. self < nextId
    BY DEF Init, None
  <2> QED BY <1>2, <2>1, <2>2 DEF IdsInOrder
<1>6. SupervisionForest
  BY <1>2, IdFacts DEF SupervisionForest, NoMeta
<1> QED BY <1>1, <1>2, <1>3, <1>4, <1>5, <1>6 DEF IInv

\* The parent a Spawn reads is main or an id that has been handed out.
LEMMA SpawnReadParentPreserves ==
    ASSUME IInv, NEW t \in Tasks, SpawnReadParent(t)
    PROVE  IInv'
<1> USE DEF IInv, SpawnReadParent, Goto, Advance, Executes
<1>1. TypeOK'
  BY IdFacts, StatementTypes, ResolveFinds DEF TypeOK, Phases
<1>2. MidStatement'
  BY IdFacts DEF MidStatement, TypeOK, AtEnd, Stmt, Body
<1>3. IdsInOrder'
  BY IdFacts, ResolveFinds DEF IdsInOrder, TypeOK
<1>4. MainPhases'
  BY IdFacts DEF MainPhases, TypeOK
<1>5. RegistryExact'
  BY IdFacts DEF RegistryExact, Registered, TypeOK
<1>6. NamesLead'
  BY IdFacts DEF NamesLead, RegistryExact, Registered, TypeOK
<1>7. SupervisionForest'
  BY IdFacts, ResolveFinds DEF SupervisionForest, TypeOK
<1> QED BY <1>1, <1>2, <1>3, <1>4, <1>5, <1>6, <1>7

\* A new id enters the registry above every parent it may have.
LEMMA SpawnRegisterPreserves ==
    ASSUME IInv, NEW t \in Tasks, SpawnRegister(t)
    PROVE  IInv'
<1> USE DEF IInv, SpawnRegister, Goto, Advance, Executes
<1>a. /\ nextId \in Ids /\ phase[nextId] = "none" /\ nextId # t
      /\ ~AtEnd(t) /\ Stmt(t).op = "spawn" /\ reg[t] < nextId
  <2>1. nextId \in Ids
    BY ActorAssumption DEF TypeOK, Ids
  <2>2. phase[nextId] = "none"
    BY <2>1, IdFacts DEF IdsInOrder
  <2> QED BY <2>1, <2>2 DEF MidStatement, IdsInOrder
<1>1. TypeOK'
  <2>1. [body |-> Stmt(t).body, name |-> Stmt(t).name, parent |-> reg[t],
         strategy |-> Stmt(t).strategy, creator |-> t] \in Metadata
    BY <1>a, StatementTypes DEF TypeOK, Metadata
  <2>2. nextId' \in 1..(MaxActors + 1)
    BY ActorAssumption DEF TypeOK
  <2> QED BY <1>a, <2>1, <2>2, IdFacts DEF TypeOK, Phases
<1>2. MidStatement'
  BY <1>a, IdFacts DEF MidStatement, TypeOK, AtEnd, Stmt, Body
<1>3. IdsInOrder'
  <2>1. \A a \in Ids : phase'[a] = "none" <=> a >= nextId'
    BY <1>a, IdFacts DEF IdsInOrder, TypeOK
  <2>2. self' < nextId'
    BY IdFacts DEF IdsInOrder, TypeOK
  <2>3. ASSUME NEW u \in Tasks
        PROVE  /\ phase'[u] = "parented" => reg'[u] < nextId'
               /\ phase'[u] = "registered" =>
                     reg'[u] \in Ids /\ phase'[reg'[u]] = "new"
               /\ phase'[u] \in {"sending", "escalating"} => reg'[u] \in Ids
    BY <1>a, IdFacts DEF IdsInOrder, TypeOK
  <2>4. ASSUME NEW u \in Tasks, NEW w \in Tasks, phase'[u] = "registered",
               phase'[w] = "registered", reg'[u] = reg'[w]
        PROVE  u = w
    BY <1>a, <2>4, IdFacts DEF IdsInOrder, TypeOK
  <2> QED BY <2>1, <2>2, <2>3, <2>4 DEF IdsInOrder
<1>4. MainPhases'
  BY <1>a, IdFacts DEF MainPhases, TypeOK
<1>5. RegistryExact'
  BY <1>a, IdFacts DEF RegistryExact, Registered, TypeOK
<1>6. NamesLead'
  BY <1>a, IdFacts DEF NamesLead, RegistryExact, Registered, TypeOK
<1>7. SupervisionForest'
  BY <1>a, IdFacts DEF SupervisionForest, TypeOK, IdsInOrder
<1> QED BY <1>1, <1>2, <1>3, <1>4, <1>5, <1>6, <1>7

\* The name is taken over by an actor that has just been started.
LEMMA SpawnStartPreserves ==
    ASSUME IInv, NEW t \in Tasks, SpawnStart(t)
    PROVE  IInv'
<1> USE DEF IInv, SpawnStart, Goto, Advance, Executes
<1>a. reg[t] \in Ids /\ phase[reg[t]] = "new" /\ reg[t] # t
  BY DEF IdsInOrder
<1>1. TypeOK'
  <2>1. nameMap' \in [Names -> Tasks]
    BY <1>a, IdFacts DEF TypeOK
  <2>2. phase' \in [Tasks -> Phases]
    BY <1>a, IdFacts DEF TypeOK, Phases
  <2>3. at' \in [Tasks -> Nat \ {0}]
    BY DEF TypeOK
  <2> QED BY <2>1, <2>2, <2>3 DEF TypeOK
<1>2. MidStatement'
  BY IdFacts DEF MidStatement, TypeOK, AtEnd, Stmt, Body
<1>3. IdsInOrder'
  BY IdFacts, ResolveFinds DEF IdsInOrder, TypeOK
<1>4. MainPhases'
  BY <1>a, IdFacts DEF MainPhases, TypeOK
<1>5. RegistryExact'
  BY <1>a, IdFacts DEF RegistryExact, Registered, TypeOK
<1>6. NamesLead'
  BY <1>a, IdFacts DEF NamesLead, RegistryExact, Registered, TypeOK
<1>7. SupervisionForest'
  BY IdFacts, ResolveFinds DEF SupervisionForest, TypeOK
<1> QED BY <1>1, <1>2, <1>3, <1>4, <1>5, <1>6, <1>7

\* A statement that touches nothing shared.
LEMMA WorkPreserves ==
    ASSUME IInv, NEW t \in Tasks, Work(t)
    PROVE  IInv'
<1> USE DEF IInv, Work, Goto, Advance, Executes
<1>1. TypeOK'
  BY IdFacts, StatementTypes, ResolveFinds DEF TypeOK, Phases
<1>2. MidStatement'
  BY IdFacts DEF MidStatement, TypeOK, AtEnd, Stmt, Body
<1>3. IdsInOrder'
  BY IdFacts, ResolveFinds DEF IdsInOrder, TypeOK
<1>4. MainPhases'
  BY IdFacts DEF MainPhases, TypeOK
<1>5. RegistryExact'
  BY IdFacts DEF RegistryExact, Registered, TypeOK
<1>6. NamesLead'
  BY IdFacts DEF NamesLead, RegistryExact, Registered, TypeOK
<1>7. SupervisionForest'
  BY IdFacts, ResolveFinds DEF SupervisionForest, TypeOK
<1> QED BY <1>1, <1>2, <1>3, <1>4, <1>5, <1>6, <1>7

\* A loop goes back to its first statement.
LEMMA AgainPreserves ==
    ASSUME IInv, NEW t \in Tasks, Again(t)
    PROVE  IInv'
<1> USE DEF IInv, Again, Goto, Advance, Executes
<1>1. TypeOK'
  BY IdFacts, StatementTypes, ResolveFinds DEF TypeOK, Phases
<1>2. MidStatement'
  BY IdFacts DEF MidStatement, TypeOK, AtEnd, Stmt, Body
<1>3. IdsInOrder'
  BY IdFacts, ResolveFinds DEF IdsInOrder, TypeOK
<1>4. MainPhases'
  BY IdFacts DEF MainPhases, TypeOK
<1>5. RegistryExact'
  BY IdFacts DEF RegistryExact, Registered, TypeOK
<1>6. NamesLead'
  BY IdFacts DEF NamesLead, RegistryExact, Registered, TypeOK
<1>7. SupervisionForest'
  BY IdFacts, ResolveFinds DEF SupervisionForest, TypeOK
<1> QED BY <1>1, <1>2, <1>3, <1>4, <1>5, <1>6, <1>7

\* A resolved target is a registered actor.
LEMMA SendResolvePreserves ==
    ASSUME IInv, NEW t \in Tasks, SendResolve(t)
    PROVE  IInv'
<1> USE DEF IInv, SendResolve, Goto, Advance, Executes
<1>a. Resolve(Stmt(t).to) \in Ids /\ Resolve(Stmt(t).to) \in Tasks
  <2>1. Stmt(t).to \in Keys
    BY StatementTypes DEF Stmt
  <2> QED BY <2>1, ResolveFinds, IdFacts
<1>1. TypeOK'
  BY <1>a, IdFacts DEF TypeOK, Phases
<1>2. MidStatement'
  BY IdFacts DEF MidStatement, TypeOK, AtEnd, Stmt, Body
<1>3. IdsInOrder'
  BY <1>a, IdFacts DEF IdsInOrder, TypeOK
<1>4. MainPhases'
  BY IdFacts DEF MainPhases, TypeOK
<1>5. RegistryExact'
  BY IdFacts DEF RegistryExact, Registered, TypeOK
<1>6. NamesLead'
  BY IdFacts DEF NamesLead, RegistryExact, Registered, TypeOK
<1>7. SupervisionForest'
  BY IdFacts, ResolveFinds DEF SupervisionForest, TypeOK
<1> QED BY <1>1, <1>2, <1>3, <1>4, <1>5, <1>6, <1>7

\* A message to nobody is dropped.
LEMMA SendUnknownPreserves ==
    ASSUME IInv, NEW t \in Tasks, SendUnknown(t)
    PROVE  IInv'
<1> USE DEF IInv, SendUnknown, Goto, Advance, Executes
<1>1. TypeOK'
  BY IdFacts, StatementTypes, ResolveFinds DEF TypeOK, Phases
<1>2. MidStatement'
  BY IdFacts DEF MidStatement, TypeOK, AtEnd, Stmt, Body
<1>3. IdsInOrder'
  BY IdFacts, ResolveFinds DEF IdsInOrder, TypeOK
<1>4. MainPhases'
  BY IdFacts DEF MainPhases, TypeOK
<1>5. RegistryExact'
  BY IdFacts DEF RegistryExact, Registered, TypeOK
<1>6. NamesLead'
  BY IdFacts DEF NamesLead, RegistryExact, Registered, TypeOK
<1>7. SupervisionForest'
  BY IdFacts, ResolveFinds DEF SupervisionForest, TypeOK
<1> QED BY <1>1, <1>2, <1>3, <1>4, <1>5, <1>6, <1>7

\* A delivery fills a mailbox and lets its sender go on or leave.
LEMMA DeliverPreserves ==
    ASSUME IInv, NEW t \in Tasks, Deliver(t)
    PROVE  IInv'
<1> USE DEF IInv, Deliver, Goto, Advance, Executes, AfterSend
<1>a. /\ reg[t] \in Ids
      /\ phase[t] = "sending" => ~AtEnd(t) /\ Stmt(t).op = "send"
  BY DEF MidStatement, IdsInOrder
<1>1. TypeOK'
  <2>1. [from |-> t, text |-> IF phase[t] = "escalating"
                               THEN Crash ELSE Stmt(t).text] \in Messages
    BY <1>a, StatementTypes DEF Messages
  <2>2. mailbox' \in [Ids -> Seq(Messages)]
    BY <1>a, <2>1 DEF TypeOK
  <2>3. phase' \in [Tasks -> Phases]
    BY DEF TypeOK, Phases
  <2>4. at' \in [Tasks -> Nat \ {0}]
    BY DEF TypeOK
  <2> QED BY <2>2, <2>3, <2>4 DEF TypeOK
<1>2. MidStatement'
  BY IdFacts DEF MidStatement, TypeOK, AtEnd, Stmt, Body
<1>3. IdsInOrder'
  <2>1. ASSUME NEW u \in Tasks
        PROVE  /\ phase'[u] = "parented" => reg'[u] < nextId'
               /\ phase'[u] = "registered" =>
                     reg'[u] \in Ids /\ phase'[reg'[u]] = "new"
               /\ phase'[u] \in {"sending", "escalating"} => reg'[u] \in Ids
    BY <1>a, IdFacts DEF IdsInOrder, TypeOK
  <2>2. ASSUME NEW u \in Tasks, NEW w \in Tasks, phase'[u] = "registered",
               phase'[w] = "registered", reg'[u] = reg'[w]
        PROVE  u = w
    BY <1>a, <2>2, IdFacts DEF IdsInOrder, TypeOK
  <2>3. \A b \in Ids : phase'[b] = "none" <=> b >= nextId'
    BY <1>a, IdFacts DEF IdsInOrder, TypeOK
  <2> QED BY <2>1, <2>2, <2>3 DEF IdsInOrder
<1>4. MainPhases'
  BY IdFacts DEF MainPhases, TypeOK
<1>5. RegistryExact'
  BY IdFacts DEF RegistryExact, Registered, TypeOK
<1>6. NamesLead'
  BY IdFacts DEF NamesLead, RegistryExact, Registered, TypeOK
<1>7. SupervisionForest'
  BY IdFacts, ResolveFinds DEF SupervisionForest, TypeOK
<1> QED BY <1>1, <1>2, <1>3, <1>4, <1>5, <1>6, <1>7

\* A closed channel lets its sender go on or leave.
LEMMA SendClosedPreserves ==
    ASSUME IInv, NEW t \in Tasks, SendClosed(t)
    PROVE  IInv'
<1> USE DEF IInv, SendClosed, Goto, Advance, Executes, AfterSend
<1>a. reg[t] \in Ids
  BY DEF IdsInOrder
<1>1. TypeOK'
  BY IdFacts, StatementTypes, ResolveFinds DEF TypeOK, Phases
<1>2. MidStatement'
  BY IdFacts DEF MidStatement, TypeOK, AtEnd, Stmt, Body
<1>3. IdsInOrder'
  <2>1. ASSUME NEW u \in Tasks
        PROVE  /\ phase'[u] = "parented" => reg'[u] < nextId'
               /\ phase'[u] = "registered" =>
                     reg'[u] \in Ids /\ phase'[reg'[u]] = "new"
               /\ phase'[u] \in {"sending", "escalating"} => reg'[u] \in Ids
    BY <1>a, IdFacts DEF IdsInOrder, TypeOK
  <2>2. ASSUME NEW u \in Tasks, NEW w \in Tasks, phase'[u] = "registered",
               phase'[w] = "registered", reg'[u] = reg'[w]
        PROVE  u = w
    BY <1>a, <2>2, IdFacts DEF IdsInOrder, TypeOK
  <2>3. \A b \in Ids : phase'[b] = "none" <=> b >= nextId'
    BY <1>a, IdFacts DEF IdsInOrder, TypeOK
  <2> QED BY <2>1, <2>2, <2>3 DEF IdsInOrder
<1>4. MainPhases'
  BY IdFacts DEF MainPhases, TypeOK
<1>5. RegistryExact'
  BY IdFacts DEF RegistryExact, Registered, TypeOK
<1>6. NamesLead'
  BY IdFacts DEF NamesLead, RegistryExact, Registered, TypeOK
<1>7. SupervisionForest'
  BY IdFacts, ResolveFinds DEF SupervisionForest, TypeOK
<1> QED BY <1>1, <1>2, <1>3, <1>4, <1>5, <1>6, <1>7

\* A body that ends sends its actor to unregister.
LEMMA FinishPreserves ==
    ASSUME IInv, NEW t \in Tasks, Finish(t)
    PROVE  IInv'
<1> USE DEF IInv, Finish, Goto, Advance, Executes
<1>1. TypeOK'
  BY IdFacts, StatementTypes, ResolveFinds DEF TypeOK, Phases
<1>2. MidStatement'
  BY IdFacts DEF MidStatement, TypeOK, AtEnd, Stmt, Body
<1>3. IdsInOrder'
  BY IdFacts, ResolveFinds DEF IdsInOrder, TypeOK
<1>4. MainPhases'
  BY IdFacts DEF MainPhases, TypeOK
<1>5. RegistryExact'
  BY IdFacts DEF RegistryExact, Registered, TypeOK
<1>6. NamesLead'
  BY IdFacts DEF NamesLead, RegistryExact, Registered, TypeOK
<1>7. SupervisionForest'
  BY IdFacts, ResolveFinds DEF SupervisionForest, TypeOK
<1> QED BY <1>1, <1>2, <1>3, <1>4, <1>5, <1>6, <1>7

\* The shared variable self becomes the id of a registered actor.
LEMMA StartBodyPreserves ==
    ASSUME IInv, NEW a \in Ids, StartBody(a)
    PROVE  IInv'
<1> USE DEF IInv, StartBody, Goto, Advance, Executes
<1>1. TypeOK'
  BY IdFacts, StatementTypes, ResolveFinds DEF TypeOK, Phases
<1>2. MidStatement'
  BY IdFacts DEF MidStatement, TypeOK, AtEnd, Stmt, Body
<1>3. IdsInOrder'
  BY IdFacts, ResolveFinds DEF IdsInOrder, TypeOK
<1>4. MainPhases'
  BY IdFacts DEF MainPhases, TypeOK
<1>5. RegistryExact'
  BY IdFacts DEF RegistryExact, Registered, TypeOK
<1>6. NamesLead'
  BY IdFacts DEF NamesLead, RegistryExact, Registered, TypeOK
<1>7. SupervisionForest'
  BY IdFacts, ResolveFinds DEF SupervisionForest, TypeOK
<1> QED BY <1>1, <1>2, <1>3, <1>4, <1>5, <1>6, <1>7

\* Waiting for a message changes the phase alone.
LEMMA ReceiveWaitPreserves ==
    ASSUME IInv, NEW a \in Ids, ReceiveWait(a)
    PROVE  IInv'
<1> USE DEF IInv, ReceiveWait, Goto, Advance, Executes
<1>1. TypeOK'
  BY IdFacts, StatementTypes, ResolveFinds DEF TypeOK, Phases
<1>2. MidStatement'
  BY IdFacts DEF MidStatement, TypeOK, AtEnd, Stmt, Body
<1>3. IdsInOrder'
  BY IdFacts, ResolveFinds DEF IdsInOrder, TypeOK
<1>4. MainPhases'
  BY IdFacts DEF MainPhases, TypeOK
<1>5. RegistryExact'
  BY IdFacts DEF RegistryExact, Registered, TypeOK
<1>6. NamesLead'
  BY IdFacts DEF NamesLead, RegistryExact, Registered, TypeOK
<1>7. SupervisionForest'
  BY IdFacts, ResolveFinds DEF SupervisionForest, TypeOK
<1> QED BY <1>1, <1>2, <1>3, <1>4, <1>5, <1>6, <1>7

\* Taking a message keeps the mailbox a sequence of messages.
LEMMA ReceiveMessagePreserves ==
    ASSUME IInv, NEW a \in Ids, ReceiveMessage(a)
    PROVE  IInv'
<1> USE DEF IInv, ReceiveMessage, Goto, Advance, Executes
<1>1. TypeOK'
  BY IdFacts, StatementTypes, ResolveFinds DEF TypeOK, Phases
<1>2. MidStatement'
  BY IdFacts DEF MidStatement, TypeOK, AtEnd, Stmt, Body
<1>3. IdsInOrder'
  BY IdFacts, ResolveFinds DEF IdsInOrder, TypeOK
<1>4. MainPhases'
  BY IdFacts DEF MainPhases, TypeOK
<1>5. RegistryExact'
  BY IdFacts DEF RegistryExact, Registered, TypeOK
<1>6. NamesLead'
  BY IdFacts DEF NamesLead, RegistryExact, Registered, TypeOK
<1>7. SupervisionForest'
  BY IdFacts, ResolveFinds DEF SupervisionForest, TypeOK
<1> QED BY <1>1, <1>2, <1>3, <1>4, <1>5, <1>6, <1>7

\* A timeout lets the body go on.
LEMMA ReceiveTimeoutPreserves ==
    ASSUME IInv, NEW a \in Ids, ReceiveTimeout(a)
    PROVE  IInv'
<1> USE DEF IInv, ReceiveTimeout, Goto, Advance, Executes
<1>1. TypeOK'
  BY IdFacts, StatementTypes, ResolveFinds DEF TypeOK, Phases
<1>2. MidStatement'
  BY IdFacts DEF MidStatement, TypeOK, AtEnd, Stmt, Body
<1>3. IdsInOrder'
  BY IdFacts, ResolveFinds DEF IdsInOrder, TypeOK
<1>4. MainPhases'
  BY IdFacts DEF MainPhases, TypeOK
<1>5. RegistryExact'
  BY IdFacts DEF RegistryExact, Registered, TypeOK
<1>6. NamesLead'
  BY IdFacts DEF NamesLead, RegistryExact, Registered, TypeOK
<1>7. SupervisionForest'
  BY IdFacts, ResolveFinds DEF SupervisionForest, TypeOK
<1> QED BY <1>1, <1>2, <1>3, <1>4, <1>5, <1>6, <1>7

\* A failure under Stop sends the actor to unregister.
LEMMA FailStopPreserves ==
    ASSUME IInv, NEW a \in Ids, FailStop(a)
    PROVE  IInv'
<1> USE DEF IInv, FailStop, Goto, Advance, Executes
<1>1. TypeOK'
  BY IdFacts, StatementTypes, ResolveFinds DEF TypeOK, Phases
<1>2. MidStatement'
  BY IdFacts DEF MidStatement, TypeOK, AtEnd, Stmt, Body
<1>3. IdsInOrder'
  BY IdFacts, ResolveFinds DEF IdsInOrder, TypeOK
<1>4. MainPhases'
  BY IdFacts DEF MainPhases, TypeOK
<1>5. RegistryExact'
  BY IdFacts DEF RegistryExact, Registered, TypeOK
<1>6. NamesLead'
  BY IdFacts DEF NamesLead, RegistryExact, Registered, TypeOK
<1>7. SupervisionForest'
  BY IdFacts, ResolveFinds DEF SupervisionForest, TypeOK
<1> QED BY <1>1, <1>2, <1>3, <1>4, <1>5, <1>6, <1>7

\* A restart keeps the id registered.
LEMMA FailRestartPreserves ==
    ASSUME IInv, NEW a \in Ids, FailRestart(a)
    PROVE  IInv'
<1> USE DEF IInv, FailRestart, Goto, Advance, Executes
<1>1. TypeOK'
  BY IdFacts, StatementTypes, ResolveFinds DEF TypeOK, Phases
<1>2. MidStatement'
  BY IdFacts DEF MidStatement, TypeOK, AtEnd, Stmt, Body
<1>3. IdsInOrder'
  BY IdFacts, ResolveFinds DEF IdsInOrder, TypeOK
<1>4. MainPhases'
  BY IdFacts DEF MainPhases, TypeOK
<1>5. RegistryExact'
  BY IdFacts DEF RegistryExact, Registered, TypeOK
<1>6. NamesLead'
  BY IdFacts DEF NamesLead, RegistryExact, Registered, TypeOK
<1>7. SupervisionForest'
  BY IdFacts, ResolveFinds DEF SupervisionForest, TypeOK
<1> QED BY <1>1, <1>2, <1>3, <1>4, <1>5, <1>6, <1>7

\* An escalation goes to an actor with a smaller id.
LEMMA FailEscalatePreserves ==
    ASSUME IInv, NEW a \in Ids, FailEscalate(a)
    PROVE  IInv'
<1> USE DEF IInv, FailEscalate, Goto, Advance, Executes
<1>a. Resolve(meta[a].parent) # None /\ meta[a].parent # None =>
         Resolve(meta[a].parent) = meta[a].parent /\ meta[a].parent \in Ids
  <2>1. meta[a].parent \in Tasks
    BY DEF TypeOK, Metadata
  <2>2. meta[a].parent # None => meta[a].parent \in Ids /\ meta[a].parent \in Keys
    BY <2>1, IdFacts DEF Keys
  <2> QED BY <2>2, ResolveFinds
<1>b. /\ phase'[a] \in {"escalating", "leaving"}
      /\ phase'[a] = "escalating" => reg'[a] \in Ids
      /\ \A u \in Tasks : u # a => phase'[u] = phase[u] /\ reg'[u] = reg[u]
  BY <1>a, IdFacts DEF TypeOK
<1>1. TypeOK'
  BY <1>a, IdFacts DEF TypeOK, Phases
<1>2. MidStatement'
  BY IdFacts DEF MidStatement, TypeOK, AtEnd, Stmt, Body
<1>3. IdsInOrder'
  <2>1. ASSUME NEW u \in Tasks
        PROVE  /\ phase'[u] = "parented" => reg'[u] < nextId'
               /\ phase'[u] = "registered" =>
                     reg'[u] \in Ids /\ phase'[reg'[u]] = "new"
               /\ phase'[u] \in {"sending", "escalating"} => reg'[u] \in Ids
    BY <1>b, IdFacts DEF IdsInOrder, TypeOK
  <2>2. ASSUME NEW u \in Tasks, NEW w \in Tasks, phase'[u] = "registered",
               phase'[w] = "registered", reg'[u] = reg'[w]
        PROVE  u = w
    <3>1. u # a /\ w # a
      BY <1>b, <2>2
    <3>2. phase[u] = "registered" /\ phase[w] = "registered" /\ reg[u] = reg[w]
      BY <1>b, <2>2, <3>1
    <3> QED BY <3>2 DEF IdsInOrder
  <2>3. \A b \in Ids : phase'[b] = "none" <=> b >= nextId'
    BY <1>a, IdFacts DEF IdsInOrder, TypeOK
  <2> QED BY <2>1, <2>2, <2>3 DEF IdsInOrder
<1>4. MainPhases'
  BY IdFacts DEF MainPhases, TypeOK
<1>5. RegistryExact'
  BY IdFacts DEF RegistryExact, Registered, TypeOK
<1>6. NamesLead'
  BY IdFacts DEF NamesLead, RegistryExact, Registered, TypeOK
<1>7. SupervisionForest'
  BY <1>a, IdFacts DEF SupervisionForest, TypeOK
<1> QED BY <1>1, <1>2, <1>3, <1>4, <1>5, <1>6, <1>7

\* The entry goes while the name may still be there.
LEMMA UnregisterPreserves ==
    ASSUME IInv, NEW a \in Ids, Unregister(a)
    PROVE  IInv'
<1> USE DEF IInv, Unregister, Goto, Advance, Executes
<1>1. TypeOK'
  BY IdFacts, StatementTypes, ResolveFinds DEF TypeOK, Phases
<1>2. MidStatement'
  BY IdFacts DEF MidStatement, TypeOK, AtEnd, Stmt, Body
<1>3. IdsInOrder'
  BY IdFacts, ResolveFinds DEF IdsInOrder, TypeOK
<1>4. MainPhases'
  BY IdFacts DEF MainPhases, TypeOK
<1>5. RegistryExact'
  BY IdFacts DEF RegistryExact, Registered, TypeOK
<1>6. NamesLead'
  BY IdFacts DEF NamesLead, RegistryExact, Registered, TypeOK
<1>7. SupervisionForest'
  BY IdFacts, ResolveFinds DEF SupervisionForest, TypeOK
<1> QED BY <1>1, <1>2, <1>3, <1>4, <1>5, <1>6, <1>7

\* Only the names of the actor that leaves go.
LEMMA RetainNamesPreserves ==
    ASSUME IInv, NEW a \in Ids, RetainNames(a)
    PROVE  IInv'
<1> USE DEF IInv, RetainNames, Goto, Advance, Executes
<1>1. TypeOK'
  BY IdFacts, StatementTypes, ResolveFinds DEF TypeOK, Phases
<1>2. MidStatement'
  BY IdFacts DEF MidStatement, TypeOK, AtEnd, Stmt, Body
<1>3. IdsInOrder'
  BY IdFacts, ResolveFinds DEF IdsInOrder, TypeOK
<1>4. MainPhases'
  BY IdFacts DEF MainPhases, TypeOK
<1>5. RegistryExact'
  BY IdFacts DEF RegistryExact, Registered, TypeOK
<1>6. NamesLead'
  BY IdFacts DEF NamesLead, RegistryExact, Registered, TypeOK
<1>7. SupervisionForest'
  BY IdFacts, ResolveFinds DEF SupervisionForest, TypeOK
<1> QED BY <1>1, <1>2, <1>3, <1>4, <1>5, <1>6, <1>7

\* The two steps that belong to the main executor alone or to nobody.
LEMMA MainFailsPreserves ==
    ASSUME IInv, MainFails
    PROVE  IInv'
<1> USE DEF IInv, MainFails, Goto, Executes
<1>1. TypeOK'
  BY IdFacts DEF TypeOK, Phases
<1>2. MidStatement'
  BY IdFacts DEF MidStatement, TypeOK, AtEnd, Stmt, Body
<1>3. IdsInOrder'
  BY IdFacts DEF IdsInOrder, TypeOK
<1>4. MainPhases' /\ RegistryExact' /\ NamesLead' /\ SupervisionForest'
  BY IdFacts DEF MainPhases, RegistryExact, Registered, NamesLead,
                 SupervisionForest, TypeOK
<1> QED BY <1>1, <1>2, <1>3, <1>4

\* A step that changes nothing.
LEMMA StutterPreserves ==
    ASSUME IInv, UNCHANGED vars
    PROVE  IInv'
BY DEF vars, IInv, TypeOK, MidStatement, IdsInOrder, MainPhases, RegistryExact,
       Registered, NamesLead, SupervisionForest, AtEnd, Stmt, Body

-----------------------------------------------------------------------------
\* The inductive step.
LEMMA NextPreserves ==
    ASSUME IInv, [Next]_vars
    PROVE  IInv'
<1>1. CASE \E t \in Tasks : TaskStep(t)
  <2> PICK t \in Tasks : TaskStep(t)
    BY <1>1
  <2> QED BY SpawnReadParentPreserves, SpawnRegisterPreserves,
             SpawnStartPreserves, WorkPreserves, AgainPreserves,
             SendResolvePreserves, SendUnknownPreserves, DeliverPreserves,
             SendClosedPreserves, FinishPreserves DEF TaskStep
<1>2. CASE \E a \in Ids : ActorStep(a)
  <2> PICK a \in Ids : ActorStep(a)
    BY <1>2
  <2> QED BY StartBodyPreserves, ReceiveWaitPreserves,
             ReceiveMessagePreserves, ReceiveTimeoutPreserves,
             FailStopPreserves, FailRestartPreserves, FailEscalatePreserves,
             UnregisterPreserves, RetainNamesPreserves DEF ActorStep
<1>3. CASE MainFails
  BY <1>3, MainFailsPreserves
<1>4. CASE UNCHANGED vars
  BY <1>4, StutterPreserves
<1> QED BY <1>1, <1>2, <1>3, <1>4 DEF Next

\* The inductive invariant holds in every reachable state.
THEOREM Invariance == Spec => []IInv
<1>1. Init => IInv
  BY InitInvariant
<1>2. IInv /\ [Next]_vars => IInv'
  BY NextPreserves
<1> QED BY <1>1, <1>2, PTL DEF Spec

\* Every variable keeps its type.
THEOREM TypeCorrect == Spec => []TypeOK
<1>1. IInv => TypeOK
  BY DEF IInv
<1> QED BY <1>1, Invariance, PTL

\* The registry holds exactly the actors a task serves, on every path out of
\* run_actor.
THEOREM RegistryIsExact == Spec => []RegistryExact
<1>1. IInv => RegistryExact
  BY DEF IInv
<1> QED BY <1>1, Invariance, PTL

\* A name never leads to an actor of another name or to one that is gone.
THEOREM NamesAlwaysLead == Spec => []NamesLead
<1>1. IInv => NamesLead
  BY DEF IInv
<1> QED BY <1>1, Invariance, PTL

\* Supervision is a forest, whichever task wrote "self" last.
THEOREM SupervisionIsForest == Spec => []SupervisionForest
<1>1. IInv => SupervisionForest
  BY DEF IInv
<1> QED BY <1>1, Invariance, PTL

-----------------------------------------------------------------------------
(* Mailboxes: which steps touch them, and the refinement.                   *)

\* A step delivers, receives, drops a receiver, or leaves every mailbox and
\* every receiver alone.
LEMMA MailSteps ==
    ASSUME IInv, [Next]_vars
    PROVE  \/ \E t \in Tasks : Deliver(t)
           \/ \E a \in Ids : ReceiveMessage(a) \/ RetainNames(a)
           \/ /\ mailbox' = mailbox
              /\ \A a \in Ids : phase'[a] = "gone" <=> phase[a] = "gone"
<1> USE DEF IInv, Goto, Executes
<1>1. CASE UNCHANGED vars
  BY <1>1 DEF vars
<1>2. CASE MainFails
  BY <1>2, IdFacts DEF MainFails, TypeOK
<1>3. ASSUME NEW t \in Tasks, TaskStep(t), ~Deliver(t)
      PROVE  /\ mailbox' = mailbox
             /\ \A a \in Ids : phase'[a] = "gone" <=> phase[a] = "gone"
  <2>1. CASE SpawnRegister(t)
    <3>1. nextId \in Ids /\ phase[nextId] = "none" /\ nextId # t
      BY <2>1, ActorAssumption, IdFacts DEF SpawnRegister, TypeOK, Ids, IdsInOrder
    <3> QED BY <2>1, <3>1, IdFacts DEF SpawnRegister, TypeOK
  <2>2. CASE SpawnStart(t)
    <3>1. reg[t] \in Ids /\ phase[reg[t]] = "new" /\ reg[t] # t
      BY <2>2 DEF SpawnStart, IdsInOrder
    <3> QED BY <2>2, <3>1, IdFacts DEF SpawnStart, TypeOK
  <2>3. CASE SendClosed(t)
    BY <2>3, IdFacts DEF SendClosed, AfterSend, TypeOK
  <2>4. CASE Finish(t)
    BY <2>4, IdFacts DEF Finish, TypeOK
  <2>5. CASE SpawnReadParent(t) \/ Work(t) \/ Again(t)
               \/ SendResolve(t) \/ SendUnknown(t)
    BY <2>5, IdFacts
    DEF SpawnReadParent, Work, Again, SendResolve, SendUnknown, TypeOK
  <2> QED BY <1>3, <2>1, <2>2, <2>3, <2>4, <2>5 DEF TaskStep
<1>4. ASSUME NEW b \in Ids, ActorStep(b), ~ReceiveMessage(b), ~RetainNames(b)
      PROVE  /\ mailbox' = mailbox
             /\ \A a \in Ids : phase'[a] = "gone" <=> phase[a] = "gone"
  BY <1>4, IdFacts DEF ActorStep, StartBody, ReceiveWait, ReceiveTimeout,
         FailStop, FailRestart, FailEscalate, Unregister, TypeOK
<1> QED BY <1>1, <1>2, <1>3, <1>4 DEF Next

\* A dropped receiver has nothing left in its mailbox.
GoneEmpty == \A a \in Ids : phase[a] = "gone" => mailbox[a] = <<>>

\* A dropped receiver leaves an empty queue.
LEMMA GoneEmptyInvariant == Spec => []GoneEmpty
<1>1. Init => GoneEmpty
  BY DEF Init, GoneEmpty
<1>2. IInv /\ GoneEmpty /\ [Next]_vars => GoneEmpty'
  <2> SUFFICES ASSUME IInv, GoneEmpty, [Next]_vars PROVE GoneEmpty'
    OBVIOUS
  <2>1. ASSUME NEW t \in Tasks, Deliver(t) PROVE GoneEmpty'
    BY <2>1, IdFacts DEF Deliver, AfterSend, Goto, GoneEmpty, IInv, TypeOK,
                         IdsInOrder
  <2>2. ASSUME NEW a \in Ids, ReceiveMessage(a) PROVE GoneEmpty'
    BY <2>2, IdFacts DEF ReceiveMessage, Goto, GoneEmpty, IInv, TypeOK
  <2>3. ASSUME NEW a \in Ids, RetainNames(a) PROVE GoneEmpty'
    BY <2>3, IdFacts DEF RetainNames, Goto, GoneEmpty, IInv, TypeOK
  <2> QED BY <2>1, <2>2, <2>3, MailSteps DEF GoneEmpty
<1> QED BY <1>1, <1>2, Invariance, PTL DEF Spec

\* The actor runtime implements bounded FIFO mailboxes that lose nothing while
\* the receiver exists: crashes, restarts, escalations and names included.
THEOREM ImplementsMailboxes == Spec => MailboxesHold
<1> DEFINE receivers == {a \in Ids : phase[a] # "gone"}
<1>1. Init => Mail!Init
  <2> SUFFICES ASSUME Init PROVE Mail!Init
    OBVIOUS
  <2>1. \A a \in Ids : phase[a] = "none"
    BY IdFacts DEF Init
  <2> QED BY <2>1 DEF Init, Mail!Init
<1>2. IInv /\ [Next]_vars => [Mail!Next]_(Mail!vars)
  <2> SUFFICES ASSUME IInv, [Next]_vars PROVE [Mail!Next]_(Mail!vars)
    OBVIOUS
  <2> USE DEF IInv
  <2>1. ASSUME NEW t \in Tasks, Deliver(t) PROVE Mail!Next
    <3> DEFINE m == [from |-> t, text |-> IF phase[t] = "escalating"
                                            THEN Crash ELSE Stmt(t).text]
    <3>1. reg[t] \in Ids
      BY <2>1 DEF Deliver, IdsInOrder
    <3>2. m \in Messages
      <4>1. phase[t] = "sending" => ~AtEnd(t) /\ Stmt(t).op = "send"
        BY DEF MidStatement
      <4> QED BY <2>1, <4>1, StatementTypes DEF Deliver, Messages
    <3>3. \A a \in Ids : phase'[a] = "gone" <=> phase[a] = "gone"
      BY <2>1, IdFacts DEF Deliver, AfterSend, Goto, TypeOK
    <3>4. Mail!Put(reg[t], m)
      BY <2>1, <3>1, <3>3 DEF Deliver, Mail!Put
    <3> QED BY <3>1, <3>2, <3>4 DEF Mail!Next
  <2>2. ASSUME NEW a \in Ids, ReceiveMessage(a) PROVE Mail!Next
    <3>1. \A b \in Ids : phase'[b] = "gone" <=> phase[b] = "gone"
      BY <2>2, IdFacts DEF ReceiveMessage, Goto, TypeOK
    <3>2. Mail!Take(a)
      BY <2>2, <3>1 DEF ReceiveMessage, Mail!Take
    <3> QED BY <3>2 DEF Mail!Next
  <2>3. ASSUME NEW a \in Ids, RetainNames(a) PROVE Mail!Next
    <3>1. receivers' = receivers \ {a}
      BY <2>3, IdFacts DEF RetainNames, Goto, TypeOK
    <3>2. Mail!Close(a)
      BY <2>3, <3>1 DEF RetainNames, Mail!Close
    <3> QED BY <3>2 DEF Mail!Next
  <2>4. CASE /\ mailbox' = mailbox
             /\ \A a \in Ids : phase'[a] = "gone" <=> phase[a] = "gone"
    BY <2>4 DEF Mail!vars
  <2> QED BY <2>1, <2>2, <2>3, <2>4, MailSteps
<1> QED BY <1>1, <1>2, Invariance, PTL DEF Spec, MailboxesHold, Mail!Spec

-----------------------------------------------------------------------------
(* Leaving is final, and it is announced once.                              *)

\* Which task moves: every other task keeps its phase, except the actor that a
\* Spawn registers or starts.
LEMMA PhaseSteps ==
    ASSUME IInv, [Next]_vars, NEW a \in Ids
    PROVE  /\ phase[a] = "leaving" =>
                 /\ phase'[a] \in {"leaving", "unnaming"}
                 /\ phase'[a] = "unnaming" => a \notin actors'
           /\ phase[a] = "unnaming" => phase'[a] \in {"unnaming", "gone"}
           /\ phase[a] = "gone" => phase'[a] = "gone"
           /\ phase[a] # "none" => meta'[a] = meta[a]
           /\ phase[a] \notin {"none", "new"} =>
                 \A n \in Names : nameMap'[n] = a => nameMap[n] = a
<1> USE DEF IInv, Goto, Executes
<1>1. CASE UNCHANGED vars
  BY <1>1 DEF vars
<1>2. CASE MainFails
  BY <1>2, IdFacts DEF MainFails, TypeOK
<1>3. ASSUME NEW t \in Tasks, SpawnRegister(t)
      PROVE  /\ phase[a] # "none" => phase'[a] = phase[a] \/ a = t
             /\ phase[a] # "none" => meta'[a] = meta[a]
             /\ a = t => phase[a] = "parented"
             /\ nameMap' = nameMap
  <2>1. nextId \in Ids /\ phase[nextId] = "none"
    BY <1>3, ActorAssumption, IdFacts DEF SpawnRegister, TypeOK, Ids, IdsInOrder
  <2> QED BY <1>3, <2>1, IdFacts DEF SpawnRegister, TypeOK
<1>4. ASSUME NEW t \in Tasks, SpawnStart(t)
      PROVE  /\ phase[a] \notin {"new", "registered"} => phase'[a] = phase[a]
             /\ meta' = meta
             /\ phase[a] # "new" =>
                  \A n \in Names : nameMap'[n] = a => nameMap[n] = a
  <2>1. reg[t] \in Ids /\ phase[reg[t]] = "new" /\ reg[t] # t
    BY <1>4 DEF SpawnStart, IdsInOrder
  <2> QED BY <1>4, <2>1, IdFacts DEF SpawnStart, TypeOK
<1>5. ASSUME NEW t \in Tasks, TaskStep(t), ~SpawnRegister(t), ~SpawnStart(t)
      PROVE  /\ phase[a] \in {"leaving", "unnaming", "gone"} => phase'[a] = phase[a]
             /\ meta' = meta /\ nameMap' = nameMap
  BY <1>5, IdFacts
  DEF TaskStep, SpawnReadParent, Work, Again, SendResolve, SendUnknown,
      Deliver, SendClosed, AfterSend, Finish, TypeOK
<1>6. ASSUME NEW b \in Ids, Unregister(b)
      PROVE  /\ phase[b] = "leaving" /\ phase'[b] = "unnaming" /\ b \notin actors'
             /\ a # b => phase'[a] = phase[a]
             /\ meta' = meta /\ nameMap' = nameMap
  BY <1>6, IdFacts DEF Unregister, TypeOK
<1>7. ASSUME NEW b \in Ids, RetainNames(b)
      PROVE  /\ phase[b] = "unnaming" /\ phase'[b] = "gone"
             /\ a # b => phase'[a] = phase[a]
             /\ meta' = meta
             /\ \A n \in Names : nameMap'[n] = a => nameMap[n] = a
  BY <1>7, IdFacts DEF RetainNames, TypeOK
<1>8. ASSUME NEW b \in Ids, ActorStep(b), ~Unregister(b), ~RetainNames(b)
      PROVE  /\ phase[a] \in {"leaving", "unnaming", "gone"} => phase'[a] = phase[a]
             /\ meta' = meta /\ nameMap' = nameMap
  BY <1>8, IdFacts
  DEF ActorStep, StartBody, ReceiveWait, ReceiveMessage, ReceiveTimeout,
      FailStop, FailRestart, FailEscalate, TypeOK
<1> QED BY <1>1, <1>2, <1>3, <1>4, <1>5, <1>6, <1>7, <1>8 DEF Next

\* An actor that has left the registry never comes back, nor does its name,
\* and nothing is queued for it once its receiver is dropped.
THEOREM GoneStaysGone == Spec => GoneForGood
<1> DEFINE A == \A a \in Ids :
                  /\ phase[a] \in {"unnaming", "gone"} =>
                       /\ a \notin actors'
                       /\ phase'[a] \in {"unnaming", "gone"}
                       /\ \A n \in Names : nameMap'[n] = a => nameMap[n] = a
                  /\ phase[a] = "gone" => mailbox'[a] = <<>>
<1>1. IInv /\ GoneEmpty' /\ [Next]_vars => A
  <2> SUFFICES ASSUME IInv, GoneEmpty', [Next]_vars, NEW a \in Ids
               PROVE  /\ phase[a] \in {"unnaming", "gone"} =>
                           /\ a \notin actors'
                           /\ phase'[a] \in {"unnaming", "gone"}
                           /\ \A n \in Names : nameMap'[n] = a => nameMap[n] = a
                      /\ phase[a] = "gone" => mailbox'[a] = <<>>
    OBVIOUS
  <2>1. phase[a] \in {"unnaming", "gone"} => phase'[a] \in {"unnaming", "gone"}
    BY PhaseSteps
  <2>2. RegistryExact'
    BY NextPreserves DEF IInv
  <2>3. phase[a] = "gone" => mailbox'[a] = <<>>
    BY PhaseSteps DEF GoneEmpty
  <2> QED BY <2>1, <2>2, <2>3, PhaseSteps DEF RegistryExact, Registered
<1>2. IInv /\ GoneEmpty' /\ [Next]_vars => [A]_vars
  BY <1>1
<1> QED BY <1>2, Invariance, GoneEmptyInvariant, PTL DEF Spec, GoneForGood

\* An actor waiting to escalate does so to its recorded parent.
EscalatingKnows ==
    \A a \in Ids : phase[a] = "escalating" =>
        reg[a] = meta[a].parent /\ meta[a].strategy = "Escalate"

\* Who escalates knows the parent it was spawned with.
LEMMA EscalatingKnowsInvariant == Spec => []EscalatingKnows
<1>1. Init => EscalatingKnows
  BY IdFacts DEF Init, EscalatingKnows
<1>2. IInv /\ EscalatingKnows /\ [Next]_vars => EscalatingKnows'
  <2> SUFFICES ASSUME IInv, EscalatingKnows, [Next]_vars,
                      NEW a \in Ids, phase'[a] = "escalating"
               PROVE  (reg[a] = meta[a].parent /\ meta[a].strategy = "Escalate")'
    BY DEF EscalatingKnows
  <2> USE DEF IInv, Goto, Executes
  <2>1. CASE phase[a] = "escalating"
    <3>1. meta'[a] = meta[a]
      BY <2>1, PhaseSteps
    <3>2. reg'[a] = reg[a]
      <4>1. CASE UNCHANGED vars
        BY <4>1 DEF vars
      <4>2. CASE MainFails
        BY <4>2 DEF MainFails
      <4>3. ASSUME NEW t \in Tasks, TaskStep(t) PROVE reg'[a] = reg[a]
        BY <2>1, <4>3, IdFacts
        DEF TaskStep, SpawnReadParent, SpawnRegister, SpawnStart, Work, Again,
            SendResolve, SendUnknown, Deliver, SendClosed, Finish, TypeOK
      <4>4. ASSUME NEW b \in Ids, ActorStep(b) PROVE reg'[a] = reg[a]
        BY <2>1, <4>4, IdFacts
        DEF ActorStep, StartBody, ReceiveWait, ReceiveMessage, ReceiveTimeout,
            FailStop, FailRestart, FailEscalate, Unregister, RetainNames, TypeOK
      <4> QED BY <4>1, <4>2, <4>3, <4>4 DEF Next
    <3> QED BY <2>1, <3>1, <3>2 DEF EscalatingKnows
  <2>2. CASE phase[a] # "escalating"
    <3>1. FailEscalate(a)
      <4>1. CASE UNCHANGED vars
        BY <2>2, <4>1 DEF vars
      <4>2. CASE MainFails
        BY <2>2, <4>2, IdFacts DEF MainFails, TypeOK
      <4>3. ASSUME NEW t \in Tasks, TaskStep(t) PROVE FALSE
        <5>1. CASE SpawnRegister(t)
          BY <2>2, <5>1, IdFacts DEF SpawnRegister, TypeOK
        <5>2. CASE SpawnStart(t)
          BY <2>2, <5>2, IdFacts DEF SpawnStart, TypeOK
        <5> QED BY <2>2, <4>3, <5>1, <5>2, IdFacts
            DEF TaskStep, SpawnReadParent, Work, Again, SendResolve,
                SendUnknown, Deliver, SendClosed, AfterSend, Finish, TypeOK
      <4>4. ASSUME NEW b \in Ids, ActorStep(b), ~FailEscalate(b) PROVE FALSE
        BY <2>2, <4>4, IdFacts
        DEF ActorStep, StartBody, ReceiveWait, ReceiveMessage, ReceiveTimeout,
            FailStop, FailRestart, Unregister, RetainNames, TypeOK
      <4>5. ASSUME NEW b \in Ids, FailEscalate(b), b # a PROVE FALSE
        BY <2>2, <4>5, IdFacts DEF FailEscalate, TypeOK
      <4> QED BY <4>1, <4>2, <4>3, <4>4, <4>5 DEF Next
    <3>2. meta[a].parent \in Tasks
      BY DEF TypeOK, Metadata
    <3>3. meta[a].parent # None => Resolve(meta[a].parent) \in {meta[a].parent, None}
      BY <3>2, ResolveFinds, IdFacts DEF Keys
    <3> QED BY <2>2, <3>1, <3>3, IdFacts DEF FailEscalate, TypeOK
  <2> QED BY <2>1, <2>2
<1> QED BY <1>1, <1>2, Invariance, PTL DEF Spec

\* The part of EscalatesOnce about position i of mailbox p.
OnceAt(p, i) ==
    LET a == mailbox[p][i].from IN
    mailbox[p][i].text = Crash =>
        /\ a # None
        /\ meta[a].strategy = "Escalate"
        /\ meta[a].parent = p
        /\ phase[a] \in {"leaving", "unnaming", "gone"}
        /\ \A j \in DOMAIN mailbox[p] : mailbox[p][j] = mailbox[p][i] => j = i

\* A sender that has left or is leaving keeps its metadata and stays away.
LEMMA LeaversStay ==
    ASSUME IInv, [Next]_vars, NEW a \in Ids,
           phase[a] \in {"leaving", "unnaming", "gone"}
    PROVE  phase'[a] \in {"leaving", "unnaming", "gone"} /\ meta'[a] = meta[a]
BY PhaseSteps

\* Taking the head of a queue moves every other message up by one place.
LEMMA TailShifts ==
    ASSUME NEW s \in Seq(Messages), s # <<>>, NEW j \in DOMAIN Tail(s)
    PROVE  j + 1 \in DOMAIN s /\ Tail(s)[j] = s[j + 1]
<1>1. Len(s) \in Nat /\ Len(s) # 0 /\ DOMAIN s = 1..Len(s)
  OBVIOUS
<1>2. Len(Tail(s)) = Len(s) - 1 /\ Tail(s) \in Seq(Messages)
  BY <1>1
<1>3. j \in 1..(Len(s) - 1)
  BY <1>1, <1>2
<1> QED BY <1>1, <1>3

\* A failure is escalated at most once, to the recorded parent, by an actor
\* that is on its way out.
THEOREM EscalatesAtMostOnce == Spec => []EscalatesOnce
<1>1. Init => EscalatesOnce
  BY DEF Init, EscalatesOnce
<1>2. IInv /\ EscalatingKnows /\ EscalatesOnce /\ [Next]_vars => EscalatesOnce'
  <2> SUFFICES ASSUME IInv, EscalatingKnows, EscalatesOnce, [Next]_vars
               PROVE  EscalatesOnce'
    OBVIOUS
  <2> USE DEF IInv
  <2>1. \A p \in Ids : \A i \in DOMAIN mailbox[p] :
           mailbox[p][i] \in Messages /\ OnceAt(p, i)
    BY DEF EscalatesOnce, OnceAt, TypeOK
  <2>2. ASSUME NEW t \in Tasks, Deliver(t),
               NEW p \in Ids, NEW i \in DOMAIN mailbox'[p]
        PROVE  OnceAt(p, i)'
    <3> DEFINE q == reg[t]
               m == [from |-> t, text |-> IF phase[t] = "escalating"
                                            THEN Crash ELSE Stmt(t).text]
    <3>1. q \in Ids /\ mailbox' = [mailbox EXCEPT ![q] = Append(@, m)]
      BY <2>2 DEF Deliver, IdsInOrder
    <3>2. mailbox[p] \in Seq(Messages) /\ mailbox[q] \in Seq(Messages)
      BY <3>1 DEF TypeOK
    <3>3. m.text = Crash => phase[t] = "escalating" /\ t \in Ids
      <4>1. phase[t] = "sending" => ~AtEnd(t) /\ Stmt(t).op = "send"
        BY DEF MidStatement
      <4>2. phase[t] = "escalating" => t \in Ids
        BY IdFacts DEF MainPhases
      <4> QED BY <2>2, <4>1, <4>2, StatementTypes, ActorAssumption DEF Deliver
    <3>4. phase[t] = "escalating" =>
             \A r \in Ids : \A k \in DOMAIN mailbox[r] : mailbox[r][k] # m
      BY <2>1 DEF OnceAt
    <3>5. phase[t] = "escalating" => phase'[t] = "leaving"
      BY <2>2 DEF Deliver, AfterSend, Goto, TypeOK
    <3>6. CASE p # q
      <4>1. mailbox'[p] = mailbox[p]
        BY <3>1, <3>6 DEF TypeOK
      <4>2. mailbox[p][i].text = Crash => mailbox[p][i].from \in Ids
        BY <2>1, <2>2, <4>1, IdFacts DEF Messages, OnceAt
      <4> QED BY <2>1, <2>2, <4>1, <4>2, LeaversStay DEF OnceAt
    <3>7. CASE p = q /\ i <= Len(mailbox[q])
      <4>1. i \in DOMAIN mailbox[q] /\ mailbox'[q][i] = mailbox[q][i]
        BY <2>2, <3>1, <3>2, <3>7 DEF TypeOK
      <4>2. mailbox[q][i].text = Crash => mailbox[q][i].from \in Ids
        BY <2>1, <3>1, <4>1, IdFacts DEF Messages, OnceAt
      <4>3. \A j \in DOMAIN mailbox'[q] :
              \/ mailbox'[q][j] = mailbox[q][j] /\ j \in DOMAIN mailbox[q]
              \/ mailbox'[q][j] = m
        BY <3>1, <3>2 DEF TypeOK
      <4>4. mailbox[q][i].text = Crash => mailbox[q][i] # m
        BY <3>1, <3>3, <3>4, <4>1
      <4> QED BY <2>1, <3>1, <3>7, <4>1, <4>2, <4>3, <4>4, LeaversStay DEF OnceAt
    <3>8. CASE p = q /\ i > Len(mailbox[q])
      <4>1. i = Len(mailbox[q]) + 1 /\ mailbox'[q][i] = m
        BY <2>2, <3>1, <3>2, <3>8 DEF TypeOK
      <4>2. \A j \in DOMAIN mailbox'[q] :
               j # i => j \in DOMAIN mailbox[q] /\ mailbox'[q][j] = mailbox[q][j]
        BY <3>1, <3>2, <4>1 DEF TypeOK
      <4>3. m.text = Crash => meta'[t] = meta[t]
        BY <2>2 DEF Deliver
      <4> QED BY <3>1, <3>3, <3>4, <3>5, <3>8, <4>1, <4>2, <4>3, IdFacts
          DEF OnceAt, EscalatingKnows
    <3>9. i \in Nat /\ Len(mailbox[q]) \in Nat
      BY <2>2, <3>1, <3>2 DEF TypeOK
    <3> QED BY <3>6, <3>7, <3>8, <3>9
  <2>3. ASSUME NEW b \in Ids, ReceiveMessage(b),
               NEW p \in Ids, NEW i \in DOMAIN mailbox'[p]
        PROVE  OnceAt(p, i)'
    <3>1. mailbox[b] \in Seq(Messages) /\ mailbox[b] # <<>>
          /\ mailbox' = [mailbox EXCEPT ![b] = Tail(@)]
      BY <2>3 DEF ReceiveMessage, TypeOK
    <3>2. CASE p # b
      <4>1. mailbox'[p] = mailbox[p]
        BY <3>1, <3>2 DEF TypeOK
      <4>2. mailbox[p][i].text = Crash => mailbox[p][i].from \in Ids
        BY <2>1, <2>3, <4>1, IdFacts DEF Messages, OnceAt
      <4> QED BY <2>1, <2>3, <4>1, <4>2, LeaversStay DEF OnceAt
    <3>3. CASE p = b
      <4>1. mailbox'[p] = Tail(mailbox[p])
        BY <3>1, <3>3 DEF TypeOK
      <4>2. \A j \in DOMAIN mailbox'[p] :
              j + 1 \in DOMAIN mailbox[p] /\ mailbox'[p][j] = mailbox[p][j + 1]
        BY <3>1, <3>3, <4>1, TailShifts
      <4>3. mailbox'[p][i].text = Crash => mailbox'[p][i].from \in Ids
        BY <2>1, <2>3, <4>2, IdFacts DEF Messages, OnceAt
      <4>4. \A j \in DOMAIN mailbox'[p] : j \in Nat
        BY <3>1, <3>3, <4>1
      <4>5. \A j \in DOMAIN mailbox'[p] : mailbox'[p][i].text = Crash
               /\ mailbox'[p][j] = mailbox'[p][i] => j + 1 = i + 1
        BY <2>1, <2>3, <4>2 DEF OnceAt
      <4>6. \A j \in DOMAIN mailbox'[p] : mailbox'[p][i].text = Crash
               /\ mailbox'[p][j] = mailbox'[p][i] => j = i
        BY <2>3, <4>4, <4>5
      <4> QED BY <2>1, <2>3, <4>2, <4>3, <4>6, LeaversStay DEF OnceAt
    <3> QED BY <3>2, <3>3
  <2>4. ASSUME NEW b \in Ids, RetainNames(b) \/ mailbox' = mailbox,
               NEW p \in Ids, NEW i \in DOMAIN mailbox'[p]
        PROVE  OnceAt(p, i)'
    <3>1. mailbox'[p] = mailbox[p]
      BY <2>4 DEF RetainNames, TypeOK
    <3>2. mailbox[p][i].text = Crash => mailbox[p][i].from \in Ids
      BY <2>1, <2>4, <3>1, IdFacts DEF Messages, OnceAt
    <3> QED BY <2>1, <2>4, <3>1, <3>2, LeaversStay DEF OnceAt
  <2>5. ASSUME NEW p \in Ids, NEW i \in DOMAIN mailbox'[p]
        PROVE  OnceAt(p, i)'
    BY <2>2, <2>3, <2>4, <2>5, MailSteps
  <2> QED BY <2>5 DEF EscalatesOnce, OnceAt
<1> QED BY <1>1, <1>2, Invariance, EscalatingKnowsInvariant, PTL DEF Spec
=============================================================================
