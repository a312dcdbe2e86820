--------------------------- MODULE ScoreSyncProofs ---------------------------
(***************************************************************************)
(* Proofs about ScoreSync, for any accounts, operations, scores and number *)
(* of transfers at once: its type invariant, that nothing is asked for or  *)
(* sent on behalf of another account than the one signed in, and that the  *)
(* counts of every operation add up.                                       *)
(***************************************************************************)
EXTENDS ScoreSync, SequenceTheorems, FiniteSetTheorems, TLAPS

-----------------------------------------------------------------------------
(* The inductive invariant.                                                *)

\* A session asks for one thing after the other: for the token, for the user's data
\* while it does not have them, and for the data of Tachi once it has.
OneRequestAtATime ==
    /\ \A r \in requests : r.kind = "SignIn" =>
          /\ requests = {r} /\ account.generation > 0 /\ account.user = NoUser
          /\ account.token = NoUser
    /\ \A r \in requests : r.kind = "Me" => account.user = NoUser
    /\ \A r \in requests : r.kind = "Tachi" => account.user # NoUser
    /\ account.tachi # "NotLoggedIn" => account.user # NoUser

\* The stored token is read once, before anything else happens to the session.
ReadIsFirst ==
    /\ \A i \in 2..Len(keychain.jobs) : keychain.jobs[i].kind # "Read"
    /\ keychain.jobs # <<>> /\ Head(keychain.jobs).kind = "Read" =>
          /\ Head(keychain.jobs).generation = 0
          /\ account.generation = 0 => account = SignedOut(0) /\ requests = {}

\* An operation that runs was begun by somebody, has a list only while it runs, and
\* copies scores, unless it imports the games of Tachi.
BegunBySomebody ==
    \A o \in Ops :
        /\ ops[o].kind # "None" /\ ~ops[o].finished => ops[o].user # NoUser
        /\ ops[o].finished \/ ops[o].kind = "None" => ops[o].pending = {}
        /\ ops[o].kind = "None" => ops[o].stage = "Local" /\ ops[o].user = NoUser
        /\ ops[o].kind = "None" => \A i \in Items : work[o][i].at = "Nowhere"
        /\ ops[o].kind # "Bokutachi" =>
              /\ ops[o].pending \subseteq Scores
              /\ \A i \in Games : work[o][i].at = "Nowhere"

IInv ==
    /\ TypeOK
    /\ SessionIsOneAccount
    /\ OneRequestAtATime
    /\ ReadIsFirst
    /\ BegunBySomebody

\* The same, part by part: the session, the data, and each operation by itself.
AccountFits ==
    /\ account \in [generation : 0..MaxSessions, login : LoginStates, tachi : LoginStates,
                    user : Tokens, token : Tokens]
    /\ requests \subseteq Requests
    /\ keychain \in [stored : Tokens, jobs : Seq(KeychainJobs)]
    /\ account.user # NoUser <=> account.login = "LoggedIn"
    /\ account.user # NoUser => account.token = account.user
    /\ \A r \in requests : r.generation = account.generation
    /\ \A r \in requests : r.kind # "SignIn" => r.user = account.token
    /\ OneRequestAtATime
    /\ ReadIsFirst

DataFits ==
    /\ local \subseteq Scores
    /\ server \in [Users -> SUBSET Scores]
    /\ submitted \subseteq Users \X Scores
    /\ errors \in 0..MaxErrors

OpFits(user, op, row) ==
    /\ op.kind # "None" /\ ~op.finished => op.user = user /\ op.user # NoUser
    /\ op.finished \/ op.kind = "None" => op.pending = {}
    /\ op.kind = "None" => op.stage = "Local" /\ op.user = NoUser
    /\ op.kind = "None" => \A i \in Items : row[i].at = "Nowhere"
    /\ op.kind # "Bokutachi" => op.pending \subseteq Scores
                                /\ \A i \in Games : row[i].at = "Nowhere"
    /\ \A i \in Scores : row[i].at = "Asked" => row[i].token = op.user

OpsFit ==
    /\ ops \in [Ops -> OpStates]
    /\ work \in [Ops -> [Items -> Places]]
    /\ \A o \in Ops : OpFits(account.user, ops[o], work[o])

\* The parts make up the invariant, in a state and in the next one.
LEMMA Parts == IInv <=> AccountFits /\ DataFits /\ OpsFit
  <1>1. IInv => AccountFits /\ DataFits
    BY DEF IInv, AccountFits, DataFits, TypeOK, SessionIsOneAccount
  <1>2. IInv => OpsFit
    BY DEF IInv, OpsFit, OpFits, TypeOK, SessionIsOneAccount, BegunBySomebody
  <1>3. AccountFits /\ DataFits /\ OpsFit => TypeOK /\ OneRequestAtATime /\ ReadIsFirst
    BY DEF AccountFits, DataFits, OpsFit, TypeOK
  <1>4. AccountFits /\ DataFits /\ OpsFit => SessionIsOneAccount /\ BegunBySomebody
    BY DEF AccountFits, OpsFit, OpFits, SessionIsOneAccount, BegunBySomebody
  <1>5. QED BY <1>1, <1>2, <1>3, <1>4 DEF IInv

LEMMA PartsNext == AccountFits' /\ DataFits' /\ OpsFit' => IInv'
  <1>1. AccountFits' /\ DataFits' /\ OpsFit' => TypeOK' /\ OneRequestAtATime' /\ ReadIsFirst'
    BY DEF AccountFits, DataFits, OpsFit, TypeOK
  <1>2. AccountFits' /\ DataFits' /\ OpsFit' => SessionIsOneAccount' /\ BegunBySomebody'
    BY DEF AccountFits, OpsFit, OpFits, SessionIsOneAccount, BegunBySomebody
  <1>3. QED BY <1>1, <1>2 DEF IInv

-----------------------------------------------------------------------------
(* The initial states.                                                     *)

LEMMA InitFits == Init => IInv
  <1>1. SUFFICES ASSUME Init PROVE AccountFits /\ DataFits /\ OpsFit
    BY Parts
  <1>2. PICK start \in StartStates :
          /\ keychain = [stored |-> start.stored,
                         jobs |-> <<[kind |-> "Read", user |-> NoUser, generation |-> 0]>>]
          /\ local = start.local
          /\ server = start.server
    BY <1>1 DEF Init
  <1>3. start \in [stored : Tokens, local : SUBSET Scores, server : [Users -> SUBSET Scores]]
    BY SyncAssumption DEF Tokens
  <1>4. AccountFits
    <2>1. account = SignedOut(0) /\ requests = {}
      BY <1>1 DEF Init
    <2>2. account \in [generation : 0..MaxSessions, login : LoginStates, tachi : LoginStates,
                       user : Tokens, token : Tokens]
      BY <2>1, SyncAssumption DEF SignedOut, LoginStates, Tokens
    <2>3. keychain \in [stored : Tokens, jobs : Seq(KeychainJobs)]
      BY <1>2, <1>3 DEF KeychainJobs, Tokens
    <2>4. OneRequestAtATime
      BY <2>1 DEF OneRequestAtATime, SignedOut
    <2>5. ReadIsFirst
      BY <2>1, <1>2 DEF ReadIsFirst
    <2>6. QED BY <2>1, <2>2, <2>3, <2>4, <2>5 DEF AccountFits, SignedOut
  <1>5. DataFits
    BY <1>1, <1>2, <1>3, SyncAssumption DEF DataFits, Init
  <1>6. OpsFit
    <2>1. NewOp \in OpStates /\ Nowhere \in Places
      BY DEF NewOp, OpStates, Tokens, Nowhere, Places
    <2>2. ops = [o \in Ops |-> NewOp] /\ work = [o \in Ops |-> [i \in Items |-> Nowhere]]
      BY <1>1 DEF Init
    <2>3. OpFits(account.user, NewOp, [i \in Items |-> Nowhere])
      BY DEF OpFits, NewOp, Nowhere, Items
    <2>4. QED BY <2>1, <2>2, <2>3 DEF OpsFit
  <1>7. QED BY <1>4, <1>5, <1>6

-----------------------------------------------------------------------------
(* Sets of items are finite, and an operation can be given a new state.    *)

LEMMA ItemsAreFinite == \A S \in SUBSET Items : Cardinality(S) \in Nat
  <1>1. IsFiniteSet(Items)
    BY SyncAssumption, FS_Union DEF Items
  <1>2. QED BY <1>1, FS_Subset, FS_CardinalityType

\* One operation changes, and nothing that the others refer to.
LEMMA OneOpChanges ==
    ASSUME OpsFit, NEW o \in Ops, NEW op \in OpStates, NEW row \in [Items -> Places],
           OpFits(account.user, op, row), account.user' = account.user,
           ops' = [ops EXCEPT ![o] = op], work' = [work EXCEPT ![o] = row]
    PROVE  OpsFit'
  <1>1. ops' \in [Ops -> OpStates] /\ work' \in [Ops -> [Items -> Places]]
    BY DEF OpsFit
  <1>2. ASSUME NEW p \in Ops PROVE OpFits(account.user, ops'[p], work'[p])
    <2>1. CASE p = o BY <2>1 DEF OpsFit
    <2>2. CASE p # o BY <2>2 DEF OpsFit
    <2>3. QED BY <2>1, <2>2
  <1>3. \A p \in Ops : OpFits(account'.user, ops'[p], work'[p])
    BY <1>2
  <1>4. QED BY <1>1, <1>3 DEF OpsFit

\* Finish, ReportError and CancelOp, of an operation that is under way.
LEMMA FinishFits ==
    ASSUME NEW user, NEW op \in OpStates, NEW row, OpFits(user, op, row)
    PROVE  /\ Finish(op) \in OpStates /\ OpFits(user, Finish(op), row)
           /\ Finish(op).finished /\ Finish(op).kind = op.kind
  BY DEF Finish, OpStates, OpFits

LEMMA ReportErrorFits ==
    ASSUME NEW user, NEW op \in OpStates, NEW row, OpFits(user, op, row)
    PROVE  /\ ReportError(op) \in OpStates /\ OpFits(user, ReportError(op), row)
           /\ ReportError(op).kind = op.kind
  BY DEF ReportError, OpStates, OpFits

\* With FinishFits: a new session finds every operation over.
LEMMA CancelOpFits ==
    ASSUME NEW user, NEW other, NEW op \in OpStates, NEW row \in [Items -> Places],
           OpFits(user, op, row)
    PROVE  /\ CancelOp(op) \in OpStates
           /\ AbortReplies(row) \in [Items -> Places]
           /\ OpFits(other, CancelOp(op), AbortReplies(row))
  <1>1. CancelOp(op) \in OpStates
    BY DEF CancelOp, Finish, OpStates
  <1>2. AbortReplies(row) \in [Items -> Places]
    BY DEF AbortReplies, Nowhere, Places, Tokens
  <1>3. \A i \in Items : AbortReplies(row)[i].at \in {"Nowhere", row[i].at} \ {"Asked"}
    BY DEF AbortReplies, Nowhere, Places
  <1>4. \A i \in Scores : AbortReplies(row)[i].at # "Asked"
    BY <1>3 DEF Items
  <1>5. /\ op.kind = "None" => \A i \in Items : AbortReplies(row)[i].at = "Nowhere"
        /\ op.kind # "Bokutachi" => \A i \in Games : AbortReplies(row)[i].at = "Nowhere"
    BY <1>3 DEF OpFits, Items
  <1>6. CancelOp(op).kind = op.kind /\ (op.kind # "None" => CancelOp(op).finished)
    BY DEF CancelOp, Finish, OpStates
  <1>7. /\ CancelOp(op).stage = op.stage /\ CancelOp(op).user = op.user
        /\ CancelOp(op).pending \in {op.pending, {}}
        /\ CancelOp(op).finished => CancelOp(op).pending = {}
    BY DEF CancelOp, Finish, OpStates, OpFits
  <1>8. QED BY <1>1, <1>2, <1>4, <1>5, <1>6, <1>7 DEF OpFits

LEMMA CancelOpsFits ==
    ASSUME OpsFit, CancelOps
    PROVE  OpsFit'
  <1>1. ops' = [o \in Ops |-> CancelOp(ops[o])] /\ work' = [o \in Ops |-> AbortReplies(work[o])]
    BY DEF CancelOps
  <1>2. ASSUME NEW o \in Ops
        PROVE  /\ CancelOp(ops[o]) \in OpStates
               /\ AbortReplies(work[o]) \in [Items -> Places]
               /\ OpFits(account'.user, CancelOp(ops[o]), AbortReplies(work[o]))
    <2>1. ops[o] \in OpStates /\ work[o] \in [Items -> Places]
          /\ OpFits(account.user, ops[o], work[o])
      BY DEF OpsFit
    <2>2. QED BY <2>1, CancelOpFits
  <1>3. QED BY <1>1, <1>2 DEF OpsFit

-----------------------------------------------------------------------------
(* The transfer.                                                           *)

LEMMA CountersFit ==
    ASSUME NEW op \in OpStates, NEW number \in Nat, NEW items \in SUBSET Items
    PROVE  /\ [op EXCEPT !.pending = items, !.active = number] \in OpStates
           /\ \A done \in Nat : [op EXCEPT !.done = done, !.active = number] \in OpStates
  BY DEF OpStates

\* What an item is dispatched with is the token of the operation's user.
LEMMA StartNextFits ==
    ASSUME AccountFits, OpsFit, NEW o \in Ops, NEW op \in OpStates,
           NEW row \in [Items -> Places], OpFits(account.user, op, row),
           account.user' = account.user, StartNext(o, op, row)
    PROVE  OpsFit'
  <1>1. PICK next \in SUBSET op.pending :
          /\ ops' = [ops EXCEPT ![o] = [op EXCEPT !.pending = @ \ next,
                                                  !.active = @ + Cardinality(next)]]
          /\ work' = [work EXCEPT ![o] =
                          [i \in Items |-> IF i \in next THEN Dispatched(op) ELSE row[i]]]
    BY DEF StartNext
  <1> DEFINE started == [op EXCEPT !.pending = @ \ next, !.active = @ + Cardinality(next)]
             placed  == [i \in Items |-> IF i \in next THEN Dispatched(op) ELSE row[i]]
  <1>2. op.pending \subseteq Items /\ Cardinality(next) \in Nat
    BY ItemsAreFinite DEF OpStates
  <1>3. started \in OpStates
    <2>1. op.pending \ next \in SUBSET Items /\ op.active + Cardinality(next) \in Nat
      BY <1>2 DEF OpStates
    <2>2. started = [op EXCEPT !.pending = op.pending \ next,
                               !.active = op.active + Cardinality(next)]
      OBVIOUS
    <2>3. QED BY <2>1, <2>2, CountersFit
  <1>4. Dispatched(op) \in Places
    BY DEF Dispatched, Places, AccountFits, Tokens
  <1>5. placed \in [Items -> Places]
    BY <1>4
  <1>6. next # {} => Dispatched(op).at # "Asked" \/ Dispatched(op).token = op.user
    BY DEF OpFits, AccountFits, Dispatched
  <1>7. OpFits(account.user, started, placed)
    <2>1. \A i \in Items : i \notin next => placed[i] = row[i]
      OBVIOUS
    <2>2. \A i \in Items : i \in next => placed[i] = Dispatched(op)
      OBVIOUS
    <2>3. /\ started.kind = op.kind /\ started.finished = op.finished
          /\ started.user = op.user /\ started.stage = op.stage
          /\ started.pending = op.pending \ next
      BY DEF OpStates
    <2>4. op.kind = "None" => next = {}
      BY DEF OpFits
    <2>5. op.kind # "Bokutachi" => \A i \in Games : i \notin next
      BY SyncAssumption DEF OpFits
    <2>6. \A i \in Scores : placed[i].at = "Asked" => placed[i].token = op.user
      BY <2>1, <2>2, <1>6 DEF OpFits, Items
    <2> HIDE DEF started, placed
    <2>7. QED BY <2>1, <2>3, <2>4, <2>5, <2>6 DEF OpFits, Items
  <1> HIDE DEF started, placed
  <1>8. ops' = [ops EXCEPT ![o] = started] /\ work' = [work EXCEPT ![o] = placed]
    BY <1>1 DEF started, placed
  <1>9. QED BY <1>3, <1>5, <1>7, <1>8, OneOpChanges

LEMMA CountedFits ==
    ASSUME NEW user, NEW op \in OpStates, NEW row, OpFits(user, op, row)
    PROVE  Counted(op) \in OpStates /\ OpFits(user, Counted(op), row)
  <1> DEFINE active == IF op.active > 0 THEN op.active - 1 ELSE 0
  <1>1. op.done \in Nat /\ op.active \in Nat
    BY DEF OpStates
  <1>2. op.done + 1 \in Nat /\ active \in Nat
    BY <1>1
  <1>3. Counted(op) = [op EXCEPT !.done = op.done + 1, !.active = active]
    BY DEF Counted
  <1> HIDE DEF active
  <1>4. Counted(op) \in OpStates
    BY ZenonT(30), <1>2, <1>3, CountersFit
  <1>5. /\ Counted(op).kind = op.kind /\ Counted(op).finished = op.finished
        /\ Counted(op).user = op.user /\ Counted(op).pending = op.pending
        /\ Counted(op).stage = op.stage
    BY <1>3 DEF OpStates
  <1>6. QED BY <1>4, <1>5 DEF OpFits

LEMMA EndedFits ==
    ASSUME NEW user, NEW op \in OpStates, NEW row, OpFits(user, op, row)
    PROVE  Ended(op) \in OpStates /\ OpFits(user, Ended(op), row)
  BY FinishFits DEF Ended

LEMMA IncrementFits ==
    ASSUME AccountFits, OpsFit, NEW o \in Ops, NEW op \in OpStates,
           NEW row \in [Items -> Places], OpFits(account.user, op, row),
           account.user' = account.user, Increment(o, op, row)
    PROVE  OpsFit'
  <1>1. CASE op.finished
    BY <1>1, OneOpChanges DEF Increment
  <1>2. CASE ~op.finished
    <2>1. Counted(op) \in OpStates /\ OpFits(account.user, Counted(op), row)
      BY CountedFits
    <2>2. Ended(Counted(op)) \in OpStates /\ OpFits(account.user, Ended(Counted(op)), row)
      BY <2>1, EndedFits
    <2>3. StartNext(o, Ended(Counted(op)), row)
      BY <1>2 DEF Increment
    <2>4. QED BY <2>2, <2>3, StartNextFits
  <1>3. QED BY <1>1, <1>2

\* An item that is taken from its place leaves the operation as it was.
LEMMA ItemMovesFits ==
    ASSUME NEW user, NEW op \in OpStates, NEW row \in [Items -> Places],
           OpFits(user, op, row), NEW i \in Items, NEW place \in Places,
           op.kind # "None", row[i].at # "Nowhere",
           place.at = "Asked" => place.token = op.user
    PROVE  /\ [row EXCEPT ![i] = place] \in [Items -> Places]
           /\ OpFits(user, op, [row EXCEPT ![i] = place])
  BY DEF OpFits, Items

LEMMA OutcomeFits ==
    ASSUME errors \in 0..MaxErrors, NEW ok \in BOOLEAN, Outcome(ok)
    PROVE  errors' \in 0..MaxErrors
  BY SyncAssumption DEF Outcome

LEMMA ElsewhereFits ==
    ASSUME AccountFits, UNCHANGED <<account, requests, keychain>>
    PROVE  AccountFits'
  BY DEF AccountFits, OneRequestAtATime, ReadIsFirst

LEMMA SetOpFits ==
    ASSUME OpsFit, NEW o \in Ops, NEW op \in OpStates, OpFits(account.user, op, work[o]),
           account.user' = account.user, SetOp(o, op)
    PROVE  OpsFit'
  <1>1. work[o] \in [Items -> Places]
    BY DEF OpsFit
  <1>2. ops' = [ops EXCEPT ![o] = op] /\ work' = work
    BY DEF SetOp
  <1>3. work' = [work EXCEPT ![o] = work[o]]
    BY <1>2 DEF OpsFit
  <1>4. QED BY <1>1, <1>2, <1>3, OneOpChanges

LEMMA FieldsFit ==
    ASSUME NEW op \in OpStates, NEW user \in Tokens,
           NEW kind \in {"Upload", "Download", "Bokutachi"},
           NEW stage \in {"LocalRead", "LocalFailed", "Transfer"}, NEW snapshot \in SUBSET Scores
    PROVE  /\ [op EXCEPT !.kind = kind, !.user = user] \in OpStates
           /\ [op EXCEPT !.kind = kind, !.user = user, !.stage = stage] \in OpStates
           /\ [op EXCEPT !.stage = stage, !.snapshot = snapshot] \in OpStates
  BY DEF OpStates

-----------------------------------------------------------------------------
(* The operations, step by step.                                           *)

LEMMA SyncScoresFits ==
    ASSUME IInv, NEW o \in Ops, NEW kind \in {"Upload", "Download"}, SyncScores(o, kind)
    PROVE  IInv'
  <1>1. AccountFits /\ DataFits /\ OpsFit
    BY Parts
  <1>2. AccountFits' /\ DataFits' /\ account' = account
    BY <1>1, ElsewhereFits DEF SyncScores, Elsewhere, DataFits
  <1> DEFINE op == [ops[o] EXCEPT !.kind = kind, !.user = account.user]
  <1>3. op \in OpStates /\ Finish(op) \in OpStates
    <2>1. ops[o] \in OpStates /\ account.user \in Tokens
      BY <1>1 DEF OpsFit, AccountFits
    <2>2. op \in OpStates
      BY <2>1, FieldsFit
    <2> HIDE DEF op
    <2>3. QED BY <2>2 DEF Finish, OpStates
  <1>4. /\ op.kind = kind /\ op.user = account.user /\ op.pending = {}
        /\ \A i \in Items : work[o][i].at = "Nowhere"
    BY <1>1 DEF OpsFit, OpFits, OpStates, SyncScores
  <1>5. /\ account.user # NoUser => OpFits(account.user, op, work[o])
        /\ account.user = NoUser => OpFits(account.user, Finish(op), work[o])
    <2>1. /\ Finish(op).finished /\ Finish(op).kind = op.kind /\ Finish(op).user = op.user
          /\ Finish(op).pending = {}
      BY <1>3, <1>4 DEF Finish, OpStates
    <2> HIDE DEF op
    <2>2. QED BY <1>4, <2>1 DEF OpFits, Items
  <1>6. SetOp(o, IF account.user = NoUser THEN Finish(op) ELSE op)
    BY DEF SyncScores
  <1> HIDE DEF op
  <1>7. OpsFit'
    BY <1>1, <1>2, <1>3, <1>5, <1>6, SetOpFits
  <1>8. QED BY <1>2, <1>7, PartsNext

LEMMA ImportFits ==
    ASSUME IInv, NEW o \in Ops, ImportBokutachiScores(o)
    PROVE  IInv'
  <1>1. AccountFits /\ DataFits /\ OpsFit
    BY Parts
  <1>2. AccountFits' /\ DataFits' /\ account' = account
    BY <1>1, ElsewhereFits DEF ImportBokutachiScores, Elsewhere, DataFits
  <1> DEFINE op == [ops[o] EXCEPT !.kind = "Bokutachi", !.user = account.user,
                                  !.stage = "Transfer"]
             started == [op EXCEPT !.wanted = Games]
             row == [i \in Items |-> [at |-> IF i \in Games THEN "Asked" ELSE "Nowhere",
                                      token |-> NoUser]]
  <1>3. op \in OpStates /\ Finish(op) \in OpStates /\ started \in OpStates
    <2>1. op \in OpStates
      <3>1. ops[o] \in OpStates /\ account.user \in Tokens
        BY <1>1 DEF OpsFit, AccountFits
      <3>2. QED BY <3>1, FieldsFit
    <2>2. Games \in SUBSET Items
      BY DEF Items
    <2> HIDE DEF op
    <2>3. QED BY <2>1, <2>2 DEF OpStates, Finish
  <1>4. /\ op.kind = "Bokutachi" /\ op.user = account.user /\ op.pending = {}
        /\ \A i \in Items : work[o][i].at = "Nowhere"
    BY <1>1 DEF OpsFit, OpFits, OpStates, ImportBokutachiScores
  <1>5. CASE account.tachi # "LoggedIn"
    <2>1. SetOp(o, Finish(op))
      BY <1>5 DEF ImportBokutachiScores
    <2>2. /\ Finish(op).finished /\ Finish(op).kind = op.kind /\ Finish(op).user = op.user
          /\ Finish(op).pending = {}
      BY <1>3, <1>4 DEF Finish, OpStates
    <2> HIDE DEF op
    <2>3. OpFits(account.user, Finish(op), work[o])
      BY <1>4, <2>2 DEF OpFits, Items
    <2>4. OpsFit'
      BY <1>1, <1>2, <1>3, <2>1, <2>3, SetOpFits
    <2>5. QED BY <1>2, <2>4, PartsNext
  <1>6. CASE account.tachi = "LoggedIn"
    <2>1. account.user # NoUser
      BY <1>1, <1>6 DEF AccountFits, OneRequestAtATime
    <2>2. row \in [Items -> Places] /\ \A i \in Scores : row[i].at = "Nowhere"
      BY SyncAssumption DEF Places, Tokens, Items
    <2>3. /\ started.kind = op.kind /\ started.user = op.user /\ started.pending = op.pending
      BY <1>3 DEF OpStates
    <2>4. ops' = [ops EXCEPT ![o] = started] /\ work' = [work EXCEPT ![o] = row]
      BY <1>6 DEF ImportBokutachiScores
    <2> HIDE DEF op, started, row
    <2>5. OpFits(account.user, started, row)
      BY <1>4, <2>1, <2>2, <2>3 DEF OpFits
    <2>6. OpsFit'
      BY <1>1, <1>2, <1>3, <2>2, <2>4, <2>5, OneOpChanges
    <2>7. QED BY <1>2, <2>6, PartsNext
  <1>7. QED BY <1>5, <1>6

LEMMA FetchLocalGuidsFits ==
    ASSUME IInv, NEW o \in Ops, FetchLocalGuids(o)
    PROVE  IInv'
  <1>1. AccountFits /\ DataFits /\ OpsFit
    BY Parts
  <1>2. PICK ok \in BOOLEAN :
          /\ Outcome(ok)
          /\ SetOp(o, [ops[o] EXCEPT !.stage = IF ok THEN "LocalRead" ELSE "LocalFailed",
                                     !.snapshot = IF ok THEN local ELSE {}])
    BY DEF FetchLocalGuids
  <1>3. AccountFits' /\ DataFits' /\ account' = account
    BY <1>1, <1>2, ElsewhereFits, OutcomeFits DEF FetchLocalGuids, Elsewhere, DataFits
  <1> DEFINE op == [ops[o] EXCEPT !.stage = IF ok THEN "LocalRead" ELSE "LocalFailed",
                                  !.snapshot = IF ok THEN local ELSE {}]
  <1>4. op \in OpStates
    <2>1. /\ ops[o] \in OpStates /\ (IF ok THEN local ELSE {}) \in SUBSET Scores
          /\ (IF ok THEN "LocalRead" ELSE "LocalFailed") \in {"LocalRead", "LocalFailed"}
          /\ NoUser \in Tokens
      BY <1>1 DEF OpsFit, DataFits, Tokens
    <2>2. QED BY <2>1, FieldsFit
  <1>5. OpFits(account.user, op, work[o])
    BY <1>1 DEF OpsFit, OpStates, OpFits, FetchLocalGuids
  <1>6. OpsFit'
    BY <1>1, <1>2, <1>3, <1>4, <1>5, SetOpFits
  <1>7. QED BY <1>3, <1>6, PartsNext

LEMMA LocalGuidsHandledFits ==
    ASSUME IInv, NEW o \in Ops, LocalGuidsHandled(o)
    PROVE  IInv'
  <1>1. AccountFits /\ DataFits /\ OpsFit
    BY Parts
  <1>2. AccountFits' /\ DataFits' /\ account' = account
    BY <1>1, ElsewhereFits DEF LocalGuidsHandled, Elsewhere, DataFits
  <1>3. ops[o] \in OpStates /\ OpFits(account.user, ops[o], work[o]) /\ ops[o].kind # "None"
    BY <1>1 DEF OpsFit, OpFits, LocalGuidsHandled
  <1> DEFINE over == Finish(ReportError(ops[o]))
  <1>4. over \in OpStates /\ OpFits(account.user, over, work[o]) /\ over.kind # "None"
    BY <1>3, ReportErrorFits, FinishFits
  <1>5. ASSUME NEW op \in OpStates, OpFits(account.user, op, work[o]), op.kind # "None",
               NEW stage \in {"Server", "Over"}
        PROVE  /\ [op EXCEPT !.stage = stage] \in OpStates
               /\ OpFits(account.user, [op EXCEPT !.stage = stage], work[o])
    BY <1>5 DEF OpStates, OpFits
  <1>6. \/ SetOp(o, [over EXCEPT !.stage = "Over"])
        \/ SetOp(o, [ops[o] EXCEPT !.stage = "Server"])
    BY DEF LocalGuidsHandled
  <1> HIDE DEF over
  <1>7. OpsFit'
    BY <1>1, <1>2, <1>3, <1>4, <1>5, <1>6, SetOpFits
  <1>8. QED BY <1>2, <1>7, PartsNext

LEMMA ServerGuidsAnsweredFits ==
    ASSUME IInv, NEW o \in Ops, ServerGuidsAnswered(o)
    PROVE  IInv'
  <1>1. AccountFits /\ DataFits /\ OpsFit
    BY Parts
  <1> DEFINE difference == IF ops[o].kind = "Upload"
                           THEN ops[o].snapshot \ server[ops[o].user]
                           ELSE server[ops[o].user] \ ops[o].snapshot
  <1>2. PICK ok \in BOOLEAN :
          /\ Outcome(ok)
          /\ IF ok THEN StartTransfer(o, difference)
                   ELSE SetOp(o, Finish(ReportError(ops[o])))
    BY DEF ServerGuidsAnswered
  <1>3. AccountFits' /\ DataFits' /\ account' = account
    BY <1>1, <1>2, ElsewhereFits, OutcomeFits DEF ServerGuidsAnswered, Elsewhere, DataFits
  <1>4. /\ ops[o] \in OpStates /\ OpFits(account.user, ops[o], work[o])
        /\ work[o] \in [Items -> Places]
        /\ ops[o].kind # "None" /\ ~ops[o].finished
    BY <1>1 DEF OpsFit, OpFits, ServerGuidsAnswered
  <1>5. CASE ok
    <2>1. ops[o].user \in Users
      BY <1>4 DEF OpFits, OpStates, Tokens
    <2>2. difference \subseteq Scores
      BY <1>1, <1>4, <2>1 DEF DataFits, OpStates
    <2> HIDE DEF difference
    <2> DEFINE op == [ops[o] EXCEPT !.stage = "Transfer", !.wanted = difference,
                                    !.pending = difference]
    <2>3. op \in OpStates
      BY <1>4, <2>2 DEF OpStates, Items
    <2>4. OpFits(account.user, op, work[o])
      BY <1>4, <2>2 DEF OpFits, OpStates
    <2>5. StartNext(o, Ended(op), work[o])
      BY <1>2, <1>5 DEF StartTransfer
    <2> HIDE DEF op
    <2>6. Ended(op) \in OpStates /\ OpFits(account.user, Ended(op), work[o])
      BY <2>3, <2>4, EndedFits
    <2>7. OpsFit'
      BY <1>1, <1>3, <1>4, <2>5, <2>6, StartNextFits
    <2>8. QED BY <1>3, <2>7, PartsNext
  <1>6. CASE ~ok
    <2>1. /\ Finish(ReportError(ops[o])) \in OpStates
          /\ OpFits(account.user, Finish(ReportError(ops[o])), work[o])
      BY <1>4, ReportErrorFits, FinishFits
    <2>2. OpsFit'
      BY <1>1, <1>2, <1>3, <1>6, <2>1, SetOpFits
    <2>3. QED BY <1>3, <2>2, PartsNext
  <1>7. QED BY <1>5, <1>6

LEMMA AnsweredFits ==
    ASSUME IInv, NEW o \in Ops, NEW i \in Items, Answered(o, i)
    PROVE  IInv'
  <1>1. AccountFits /\ DataFits /\ OpsFit
    BY Parts
  <1>2. PICK ok \in BOOLEAN :
          /\ Outcome(ok)
          /\ IF ok /\ ops[o].kind # "Upload"
             THEN /\ work' = [work EXCEPT ![o][i] = [at |-> "Pool", token |-> NoUser]]
                  /\ UNCHANGED ops
             ELSE Increment(o, IF ok THEN ops[o] ELSE ReportError(ops[o]),
                            [work[o] EXCEPT ![i] = Nowhere])
          /\ server' = IF ok /\ ops[o].kind = "Upload" /\ work[o][i].token # NoUser
                       THEN [server EXCEPT ![work[o][i].token] = @ \cup {i}] ELSE server
    BY DEF Answered
  <1>3. /\ ops[o] \in OpStates /\ OpFits(account.user, ops[o], work[o])
        /\ work[o] \in [Items -> Places] /\ work[o][i].at = "Asked"
        /\ ops[o].kind # "None"
    BY <1>1 DEF OpsFit, OpFits, Answered
  <1>4. AccountFits' /\ account' = account
    BY <1>1, ElsewhereFits DEF Answered, Elsewhere
  <1>5. DataFits'
    <2>1. ops[o].kind = "Upload" => i \in Scores
      BY <1>3 DEF OpFits, Items
    <2>2. work[o][i].token \in Tokens
      BY <1>3 DEF Places
    <2>3. server' \in [Users -> SUBSET Scores]
      BY <1>1, <1>2, <2>1, <2>2 DEF DataFits, Tokens
    <2>4. local' = local /\ submitted' = submitted /\ errors' \in 0..MaxErrors
      BY <1>1, <1>2, OutcomeFits DEF Answered, Elsewhere, DataFits
    <2>5. QED BY <1>1, <2>3, <2>4 DEF DataFits
  <1>6. CASE ok /\ ops[o].kind # "Upload"
    <2> DEFINE row == [work[o] EXCEPT ![i] = [at |-> "Pool", token |-> NoUser]]
    <2>1. [at |-> "Pool", token |-> NoUser] \in Places
      BY DEF Places, Tokens
    <2>2. row \in [Items -> Places] /\ OpFits(account.user, ops[o], row)
      BY <1>3, <2>1, ItemMovesFits
    <2>3. work' = [work EXCEPT ![o] = row] /\ ops' = [ops EXCEPT ![o] = ops[o]]
      BY <1>1, <1>2, <1>6 DEF OpsFit
    <2> HIDE DEF row
    <2>4. OpsFit'
      BY <1>1, <1>3, <1>4, <2>2, <2>3, OneOpChanges
    <2>5. QED BY <1>4, <1>5, <2>4, PartsNext
  <1>7. CASE ~(ok /\ ops[o].kind # "Upload")
    <2> DEFINE op == IF ok THEN ops[o] ELSE ReportError(ops[o])
               row == [work[o] EXCEPT ![i] = Nowhere]
    <2>1. op \in OpStates /\ OpFits(account.user, op, work[o]) /\ op.kind # "None"
      BY <1>3, ReportErrorFits
    <2>2. Increment(o, op, row)
      BY <1>2, <1>7
    <2> HIDE DEF op
    <2>3. row \in [Items -> Places] /\ OpFits(account.user, op, row)
      <3>1. Nowhere \in Places /\ Nowhere.at # "Asked"
        BY DEF Nowhere, Places, Tokens
      <3>2. work[o][i].at # "Nowhere"
        BY <1>3
      <3>3. QED BY <1>3, <2>1, <3>1, <3>2, ItemMovesFits
    <2> HIDE DEF row
    <2>4. OpsFit'
      BY <1>1, <1>4, <2>1, <2>2, <2>3, IncrementFits
    <2>5. QED BY <1>4, <1>5, <2>4, PartsNext
  <1>8. QED BY <1>6, <1>7

\* A job of the pool moves on by itself: its operation stays as it is.
LEMMA JobMovesFits ==
    ASSUME OpsFit, NEW o \in Ops, NEW i \in Items, NEW place \in Places,
           account.user' = account.user, ops' = ops,
           work' = [work EXCEPT ![o] = [work[o] EXCEPT ![i] = place]],
           work[o][i].at # "Nowhere", place.at = "Asked" => place.token = ops[o].user
    PROVE  OpsFit'
  <1> DEFINE row == [work[o] EXCEPT ![i] = place]
  <1>1. /\ ops[o] \in OpStates /\ OpFits(account.user, ops[o], work[o])
        /\ work[o] \in [Items -> Places] /\ ops[o].kind # "None"
    BY DEF OpsFit, OpFits
  <1>2. row \in [Items -> Places] /\ OpFits(account.user, ops[o], row)
    BY <1>1, ItemMovesFits
  <1>3. ops' = [ops EXCEPT ![o] = ops[o]] /\ work' = [work EXCEPT ![o] = row]
    BY DEF OpsFit
  <1> HIDE DEF row
  <1>4. QED BY <1>1, <1>2, <1>3, OneOpChanges

LEMMA JobBeginsFits ==
    ASSUME IInv, NEW o \in Ops, NEW i \in Items, JobBegins(o, i)
    PROVE  IInv'
  <1>1. AccountFits /\ DataFits /\ OpsFit
    BY Parts
  <1>2. AccountFits' /\ DataFits' /\ account' = account
    BY <1>1, ElsewhereFits DEF JobBegins, Elsewhere, DataFits
  <1> DEFINE place == IF ops[o].cancelled THEN Nowhere ELSE [work[o][i] EXCEPT !.at = "Working"]
  <1>3. work[o] \in [Items -> Places] /\ work[o][i] \in Places
    BY <1>1 DEF OpsFit
  <1>4. place \in Places /\ place.at # "Asked"
    BY <1>3 DEF Places, Nowhere, Tokens
  <1>5. work' = [work EXCEPT ![o] = [work[o] EXCEPT ![i] = place]]
    BY <1>1, <1>3 DEF JobBegins, OpsFit
  <1>6. work[o][i].at # "Nowhere" /\ ops' = ops
    BY DEF JobBegins
  <1> HIDE DEF place
  <1>7. OpsFit'
    BY <1>1, <1>2, <1>4, <1>5, <1>6, JobMovesFits
  <1>8. QED BY <1>2, <1>7, PartsNext

LEMMA JobEndsFits ==
    ASSUME IInv, NEW o \in Ops, NEW i \in Items, JobEnds(o, i)
    PROVE  IInv'
  <1>1. AccountFits /\ DataFits /\ OpsFit
    BY Parts
  <1>2. PICK ok \in BOOLEAN :
          /\ Outcome(ok)
          /\ LET saved == ok /\ ~(ops[o].kind = "Download" /\ i \in local)
             IN  /\ work' = [work EXCEPT ![o][i].at = IF saved THEN "Posted" ELSE "Failed"]
                 /\ local' = IF saved /\ ops[o].kind = "Download" THEN local \cup {i} ELSE local
    BY DEF JobEnds
  <1>3. /\ OpFits(account.user, ops[o], work[o]) /\ work[o] \in [Items -> Places]
        /\ work[o][i] \in Places /\ work[o][i].at = "Working" /\ ops' = ops
    BY <1>1 DEF OpsFit, JobEnds
  <1>4. ops[o].kind = "Download" => i \in Scores
    BY <1>3 DEF OpFits, Items
  <1>5. AccountFits' /\ DataFits' /\ account' = account
    <2>1. local' \subseteq Scores
      BY <1>1, <1>2, <1>4 DEF DataFits
    <2>2. errors' \in 0..MaxErrors
      BY <1>1, <1>2, OutcomeFits DEF DataFits
    <2>3. QED BY <1>1, <2>1, <2>2, ElsewhereFits DEF JobEnds, Elsewhere, DataFits
  <1>6. PICK at \in {"Posted", "Failed"} : work' = [work EXCEPT ![o][i].at = at]
    BY <1>2
  <1> DEFINE place == [work[o][i] EXCEPT !.at = at]
  <1>7. place \in Places /\ place.at # "Asked"
    BY <1>3 DEF Places
  <1>8. work' = [work EXCEPT ![o] = [work[o] EXCEPT ![i] = place]]
    BY <1>1, <1>3, <1>6 DEF OpsFit
  <1>9. work[o][i].at # "Nowhere"
    BY <1>3
  <1> HIDE DEF place
  <1>10. OpsFit'
    BY <1>1, <1>3, <1>5, <1>7, <1>8, <1>9, JobMovesFits
  <1>11. QED BY <1>5, <1>10, PartsNext

LEMMA JobHandledFits ==
    ASSUME IInv, NEW o \in Ops, NEW i \in Items, JobHandled(o, i)
    PROVE  IInv'
  <1>1. AccountFits /\ DataFits /\ OpsFit
    BY Parts
  <1>2. AccountFits' /\ DataFits' /\ account' = account
    BY <1>1, ElsewhereFits DEF JobHandled, Elsewhere, DataFits
  <1>3. /\ ops[o] \in OpStates /\ OpFits(account.user, ops[o], work[o])
        /\ work[o] \in [Items -> Places] /\ work[o][i].at # "Nowhere"
        /\ ops[o].kind # "None"
    BY <1>1 DEF OpsFit, OpFits, JobHandled
  <1>4. CASE work[o][i].at = "Posted" /\ MaySend(ops[o])
    <2> DEFINE place == [at |-> "Asked", token |-> account.token]
    <2>1. account.token = ops[o].user
      BY <1>1, <1>3, <1>4 DEF MaySend, OpFits, AccountFits
    <2>2. place \in Places
      BY <1>1 DEF Places, AccountFits
    <2>3. work' = [work EXCEPT ![o] = [work[o] EXCEPT ![i] = place]] /\ ops' = ops
      BY <1>1, <1>3, <1>4 DEF JobHandled, OpsFit
    <2>4. place.token = ops[o].user
      BY <2>1
    <2> HIDE DEF place
    <2>5. OpsFit'
      BY <1>1, <1>2, <1>3, <2>2, <2>3, <2>4, JobMovesFits
    <2>6. QED BY <1>2, <2>5, PartsNext
  <1>5. CASE ~(work[o][i].at = "Posted" /\ MaySend(ops[o]))
    <2> DEFINE op == IF work[o][i].at = "Failed" THEN ReportError(ops[o]) ELSE ops[o]
               row == [work[o] EXCEPT ![i] = Nowhere]
    <2>1. op \in OpStates /\ OpFits(account.user, op, work[o]) /\ op.kind # "None"
      BY <1>3, ReportErrorFits
    <2>2. Increment(o, op, row)
      BY <1>5 DEF JobHandled
    <2> HIDE DEF op
    <2>3. row \in [Items -> Places] /\ OpFits(account.user, op, row)
      <3>1. Nowhere \in Places /\ Nowhere.at # "Asked"
        BY DEF Nowhere, Places, Tokens
      <3>2. QED BY <1>3, <2>1, <3>1, ItemMovesFits
    <2> HIDE DEF row
    <2>4. OpsFit'
      BY <1>1, <1>2, <2>1, <2>2, <2>3, IncrementFits
    <2>5. QED BY <1>2, <2>4, PartsNext
  <1>6. QED BY <1>4, <1>5

LEMMA CancelFits ==
    ASSUME IInv, NEW o \in Ops, Cancel(o)
    PROVE  IInv'
  <1>1. AccountFits /\ DataFits /\ OpsFit
    BY Parts
  <1>2. AccountFits' /\ DataFits' /\ account' = account
    BY <1>1, ElsewhereFits DEF Cancel, Elsewhere, DataFits
  <1>3. /\ ops[o] \in OpStates /\ OpFits(account.user, ops[o], work[o])
        /\ work[o] \in [Items -> Places]
    BY <1>1 DEF OpsFit
  <1>4. /\ CancelOp(ops[o]) \in OpStates /\ AbortReplies(work[o]) \in [Items -> Places]
        /\ OpFits(account.user, CancelOp(ops[o]), AbortReplies(work[o]))
    BY <1>3, CancelOpFits
  <1>5. /\ ops' = [ops EXCEPT ![o] = CancelOp(ops[o])]
        /\ work' = [work EXCEPT ![o] = AbortReplies(work[o])]
    BY DEF Cancel
  <1>6. OpsFit'
    BY <1>1, <1>2, <1>4, <1>5, OneOpChanges
  <1>7. QED BY <1>2, <1>6, PartsNext

-----------------------------------------------------------------------------
(* The session.                                                            *)

\* A request answers to the session: the reading of the token is long over, and
\* what it asks for is what the session is at.
LEMMA RequestOfSession ==
    ASSUME AccountFits, NEW r \in requests
    PROVE  /\ r \in Requests /\ r.generation = account.generation
           /\ r.kind = "SignIn" => requests = {r} /\ account.user = NoUser
                                   /\ account.token = NoUser
           /\ r.kind = "Me" => account.user = NoUser /\ r.user = account.token
                               /\ requests = {r}
           /\ r.kind = "Tachi" => account.user # NoUser
           /\ ~(keychain.jobs # <<>> /\ Head(keychain.jobs).kind = "Read"
                /\ account.generation = 0)
  <1>1. /\ r \in Requests /\ r.generation = account.generation
        /\ r.kind = "SignIn" => requests = {r} /\ account.user = NoUser
                                /\ account.token = NoUser
        /\ r.kind = "Me" => account.user = NoUser /\ r.user = account.token
        /\ r.kind = "Tachi" => account.user # NoUser
    BY DEF AccountFits, OneRequestAtATime
  <1>2. ~(keychain.jobs # <<>> /\ Head(keychain.jobs).kind = "Read" /\ account.generation = 0)
    BY DEF AccountFits, ReadIsFirst
  <1>3. r.kind = "Me" => requests = {r}
    <2>1. SUFFICES ASSUME r.kind = "Me", NEW q \in requests PROVE q = r
      OBVIOUS
    <2>2. q \in Requests /\ q.generation = r.generation
      BY <1>1 DEF AccountFits
    <2>3. q.kind = "Me"
      BY <2>1, <2>2, <1>1 DEF AccountFits, OneRequestAtATime, Requests
    <2>4. q.user = r.user
      BY <2>1, <2>3 DEF AccountFits
    <2>5. QED BY <1>1, <2>1, <2>2, <2>3, <2>4 DEF Requests
  <1>4. QED BY <1>1, <1>2, <1>3

\* Appending a job other than Read leaves what is known of the Read as it was.
LEMMA JobAppended ==
    ASSUME AccountFits, NEW job \in KeychainJobs, job.kind # "Read",
           keychain' = [keychain EXCEPT !.jobs = Append(@, job)]
    PROVE  /\ keychain' \in [stored : Tokens, jobs : Seq(KeychainJobs)]
           /\ \A i \in 2..Len(keychain'.jobs) : keychain'.jobs[i].kind # "Read"
           /\ Head(keychain'.jobs).kind = "Read" =>
                 keychain.jobs # <<>> /\ Head(keychain'.jobs) = Head(keychain.jobs)
  <1>1. keychain \in [stored : Tokens, jobs : Seq(KeychainJobs)]
        /\ \A i \in 2..Len(keychain.jobs) : keychain.jobs[i].kind # "Read"
    BY DEF AccountFits, ReadIsFirst
  <1> DEFINE jobs == keychain.jobs
  <1>2. jobs \in Seq(KeychainJobs) /\ keychain'.jobs = Append(jobs, job)
    BY <1>1
  <1>3. keychain' \in [stored : Tokens, jobs : Seq(KeychainJobs)]
    BY SMTT(20), <1>1
  <1>4. \A i \in 2..Len(jobs) : jobs[i].kind # "Read"
    BY <1>1
  <1> HIDE DEF jobs
  <1>5. /\ Len(Append(jobs, job)) = Len(jobs) + 1
        /\ \A i \in 1..Len(jobs) : Append(jobs, job)[i] = jobs[i]
        /\ Append(jobs, job)[Len(jobs) + 1] = job
        /\ Len(jobs) \in Nat
    BY <1>2
  <1>6. \A i \in 2..Len(Append(jobs, job)) : Append(jobs, job)[i].kind # "Read"
    <2>1. SUFFICES ASSUME NEW i \in 2..Len(Append(jobs, job))
                   PROVE  Append(jobs, job)[i].kind # "Read"
      OBVIOUS
    <2>2. CASE i \in 2..Len(jobs) BY <2>2, <1>4, <1>5
    <2>3. CASE i = Len(jobs) + 1 BY <2>3, <1>5
    <2>4. QED BY <1>5, <2>2, <2>3
  <1>7. Head(Append(jobs, job)).kind = "Read" =>
           jobs # <<>> /\ Head(Append(jobs, job)) = Head(jobs)
    BY <1>2
  <1>8. QED BY <1>2, <1>3, <1>6, <1>7 DEF jobs

LEMMA LoginFits ==
    ASSUME IInv, NEW user \in Users, Login(user)
    PROVE  IInv'
  <1>1. AccountFits /\ DataFits /\ OpsFit
    BY Parts
  <1>2. OpsFit'
    BY <1>1, CancelOpsFits DEF Login, InvalidateSession
  <1>3. DataFits'
    BY <1>1 DEF Login, DataFits
  <1> DEFINE generation == account.generation + 1
  <1>4. /\ account' = [generation |-> generation, login |-> "LoggingIn",
                       tachi |-> "NotLoggedIn", user |-> NoUser, token |-> NoUser]
        /\ requests' = {[kind |-> "SignIn", user |-> user, generation |-> generation]}
        /\ keychain' = keychain /\ account.generation < MaxSessions
    BY DEF Login, InvalidateSession, SignedOut
  <1>5. generation \in 0..MaxSessions /\ generation > 0 /\ generation \in Nat
    BY <1>1, <1>4, SyncAssumption DEF AccountFits
  <1> HIDE DEF generation
  <1>6. AccountFits'
    <2>1. account' \in [generation : 0..MaxSessions, login : LoginStates, tachi : LoginStates,
                        user : Tokens, token : Tokens]
      BY <1>4, <1>5 DEF LoginStates, Tokens
    <2>2. requests' \subseteq Requests
      BY <1>4, <1>5 DEF Requests
    <2>3. OneRequestAtATime'
      BY <1>4, <1>5 DEF OneRequestAtATime
    <2>4. ReadIsFirst'
      BY <1>1, <1>4, <1>5 DEF AccountFits, ReadIsFirst
    <2>5. QED BY <1>1, <1>4, <2>1, <2>2, <2>3, <2>4 DEF AccountFits
  <1>7. QED BY <1>2, <1>3, <1>6, PartsNext

LEMMA LogoutFits ==
    ASSUME IInv, Logout
    PROVE  IInv'
  <1>1. AccountFits /\ DataFits /\ OpsFit
    BY Parts
  <1>2. OpsFit'
    BY <1>1, CancelOpsFits DEF Logout, InvalidateSession
  <1>3. DataFits'
    BY <1>1 DEF Logout, DataFits
  <1> DEFINE job == [kind |-> "Delete", user |-> NoUser, generation |-> account.generation]
             generation == account.generation + 1
  <1>4. /\ account' = [generation |-> generation, login |-> "NotLoggedIn",
                       tachi |-> "NotLoggedIn", user |-> NoUser, token |-> NoUser]
        /\ requests' = {} /\ keychain' = [keychain EXCEPT !.jobs = Append(@, job)]
        /\ account.generation < MaxSessions
    BY DEF Logout, InvalidateSession, SignedOut
  <1>5. generation \in 0..MaxSessions /\ generation > 0 /\ account.generation \in Nat
    BY <1>1, <1>4, SyncAssumption DEF AccountFits
  <1>6. job \in KeychainJobs /\ job.kind # "Read"
    BY <1>5 DEF KeychainJobs, Tokens
  <1> HIDE DEF job, generation
  <1>7. AccountFits'
    <2>1. account' \in [generation : 0..MaxSessions, login : LoginStates, tachi : LoginStates,
                        user : Tokens, token : Tokens]
      BY <1>4, <1>5 DEF LoginStates, Tokens
    <2>2. OneRequestAtATime'
      BY <1>4 DEF OneRequestAtATime
    <2>3. keychain' \in [stored : Tokens, jobs : Seq(KeychainJobs)]
      BY <1>1, <1>4, <1>6, JobAppended
    <2>4. ReadIsFirst'
      BY <1>1, <1>4, <1>5, <1>6, JobAppended DEF AccountFits, ReadIsFirst
    <2>5. QED BY <1>4, <2>1, <2>2, <2>3, <2>4 DEF AccountFits
  <1>8. QED BY <1>2, <1>3, <1>7, PartsNext

LEMMA SignInAnsweredFits ==
    ASSUME IInv, NEW r \in requests, SignInAnswered(r)
    PROVE  IInv'
  <1>1. AccountFits /\ DataFits /\ OpsFit
    BY Parts
  <1>2. PICK ok \in BOOLEAN :
          /\ Outcome(ok)
          /\ IF ok
             THEN /\ FetchOnlineData([account EXCEPT !.token = r.user], requests \ {r})
                  /\ keychain' = [keychain EXCEPT !.jobs =
                        Append(@, [kind |-> "Write", user |-> r.user,
                                   generation |-> account.generation])]
             ELSE /\ account' = [account EXCEPT !.login = "LoginFailed"]
                  /\ requests' = requests \ {r}
                  /\ UNCHANGED keychain
    BY DEF SignInAnswered
  <1>3. DataFits'
    BY <1>1, <1>2, OutcomeFits DEF SignInAnswered, DataFits
  <1>4. /\ requests = {r} /\ account.user = NoUser /\ account.token = NoUser
        /\ r.user \in Users /\ account.generation \in Nat
        /\ ~(keychain.jobs # <<>> /\ Head(keychain.jobs).kind = "Read"
             /\ account.generation = 0)
    BY <1>1, RequestOfSession, SyncAssumption DEF SignInAnswered, Requests, AccountFits
  <1>5. account.tachi = "NotLoggedIn" /\ account.login # "LoggedIn"
    BY <1>1, <1>4 DEF AccountFits, OneRequestAtATime
  <1>6. account'.user = account.user
    BY <1>1, <1>2 DEF FetchOnlineData, AccountFits
  <1>7. OpsFit'
    BY <1>1, <1>6 DEF OpsFit, SignInAnswered
  <1>8. CASE ok
    <2> DEFINE me == [kind |-> "Me", user |-> r.user, generation |-> account.generation]
               job == [kind |-> "Write", user |-> r.user, generation |-> account.generation]
    <2>1. /\ account' = [account EXCEPT !.token = r.user, !.login = "LoggingIn"]
          /\ requests' = {me}
          /\ keychain' = [keychain EXCEPT !.jobs = Append(@, job)]
      BY <1>1, <1>2, <1>4, <1>8 DEF FetchOnlineData, AccountFits
    <2>2. me \in Requests /\ me.kind = "Me" /\ me.user = r.user
          /\ me.generation = account.generation
      BY <1>4 DEF Requests
    <2>3. job \in KeychainJobs /\ job.kind # "Read"
      BY <1>4 DEF KeychainJobs, Tokens
    <2> HIDE DEF me, job
    <2>4. /\ account'.user = NoUser /\ account'.token = r.user /\ account'.login = "LoggingIn"
          /\ account'.tachi = "NotLoggedIn" /\ account'.generation = account.generation
      BY <1>1, <1>4, <1>5, <2>1 DEF AccountFits
    <2>5. account' \in [generation : 0..MaxSessions, login : LoginStates, tachi : LoginStates,
                        user : Tokens, token : Tokens]
      BY <1>1, <1>4, <2>1 DEF AccountFits, LoginStates, Tokens
    <2>6. OneRequestAtATime'
      BY <2>1, <2>2, <2>4 DEF OneRequestAtATime
    <2>7. /\ keychain' \in [stored : Tokens, jobs : Seq(KeychainJobs)]
          /\ \A i \in 2..Len(keychain'.jobs) : keychain'.jobs[i].kind # "Read"
          /\ Head(keychain'.jobs).kind = "Read" =>
                keychain.jobs # <<>> /\ Head(keychain'.jobs) = Head(keychain.jobs)
      BY <1>1, <2>1, <2>3, JobAppended
    <2>8. ReadIsFirst'
      BY <1>1, <1>4, <2>4, <2>7 DEF AccountFits, ReadIsFirst
    <2>9. AccountFits'
      BY <2>1, <2>2, <2>4, <2>5, <2>6, <2>7, <2>8 DEF AccountFits
    <2>10. QED BY <1>3, <1>7, <2>9, PartsNext
  <1>9. CASE ~ok
    <2>1. /\ account' = [account EXCEPT !.login = "LoginFailed"]
          /\ requests' = {} /\ keychain' = keychain
      BY <1>2, <1>4, <1>9
    <2>2. /\ account'.user = NoUser /\ account'.token = NoUser /\ account'.login = "LoginFailed"
          /\ account'.tachi = "NotLoggedIn" /\ account'.generation = account.generation
      BY <1>1, <1>4, <1>5, <2>1 DEF AccountFits
    <2>3. account' \in [generation : 0..MaxSessions, login : LoginStates, tachi : LoginStates,
                        user : Tokens, token : Tokens]
      BY <1>1, <2>1 DEF AccountFits, LoginStates
    <2>4. OneRequestAtATime'
      BY <2>1, <2>2 DEF OneRequestAtATime
    <2>5. ReadIsFirst'
      BY <1>1, <1>4, <2>1, <2>2 DEF AccountFits, ReadIsFirst
    <2>6. AccountFits'
      BY <1>1, <2>1, <2>2, <2>3, <2>4, <2>5 DEF AccountFits
    <2>7. QED BY <1>3, <1>7, <2>6, PartsNext
  <1>10. QED BY <1>8, <1>9

LEMMA MeAnsweredFits ==
    ASSUME IInv, NEW r \in requests, MeAnswered(r)
    PROVE  IInv'
  <1>1. AccountFits /\ DataFits /\ OpsFit
    BY Parts
  <1>2. PICK ok \in BOOLEAN :
          /\ Outcome(ok)
          /\ LET tachi == ok /\ r.user \in Linked
             IN  /\ account' = IF ok THEN [account EXCEPT !.login = "LoggedIn", !.user = r.user,
                                                !.tachi = IF tachi THEN "LoggingIn" ELSE @]
                               ELSE [account EXCEPT !.login = "LoginFailed"]
                 /\ requests' = (requests \ {r})
                       \cup (IF tachi THEN {[r EXCEPT !.kind = "Tachi"]} ELSE {})
    BY DEF MeAnswered
  <1>3. DataFits'
    BY <1>1, <1>2, OutcomeFits DEF MeAnswered, DataFits
  <1>4. /\ requests = {r} /\ account.user = NoUser /\ account.token = r.user
        /\ r.user \in Users /\ r.user # NoUser /\ r \in Requests
        /\ r.generation = account.generation
        /\ ~(keychain.jobs # <<>> /\ Head(keychain.jobs).kind = "Read"
             /\ account.generation = 0)
    BY <1>1, RequestOfSession, SyncAssumption DEF MeAnswered, Requests
  <1>5. account.tachi = "NotLoggedIn"
    BY <1>1, <1>4 DEF AccountFits, OneRequestAtATime
  <1>6. ops' = ops /\ work' = work /\ keychain' = keychain
    BY DEF MeAnswered
  \* No operation runs without a user, so the new user may be anybody.
  <1>7. OpsFit'
    BY <1>1, <1>4, <1>6 DEF OpsFit, OpFits
  <1>8. CASE ok
    <2> DEFINE tachi == IF r.user \in Linked THEN "LoggingIn" ELSE "NotLoggedIn"
               next == [r EXCEPT !.kind = "Tachi"]
    <2>1. account' = [account EXCEPT !.login = "LoggedIn", !.user = r.user, !.tachi = tachi]
      BY <1>2, <1>5, <1>8
    <2>2. requests' \subseteq {next}
      BY <1>2, <1>4
    <2>3. /\ next \in Requests /\ next.kind = "Tachi" /\ next.user = r.user
          /\ next.generation = account.generation
      BY <1>4 DEF Requests
    <2>4. tachi \in LoginStates
      BY DEF LoginStates
    <2> HIDE DEF tachi, next
    <2>5. account' \in [generation : 0..MaxSessions, login : LoginStates, tachi : LoginStates,
                        user : Tokens, token : Tokens]
      BY <1>1, <1>4, <2>1, <2>4 DEF AccountFits, LoginStates, Tokens
    <2>6. /\ account'.user = r.user /\ account'.token = r.user /\ account'.login = "LoggedIn"
          /\ account'.generation = account.generation
      BY <1>1, <1>4, <2>1 DEF AccountFits
    <2>7. OneRequestAtATime'
      BY <1>4, <2>2, <2>3, <2>6 DEF OneRequestAtATime
    <2>8. ReadIsFirst'
      BY <1>1, <1>4, <1>6, <2>6 DEF AccountFits, ReadIsFirst
    <2>9. AccountFits'
      BY <1>1, <1>4, <1>6, <2>2, <2>3, <2>5, <2>6, <2>7, <2>8 DEF AccountFits
    <2>10. QED BY <1>3, <1>7, <2>9, PartsNext
  <1>9. CASE ~ok
    <2>1. account' = [account EXCEPT !.login = "LoginFailed"] /\ requests' = {}
      BY <1>2, <1>4, <1>9
    <2>2. /\ account'.user = NoUser /\ account'.login = "LoginFailed"
          /\ account'.tachi = "NotLoggedIn" /\ account'.generation = account.generation
      BY <1>1, <1>4, <1>5, <2>1 DEF AccountFits
    <2>3. account' \in [generation : 0..MaxSessions, login : LoginStates, tachi : LoginStates,
                        user : Tokens, token : Tokens]
      BY <1>1, <2>1 DEF AccountFits, LoginStates
    <2>4. OneRequestAtATime'
      BY <2>1, <2>2 DEF OneRequestAtATime
    <2>5. ReadIsFirst'
      BY <1>1, <1>4, <1>6, <2>2 DEF AccountFits, ReadIsFirst
    <2>6. AccountFits'
      BY <1>1, <1>6, <2>1, <2>2, <2>3, <2>4, <2>5 DEF AccountFits
    <2>7. QED BY <1>3, <1>7, <2>6, PartsNext
  <1>10. QED BY <1>8, <1>9

LEMMA TachiAnsweredFits ==
    ASSUME IInv, NEW r \in requests, TachiAnswered(r)
    PROVE  IInv'
  <1>1. AccountFits /\ DataFits /\ OpsFit
    BY Parts
  <1>2. PICK ok \in BOOLEAN :
          Outcome(ok)
          /\ account' = [account EXCEPT !.tachi = IF ok THEN "LoggedIn" ELSE "LoginFailed"]
    BY DEF TachiAnswered
  <1>3. DataFits'
    BY <1>1, <1>2, OutcomeFits DEF TachiAnswered, DataFits
  <1>4. /\ account.user # NoUser
        /\ ~(keychain.jobs # <<>> /\ Head(keychain.jobs).kind = "Read"
             /\ account.generation = 0)
    BY <1>1, RequestOfSession DEF TachiAnswered
  <1>5. /\ requests' = requests \ {r} /\ keychain' = keychain /\ ops' = ops /\ work' = work
    BY DEF TachiAnswered
  <1>6. /\ account'.user = account.user /\ account'.token = account.token
        /\ account'.login = account.login /\ account'.generation = account.generation
    BY <1>1, <1>2 DEF AccountFits
  <1>7. account' \in [generation : 0..MaxSessions, login : LoginStates, tachi : LoginStates,
                      user : Tokens, token : Tokens]
    BY <1>1, <1>2 DEF AccountFits, LoginStates
  <1>8. OneRequestAtATime'
    BY <1>1, <1>4, <1>5, <1>6 DEF AccountFits, OneRequestAtATime
  <1>9. ReadIsFirst'
    BY <1>1, <1>4, <1>5, <1>6 DEF AccountFits, ReadIsFirst
  <1>10. AccountFits'
    BY <1>1, <1>5, <1>6, <1>7, <1>8, <1>9 DEF AccountFits
  <1>11. OpsFit'
    BY <1>1, <1>5, <1>6 DEF OpsFit
  <1>12. QED BY <1>3, <1>10, <1>11, PartsNext

LEMMA KeychainJobDoneFits ==
    ASSUME IInv, KeychainJobDone
    PROVE  IInv'
  <1>1. AccountFits /\ DataFits /\ OpsFit
    BY Parts
  <1> DEFINE jobs == keychain.jobs
             job == Head(jobs)
             stored == CASE job.kind = "Write" -> job.user
                         [] job.kind = "Delete" -> NoUser
                         [] OTHER -> keychain.stored
  <1>2. PICK ok \in BOOLEAN :
          /\ Outcome(ok)
          /\ keychain' = [stored |-> IF ok THEN stored ELSE keychain.stored,
                          jobs |-> Tail(jobs)]
          /\ IF ok /\ job.kind = "Read" /\ ReadInTime(job)
             THEN FetchOnlineData([account EXCEPT !.token = keychain.stored], requests)
             ELSE UNCHANGED <<account, requests>>
    BY DEF KeychainJobDone
  <1>3. DataFits'
    BY <1>1, <1>2, OutcomeFits DEF KeychainJobDone, DataFits
  <1>4. /\ jobs \in Seq(KeychainJobs) /\ jobs # <<>> /\ keychain.stored \in Tokens
        /\ \A i \in 2..Len(jobs) : jobs[i].kind # "Read"
    BY <1>1 DEF AccountFits, ReadIsFirst, KeychainJobDone
  <1>5. job \in KeychainJobs /\ Tail(jobs) \in Seq(KeychainJobs)
    BY <1>4
  <1>6. stored \in Tokens
    BY <1>4, <1>5 DEF KeychainJobs, Tokens
  <1>7. /\ keychain' \in [stored : Tokens, jobs : Seq(KeychainJobs)]
        /\ keychain'.jobs = Tail(jobs)
    <2> HIDE DEF jobs, stored
    <2>1. QED BY <1>2, <1>4, <1>5, <1>6
  <1>8. /\ \A i \in 1..Len(Tail(jobs)) : Tail(jobs)[i].kind # "Read"
        /\ Tail(jobs) # <<>> => Head(Tail(jobs)).kind # "Read"
    <2> HIDE DEF jobs
    <2>1. /\ Len(Tail(jobs)) = Len(jobs) - 1 /\ Len(jobs) \in Nat
          /\ \A i \in 1..Len(Tail(jobs)) : Tail(jobs)[i] = jobs[i + 1]
      BY <1>4
    <2>2. \A i \in 1..Len(Tail(jobs)) : Tail(jobs)[i].kind # "Read"
      BY <1>4, <2>1
    <2>3. Tail(jobs) # <<>> => Head(Tail(jobs)) = Tail(jobs)[1] /\ 1 \in 1..Len(Tail(jobs))
      BY <1>5
    <2>4. QED BY <2>2, <2>3
  <1>9. ReadIsFirst'
    <2> HIDE DEF jobs
    <2>1. \A i \in 2..Len(Tail(jobs)) : Tail(jobs)[i].kind # "Read"
      <3>1. Len(Tail(jobs)) \in Nat
        BY <1>5
      <3>2. QED BY <1>8, <3>1
    <2>2. QED BY <1>7, <1>8, <2>1 DEF ReadIsFirst
  <1>10. CASE ok /\ job.kind = "Read" /\ ReadInTime(job)
    <2>1. account = SignedOut(0) /\ requests = {} /\ keychain.stored \in Users
      BY <1>1, <1>4, <1>10 DEF AccountFits, ReadIsFirst, ReadInTime, Tokens
    <2> DEFINE me == [kind |-> "Me", user |-> keychain.stored, generation |-> 0]
    <2>2. /\ account' = [generation |-> 0, login |-> "LoggingIn", tachi |-> "NotLoggedIn",
                         user |-> NoUser, token |-> keychain.stored]
          /\ requests' = {me}
      BY <1>2, <1>10, <2>1 DEF FetchOnlineData, SignedOut
    <2>3. me \in Requests /\ me.kind = "Me" /\ me.user = keychain.stored /\ me.generation = 0
      BY <2>1 DEF Requests
    <2> HIDE DEF me
    <2>4. account' \in [generation : 0..MaxSessions, login : LoginStates, tachi : LoginStates,
                        user : Tokens, token : Tokens]
      BY <1>4, <2>2, SyncAssumption DEF LoginStates, Tokens
    <2>5. OneRequestAtATime'
      BY <2>2, <2>3 DEF OneRequestAtATime
    <2>6. AccountFits'
      BY <1>7, <1>9, <2>2, <2>3, <2>4, <2>5 DEF AccountFits
    <2>7. account'.user = account.user
      BY <2>1, <2>2 DEF SignedOut
    <2>8. OpsFit'
      BY <1>1, <2>7 DEF OpsFit, KeychainJobDone
    <2>9. QED BY <1>3, <2>6, <2>8, PartsNext
  <1>11. CASE ~(ok /\ job.kind = "Read" /\ ReadInTime(job))
    <2>1. UNCHANGED <<account, requests>>
      BY <1>2, <1>11
    <2>2. AccountFits'
      BY <1>1, <1>7, <1>9, <2>1 DEF AccountFits, OneRequestAtATime
    <2>3. OpsFit'
      BY <1>1, <2>1 DEF OpsFit, KeychainJobDone
    <2>4. QED BY <1>3, <2>2, <2>3, PartsNext
  <1>12. QED BY <1>10, <1>11

-----------------------------------------------------------------------------
(* Plays, and all steps together.                                          *)

LEMMA PlayFits ==
    ASSUME IInv, NEW i \in Scores, Play(i) \/ \E u \in Users : SubmissionArrives(u, i)
    PROVE  IInv'
  <1>1. AccountFits /\ DataFits /\ OpsFit
    BY Parts
  <1>2. UNCHANGED <<account, requests, keychain, ops, work, errors>>
    BY DEF Play, SubmissionArrives
  <1>3. account.login = "LoggedIn" => account.token \in Users
    BY <1>1 DEF AccountFits, Tokens
  <1>4. DataFits'
    <2>1. CASE Play(i)
      BY <2>1, <1>1, <1>3 DEF Play, DataFits
    <2>2. CASE \E u \in Users : SubmissionArrives(u, i)
      BY <2>2, <1>1 DEF SubmissionArrives, DataFits
    <2>3. QED BY <2>1, <2>2
  <1>5. AccountFits' /\ OpsFit'
    BY <1>1, <1>2, ElsewhereFits DEF OpsFit
  <1>6. QED BY <1>4, <1>5, PartsNext

LEMMA NextKeepsInv == IInv /\ [Next]_vars => IInv'
  <1>1. SUFFICES ASSUME IInv, [Next]_vars PROVE IInv'
    OBVIOUS
  <1>2. CASE \E u \in Users : Login(u)
    BY <1>1, <1>2, LoginFits
  <1>3. CASE Logout
    BY <1>1, <1>3, LogoutFits
  <1>4. CASE \E r \in requests : SignInAnswered(r) \/ MeAnswered(r) \/ TachiAnswered(r)
    BY <1>1, <1>4, SignInAnsweredFits, MeAnsweredFits, TachiAnsweredFits
  <1>5. CASE KeychainJobDone
    BY <1>1, <1>5, KeychainJobDoneFits
  <1>6. ASSUME NEW o \in Ops,
               \/ \E kind \in {"Upload", "Download"} : SyncScores(o, kind)
               \/ ImportBokutachiScores(o)
               \/ Discovery(o)
               \/ Cancel(o)
        PROVE  IInv'
    BY <1>1, <1>6, SyncScoresFits, ImportFits, FetchLocalGuidsFits, LocalGuidsHandledFits,
       ServerGuidsAnsweredFits, CancelFits DEF Discovery
  <1>7. ASSUME NEW o \in Ops, NEW i \in Items, Transfer(o, i) PROVE IInv'
    BY <1>1, <1>7, AnsweredFits, JobBeginsFits, JobEndsFits, JobHandledFits DEF Transfer
  <1>8. CASE \E i \in Scores : Play(i) \/ \E u \in Users : SubmissionArrives(u, i)
    BY <1>1, <1>8, PlayFits
  <1>9. CASE UNCHANGED vars
    <2>1. AccountFits /\ DataFits /\ OpsFit
      BY <1>1, Parts
    <2>2. UNCHANGED <<account, requests, keychain, ops, work, local, server, submitted, errors>>
      BY <1>9 DEF vars
    <2>3. AccountFits' /\ DataFits' /\ OpsFit'
      BY <2>1, <2>2, ElsewhereFits DEF DataFits, OpsFit
    <2>4. QED BY <2>3, PartsNext
  <1>10. QED BY <1>1, <1>2, <1>3, <1>4, <1>5, <1>6, <1>7, <1>8, <1>9 DEF Next

\* The invariant holds in every state of every behaviour of Profile and its
\* ScoreSyncOperations.
THEOREM InvariantHolds == Spec => []IInv
  <1>1. QED BY InitFits, NextKeepsInv, PTL DEF Spec

\* The session, the requests, the keychain and the operations keep their types, the
\* counts of ScoreSyncOperation never below zero.
THEOREM TypeCorrect == Spec => []TypeOK
  <1>1. IInv => TypeOK
    BY DEF IInv
  <1>2. QED BY <1>1, InvariantHolds, PTL

\* Whatever the number of accounts, sign-ins and operations, the session of Profile is
\* of one account, and ScoreSyncOperation asks and sends for no other.
THEOREM OneAccount == Spec => []SessionIsOneAccount
  <1>1. IInv => SessionIsOneAccount
    BY DEF IInv
  <1>2. QED BY <1>1, InvariantHolds, PTL

-----------------------------------------------------------------------------
(* The items of a transfer.                                                *)

\* The items that are somewhere on their way.
Held(row) == {i \in Items : row[i].at # "Nowhere"}

\* Where a transferred score is.
Target(op, loc, srv) ==
    IF op.kind = "Upload" /\ op.user # NoUser THEN srv[op.user] ELSE loc

\* Before the difference to the server is known nothing is to be transferred.
NotYet(op, row) ==
    /\ op.wanted = {} /\ op.pending = {} /\ op.done = 0 /\ op.active = 0
    /\ Held(row) = {}

\* Every wanted item is pending, on its way or done, and never two of these.
Sums(op, row) ==
    /\ Held(row) \cap op.pending = {} /\ Held(row) \cup op.pending \subseteq op.wanted
    /\ Cardinality(Held(row)) + Cardinality(op.pending) + op.done = Cardinality(op.wanted)
    /\ op.kind # "Bokutachi" =>
          op.active = Cardinality(Held(row)) /\ op.active <= Concurrency

\* Without an error, what is neither pending nor on its way has arrived; a download
\* whose result is posted has been saved.
Reached(op, row, loc, srv) ==
    /\ ~op.cancelled /\ op.errors = 0 =>
          \A i \in Scores : i \in op.wanted \ (Held(row) \cup op.pending) =>
                               i \in Target(op, loc, srv)
    /\ op.kind = "Download" => \A i \in Items : row[i].at = "Posted" => i \in loc

\* An operation that is over asks for nothing, and has nothing on its way unless it
\* was cancelled.
IsOver(op, row) ==
    /\ op.pending = {} /\ \A i \in Items : row[i].at # "Asked"
    /\ op.cancelled \/ Held(row) = {}

Whole(op, row, loc, srv) ==
    /\ op.stage # "Transfer" => NotYet(op, row)
    /\ op.stage = "Transfer" /\ ~op.finished => Sums(op, row)
    /\ op.finished => IsOver(op, row)
    /\ op.cancelled => op.finished
    /\ op.kind = "None" => ~op.finished
    /\ op.kind = "Bokutachi" => op.stage = "Transfer" /\ op.wanted \subseteq Games
    /\ Reached(op, row, loc, srv)

AllWhole == \A o \in Ops : Whole(ops[o], work[o], local, server)

WInv == IInv /\ AllWhole

\* Sets of items and their numbers.
LEMMA Numbers ==
    ASSUME NEW A \in SUBSET Items, NEW B \in SUBSET Items
    PROVE  /\ IsFiniteSet(A) /\ Cardinality(A) \in Nat
           /\ Cardinality(A) = 0 <=> A = {}
           /\ A \cap B = {} => Cardinality(A \cup B) = Cardinality(A) + Cardinality(B)
           /\ B \subseteq A => Cardinality(A \ B) = Cardinality(A) - Cardinality(B)
           /\ \A i \in A : Cardinality(A \ {i}) = Cardinality(A) - 1
  <1>1. IsFiniteSet(Items)
    BY SyncAssumption, FS_Union DEF Items
  <1>2. IsFiniteSet(A) /\ IsFiniteSet(B) /\ Cardinality(A) \in Nat
    BY <1>1, FS_Subset, FS_CardinalityType
  <1>3. Cardinality(A) = 0 <=> A = {}
    BY <1>2, FS_EmptySet
  <1>4. A \cap B = {} => Cardinality(A \cup B) = Cardinality(A) + Cardinality(B)
    <2>1. Cardinality(A \cup B) = Cardinality(A) + Cardinality(B) - Cardinality(A \cap B)
      BY <1>2, FS_Union
    <2>2. Cardinality(B) \in Nat
      BY <1>2, FS_CardinalityType
    <2>3. A \cap B = {} => Cardinality(A \cap B) = 0
      BY FS_EmptySet
    <2>4. QED BY <1>2, <2>1, <2>2, <2>3
  <1>5. B \subseteq A => Cardinality(A \ B) = Cardinality(A) - Cardinality(B)
    <2>1. Cardinality(A \ B) = Cardinality(A) - Cardinality(A \cap B)
      BY <1>2, FS_Difference
    <2>2. B \subseteq A => A \cap B = B
      OBVIOUS
    <2>3. QED BY <2>1, <2>2
  <1>6. \A i \in A : Cardinality(A \ {i}) = Cardinality(A) - 1
    BY <1>2, FS_RemoveElement
  <1>7. QED BY <1>2, <1>3, <1>4, <1>5, <1>6

\* What has arrived stays.
LEMMA WholeLater ==
    ASSUME NEW op \in OpStates, NEW row, NEW loc, NEW srv, NEW loc2, NEW srv2,
           Whole(op, row, loc, srv), loc \subseteq loc2,
           \A u \in Users : srv[u] \subseteq srv2[u]
    PROVE  Whole(op, row, loc2, srv2)
  <1>1. Target(op, loc, srv) \subseteq Target(op, loc2, srv2)
    BY DEF Target, OpStates, Tokens
  <1>2. Reached(op, row, loc2, srv2)
    BY <1>1 DEF Whole, Reached
  <1>3. QED BY <1>2 DEF Whole

\* One operation changes, and what has arrived stays.
LEMMA OneOpWhole ==
    ASSUME OpsFit, AllWhole, NEW o \in Ops, NEW op, NEW row,
           ops' = [ops EXCEPT ![o] = op], work' = [work EXCEPT ![o] = row],
           local \subseteq local', \A u \in Users : server[u] \subseteq server'[u],
           Whole(op, row, local', server')
    PROVE  AllWhole'
  <1>1. ASSUME NEW p \in Ops PROVE Whole(ops'[p], work'[p], local', server')
    <2>1. CASE p = o
      BY <2>1 DEF OpsFit
    <2>2. CASE p # o
      <3>1. ops'[p] = ops[p] /\ work'[p] = work[p] /\ ops[p] \in OpStates
        BY <2>2 DEF OpsFit
      <3>2. Whole(ops[p], work[p], local, server)
        BY DEF AllWhole
      <3>3. QED BY <3>1, <3>2, WholeLater
    <2>3. QED BY <2>1, <2>2
  <1>2. QED BY <1>1 DEF AllWhole

\* A step that no operation takes.
LEMMA NoOpWhole ==
    ASSUME OpsFit, AllWhole, UNCHANGED <<ops, work>>, local \subseteq local',
           \A u \in Users : server[u] \subseteq server'[u]
    PROVE  AllWhole'
  <1>1. \A p \in Ops : Whole(ops[p], work[p], local, server) /\ ops[p] \in OpStates
    BY DEF AllWhole, OpsFit
  <1>2. \A p \in Ops : Whole(ops[p], work[p], local', server')
    BY <1>1, WholeLater
  <1>3. QED BY <1>2 DEF AllWhole

LEMMA FinishSame ==
    ASSUME NEW op \in OpStates
    PROVE  LET d == Finish(op)
           IN  /\ d \in OpStates /\ d.finished /\ d.kind = op.kind /\ d.user = op.user
               /\ d.stage = op.stage /\ d.wanted = op.wanted /\ d.done = op.done
               /\ d.active = op.active /\ d.errors = op.errors /\ d.cancelled = op.cancelled
               /\ d.snapshot = op.snapshot
               /\ ~op.finished => d.pending = {}
               /\ op.finished => d = op
  BY DEF Finish, OpStates

LEMMA ReportErrorSame ==
    ASSUME NEW op \in OpStates
    PROVE  LET d == ReportError(op)
           IN  /\ d \in OpStates /\ d.finished = op.finished /\ d.kind = op.kind
               /\ d.user = op.user
               /\ d.stage = op.stage /\ d.wanted = op.wanted /\ d.done = op.done
               /\ d.active = op.active /\ d.pending = op.pending /\ d.cancelled = op.cancelled
               /\ d.snapshot = op.snapshot
               /\ ~op.finished => d.errors # 0
               /\ op.finished => d = op
  BY DEF ReportError, OpStates

LEMMA CancelSame ==
    ASSUME NEW op \in OpStates, op.kind # "None", ~op.finished
    PROVE  LET d == CancelOp(op)
           IN  /\ d \in OpStates /\ d.finished /\ d.cancelled /\ d.pending = {}
               /\ d.kind = op.kind /\ d.user = op.user
               /\ d.stage = op.stage /\ d.wanted = op.wanted /\ d.done = op.done
               /\ d.active = op.active /\ d.errors = op.errors
  BY DEF CancelOp, Finish, OpStates

\* A cancelled operation asks for nothing more.
LEMMA CancelWhole ==
    ASSUME NEW op \in OpStates, NEW row \in [Items -> Places], NEW loc, NEW srv,
           Whole(op, row, loc, srv),
           op.kind = "None" => \A i \in Items : row[i].at = "Nowhere"
    PROVE  Whole(CancelOp(op), AbortReplies(row), loc, srv)
  <1> DEFINE d == CancelOp(op)
             r == AbortReplies(row)
  <1>1. /\ \A i \in Items : r[i].at \in {"Nowhere", row[i].at} \ {"Asked"}
        /\ \A i \in Items : row[i].at # "Asked" => r[i] = row[i]
    BY DEF AbortReplies, Nowhere, Places
  <1> HIDE DEF r
  <1>2. Held(r) \subseteq Held(row)
    BY <1>1 DEF Held
  <1>3. CASE op.finished \/ op.kind = "None"
    <2>1. d = op
      BY <1>3 DEF CancelOp
    <2>2. \A i \in Items : row[i].at # "Asked"
      BY <1>3 DEF Whole, IsOver
    <2>3. Held(r) = Held(row) /\ \A i \in Items : r[i] = row[i]
      BY <1>1, <2>2 DEF Held
    <2> HIDE DEF d
    <2>4. Reached(d, r, loc, srv)
      BY <2>1, <2>3 DEF Whole, Reached
    <2>5. op.stage # "Transfer" => NotYet(d, r)
      BY <2>1, <2>3 DEF Whole, NotYet
    <2>6. op.finished => IsOver(d, r)
      BY <2>1, <2>3 DEF Whole, IsOver
    <2>7. op.stage = "Transfer" /\ ~op.finished => Sums(d, r)
      BY <2>1, <2>3 DEF Whole, Sums
    <2>8. QED BY <2>1, <2>4, <2>5, <2>6, <2>7 DEF Whole, d, r
  <1>4. CASE ~(op.finished \/ op.kind = "None")
    <2>1. /\ d \in OpStates /\ d.finished /\ d.cancelled /\ d.pending = {}
          /\ d.kind = op.kind /\ d.stage = op.stage /\ d.wanted = op.wanted
          /\ d.done = op.done /\ d.active = op.active
      BY <1>4, CancelSame
    <2> HIDE DEF d
    <2>2. op.stage # "Transfer" => NotYet(d, r)
      BY <1>2, <2>1 DEF Whole, NotYet
    <2>3. IsOver(d, r)
      BY <1>1, <2>1 DEF IsOver
    <2>4. \A i \in Items : r[i].at = "Posted" => row[i].at = "Posted"
      BY <1>1
    <2>5. Reached(d, r, loc, srv)
      BY <2>1, <2>4 DEF Whole, Reached
    <2>6. QED BY <1>4, <2>1, <2>2, <2>3, <2>5 DEF Whole, d, r
  <1>5. QED BY <1>3, <1>4

LEMMA CancelOpsWhole ==
    ASSUME OpsFit, AllWhole, CancelOps, UNCHANGED <<local, server>>
    PROVE  AllWhole'
  <1>1. ops' = [o \in Ops |-> CancelOp(ops[o])] /\ work' = [o \in Ops |-> AbortReplies(work[o])]
    BY DEF CancelOps
  <1>2. ASSUME NEW o \in Ops
        PROVE  Whole(CancelOp(ops[o]), AbortReplies(work[o]), local, server)
    <2>1. /\ ops[o] \in OpStates /\ work[o] \in [Items -> Places]
          /\ OpFits(account.user, ops[o], work[o]) /\ Whole(ops[o], work[o], local, server)
      BY DEF OpsFit, AllWhole
    <2>2. ops[o].kind = "None" => \A i \in Items : work[o][i].at = "Nowhere"
      BY <2>1 DEF OpFits
    <2>3. QED BY <2>1, <2>2, CancelWhole
  <1>3. QED BY <1>1, <1>2 DEF AllWhole

\* What is started leaves the list and takes a place.
LEMMA StartedWhole ==
    ASSUME NEW op \in OpStates, NEW row \in [Items -> Places], NEW loc, NEW srv,
           Whole(op, row, loc, srv), op.stage = "Transfer",
           NEW next \in SUBSET op.pending, Cardinality(next) <= Slots(op)
    PROVE  Whole([op EXCEPT !.pending = @ \ next, !.active = @ + Cardinality(next)],
                 [i \in Items |-> IF i \in next THEN Dispatched(op) ELSE row[i]], loc, srv)
  <1> DEFINE s == [op EXCEPT !.pending = @ \ next, !.active = @ + Cardinality(next)]
             p == [i \in Items |-> IF i \in next THEN Dispatched(op) ELSE row[i]]
  <1>1. op.pending \subseteq Items /\ op.active \in Nat /\ op.done \in Nat
        /\ op.wanted \subseteq Items
    BY DEF OpStates
  <1>2. next \in SUBSET Items /\ Cardinality(next) \in Nat
    BY <1>1, Numbers
  <1>3. /\ s.kind = op.kind /\ s.finished = op.finished /\ s.cancelled = op.cancelled
        /\ s.user = op.user /\ s.stage = op.stage /\ s.wanted = op.wanted
        /\ s.done = op.done /\ s.errors = op.errors
        /\ s.pending = op.pending \ next /\ s.active = op.active + Cardinality(next)
    BY DEF OpStates
  <1>4. Dispatched(op).at \in {"Pool", "Asked"}
    BY DEF Dispatched
  <1>5. \A i \in Items : p[i] = IF i \in next THEN Dispatched(op) ELSE row[i]
    OBVIOUS
  <1> HIDE DEF s, p
  <1>6. Held(p) = Held(row) \cup next
    BY <1>2, <1>4, <1>5 DEF Held
  <1>7. \A i \in Items : p[i].at = "Posted" => row[i].at = "Posted"
    BY <1>4, <1>5
  <1>8. Target(s, loc, srv) = Target(op, loc, srv)
    BY <1>3 DEF Target
  <1>9. Held(p) \cup s.pending = Held(row) \cup op.pending
    BY <1>3, <1>6
  <1>10. Reached(s, p, loc, srv)
    BY <1>3, <1>7, <1>8, <1>9 DEF Whole, Reached
  <1>11. op.finished => IsOver(s, p)
    <2>1. SUFFICES ASSUME op.finished PROVE IsOver(s, p)
      OBVIOUS
    <2>2. next = {} /\ op.pending = {}
      BY <2>1 DEF Whole, IsOver
    <2>3. \A i \in Items : p[i] = row[i]
      BY <1>5, <2>2
    <2>4. QED BY <1>3, <1>6, <2>1, <2>2, <2>3 DEF Whole, IsOver
  <1>12. ~op.finished => Sums(s, p)
    <2>1. SUFFICES ASSUME ~op.finished PROVE Sums(s, p)
      OBVIOUS
    <2>2. Sums(op, row)
      BY <2>1 DEF Whole
    <2>3. Held(row) \in SUBSET Items
      BY DEF Held
    <2>4. Held(row) \cap next = {}
      BY <2>2 DEF Sums
    <2>5. Cardinality(Held(p)) = Cardinality(Held(row)) + Cardinality(next)
      BY <1>2, <1>6, <2>3, <2>4, Numbers
    <2>6. Cardinality(s.pending) = Cardinality(op.pending) - Cardinality(next)
      BY <1>1, <1>2, <1>3, Numbers
    <2>7. /\ Cardinality(Held(row)) \in Nat /\ Cardinality(op.pending) \in Nat
          /\ Cardinality(op.wanted) \in Nat
      BY <1>1, <2>3, Numbers
    <2>8. Cardinality(Held(p)) + Cardinality(s.pending) + s.done = Cardinality(s.wanted)
      BY <1>1, <1>2, <1>3, <2>2, <2>5, <2>6, <2>7 DEF Sums
    <2>9. Held(p) \cap s.pending = {} /\ Held(p) \cup s.pending \subseteq s.wanted
      BY <1>3, <1>6, <2>2 DEF Sums
    <2>10. s.kind # "Bokutachi" => s.active = Cardinality(Held(p)) /\ s.active <= Concurrency
      BY <1>1, <1>2, <1>3, <2>2, <2>5, <2>7, SyncAssumption DEF Sums, Slots
    <2>11. QED BY <2>8, <2>9, <2>10 DEF Sums
  <1>13. Whole(s, p, loc, srv)
    BY <1>3, <1>10, <1>11, <1>12 DEF Whole
  <1>14. QED BY <1>13 DEF s, p

LEMMA StartNextWhole ==
    ASSUME OpsFit, AllWhole, NEW o \in Ops, NEW op \in OpStates, NEW row \in [Items -> Places],
           Whole(op, row, local', server'), op.stage = "Transfer", StartNext(o, op, row),
           local \subseteq local', \A u \in Users : server[u] \subseteq server'[u]
    PROVE  AllWhole'
  <1>1. PICK next \in SUBSET op.pending :
          /\ Cardinality(next) <= Slots(op)
          /\ ops' = [ops EXCEPT ![o] = [op EXCEPT !.pending = @ \ next,
                                                  !.active = @ + Cardinality(next)]]
          /\ work' = [work EXCEPT ![o] =
                          [i \in Items |-> IF i \in next THEN Dispatched(op) ELSE row[i]]]
    BY DEF StartNext
  <1> DEFINE s == [op EXCEPT !.pending = @ \ next, !.active = @ + Cardinality(next)]
             p == [i \in Items |-> IF i \in next THEN Dispatched(op) ELSE row[i]]
  <1>2. Whole(s, p, local', server')
    BY <1>1, StartedWhole
  <1>3. ops' = [ops EXCEPT ![o] = s] /\ work' = [work EXCEPT ![o] = p]
    BY <1>1
  <1> HIDE DEF s, p
  <1>4. QED BY <1>2, <1>3, OneOpWhole

\* Ended, of an operation whose items add up.
LEMMA EndedWhole ==
    ASSUME NEW op \in OpStates, NEW row \in [Items -> Places], NEW loc, NEW srv,
           op.stage = "Transfer", op.kind # "None", ~op.finished, ~op.cancelled,
           op.kind = "Bokutachi" => op.wanted \subseteq Games,
           Sums(op, row), Reached(op, row, loc, srv)
    PROVE  /\ Ended(op) \in OpStates /\ Whole(Ended(op), row, loc, srv)
           /\ Ended(op).stage = "Transfer"
  <1>1. CASE op.done # Cardinality(op.wanted)
    BY <1>1 DEF Ended, Whole
  <1>2. CASE op.done = Cardinality(op.wanted)
    <2> DEFINE d == Finish(op)
    <2>1. Ended(op) = d
      BY <1>2 DEF Ended
    <2>2. /\ d \in OpStates /\ d.finished /\ d.kind = op.kind /\ d.user = op.user
          /\ d.stage = op.stage /\ d.wanted = op.wanted /\ d.errors = op.errors
          /\ d.cancelled = op.cancelled /\ d.pending = {}
      BY FinishSame
    <2> HIDE DEF d
    <2>3. /\ Held(row) \in SUBSET Items /\ op.pending \in SUBSET Items /\ op.done \in Nat
      BY DEF OpStates, Held
    <2>4. Cardinality(Held(row)) = 0 /\ Cardinality(op.pending) = 0
      <3>1. Cardinality(Held(row)) \in Nat /\ Cardinality(op.pending) \in Nat
        BY <2>3, Numbers
      <3>2. QED BY <1>2, <2>3, <3>1 DEF Sums
    <2>5. Held(row) = {} /\ op.pending = {}
      BY <2>3, <2>4, Numbers
    <2>6. IsOver(d, row)
      <3>1. \A i \in Items : row[i].at # "Asked"
        BY <2>5 DEF Held
      <3>2. QED BY <2>2, <2>5, <3>1 DEF IsOver
    <2>7. Reached(d, row, loc, srv)
      BY <2>2, <2>5 DEF Reached, Target
    <2>8. Whole(d, row, loc, srv)
      BY <2>2, <2>6, <2>7 DEF Whole
    <2>9. QED BY <2>1, <2>2, <2>8
  <1>3. QED BY <1>1, <1>2

\* An item that is done leaves its place to the next one.
LEMMA IncrementWhole ==
    ASSUME OpsFit, AllWhole, NEW o \in Ops, NEW op \in OpStates, NEW row \in [Items -> Places],
           NEW i \in Items, row[i].at # "Nowhere", op.kind # "None", op.stage = "Transfer",
           ~op.finished => Sums(op, row) /\ ~op.cancelled,
           op.kind = "Bokutachi" => op.wanted \subseteq Games,
           op.finished => op.cancelled /\ op.pending = {},
           \A j \in Items : op.finished /\ j # i => row[j].at # "Asked",
           Reached(op, row, local', server'),
           i \in Scores /\ op.errors = 0 /\ ~op.finished => i \in Target(op, local', server'),
           Increment(o, op, [row EXCEPT ![i] = Nowhere]),
           local \subseteq local', \A u \in Users : server[u] \subseteq server'[u]
    PROVE  AllWhole'
  <1> DEFINE r == [row EXCEPT ![i] = Nowhere]
  <1>1. /\ r \in [Items -> Places] /\ r[i].at = "Nowhere"
        /\ \A j \in Items : j # i => r[j] = row[j]
    BY DEF Nowhere, Places, Tokens
  <1>2. Increment(o, op, r)
    OBVIOUS
  <1> HIDE DEF r
  <1>3. Held(r) = Held(row) \ {i} /\ i \in Held(row)
    BY <1>1 DEF Held
  <1>4. \A j \in Items : r[j].at = "Posted" => row[j].at = "Posted"
    BY <1>1
  <1>5. CASE op.finished
    <2>1. IsOver(op, r)
      BY <1>1, <1>5 DEF IsOver
    <2>2. Reached(op, r, local', server')
      BY <1>4, <1>5 DEF Reached
    <2>3. Whole(op, r, local', server')
      BY <1>5, <2>1, <2>2 DEF Whole
    <2>4. ops' = [ops EXCEPT ![o] = op] /\ work' = [work EXCEPT ![o] = r]
      BY <1>2, <1>5 DEF Increment
    <2>5. QED BY <2>3, <2>4, OneOpWhole
  <1>6. CASE ~op.finished
    <2> DEFINE d == Counted(op)
               active == IF op.active > 0 THEN op.active - 1 ELSE 0
    <2>1. op.active \in Nat /\ op.done \in Nat /\ op.done + 1 \in Nat /\ active \in Nat
      BY DEF OpStates
    <2>2. d = [op EXCEPT !.done = op.done + 1, !.active = active]
      BY DEF Counted
    <2> HIDE DEF d
    <2>3. d \in OpStates
      BY <2>1, <2>2, CountersFit
    <2>4. /\ d.kind = op.kind /\ d.finished = op.finished /\ d.cancelled = op.cancelled
          /\ d.user = op.user /\ d.stage = op.stage /\ d.wanted = op.wanted
          /\ d.errors = op.errors /\ d.pending = op.pending
          /\ d.done = op.done + 1 /\ d.active = active
      BY <2>2 DEF OpStates
    <2>5. Held(row) \in SUBSET Items /\ op.pending \in SUBSET Items /\ op.wanted \in SUBSET Items
      BY DEF OpStates, Held
    <2>6. /\ Cardinality(Held(r)) = Cardinality(Held(row)) - 1
          /\ Cardinality(Held(row)) \in Nat /\ Cardinality(op.pending) \in Nat
          /\ Cardinality(op.wanted) \in Nat
          /\ Cardinality(Held(row)) # 0
      <3>1. Held(row) # {}
        BY <1>3
      <3>2. Cardinality(Held(row)) \in Nat /\ Cardinality(Held(row)) # 0
        BY <2>5, <3>1, Numbers
      <3>3. Cardinality(op.pending) \in Nat /\ Cardinality(op.wanted) \in Nat
        BY <2>5, Numbers
      <3>4. Cardinality(Held(row) \ {i}) = Cardinality(Held(row)) - 1
        BY <1>3, <2>5, Numbers
      <3>5. QED BY <1>3, <3>2, <3>3, <3>4
    <2>7. Sums(op, row)
      BY <1>6
    <2>8. Cardinality(Held(r)) + Cardinality(d.pending) + d.done = Cardinality(d.wanted)
      BY <2>1, <2>4, <2>6, <2>7 DEF Sums
    <2>9. d.kind # "Bokutachi" => d.active = Cardinality(Held(r)) /\ d.active <= Concurrency
      BY <2>1, <2>4, <2>6, <2>7, SyncAssumption DEF Sums
    <2>10. Held(r) \cap d.pending = {} /\ Held(r) \cup d.pending \subseteq d.wanted
      BY <1>3, <2>4, <2>7 DEF Sums
    <2>11. Sums(d, r)
      BY <2>8, <2>9, <2>10 DEF Sums
    <2>12. Reached(d, r, local', server')
      <3>1. Target(d, local', server') = Target(op, local', server')
        BY <2>4 DEF Target
      <3>2. \A j \in Scores : j \in d.wanted \ (Held(r) \cup d.pending) =>
               j = i \/ j \in op.wanted \ (Held(row) \cup op.pending)
        BY <1>3, <2>4
      <3>3. QED BY <1>4, <1>6, <2>4, <3>1, <3>2 DEF Reached
    <2>13. Ended(d) \in OpStates /\ Whole(Ended(d), r, local', server')
           /\ Ended(d).stage = "Transfer"
      BY <1>1, <1>6, <2>3, <2>4, <2>11, <2>12, EndedWhole
    <2>14. StartNext(o, Ended(d), r)
      BY <1>2, <1>6 DEF Increment, d
    <2>15. QED BY <1>1, <2>13, <2>14, StartNextWhole
  <1>7. QED BY <1>5, <1>6

\* What every step knows of an operation before it.
LEMMA OpFacts ==
    ASSUME IInv, AllWhole, NEW o \in Ops
    PROVE  /\ OpsFit /\ AccountFits /\ DataFits
           /\ ops[o] \in OpStates /\ work[o] \in [Items -> Places]
           /\ OpFits(account.user, ops[o], work[o])
           /\ Whole(ops[o], work[o], local, server)
  BY Parts DEF OpsFit, AllWhole

\* Data that only grow.
LEMMA DataStay ==
    ASSUME UNCHANGED <<local, server>>
    PROVE  local \subseteq local' /\ \A u \in Users : server[u] \subseteq server'[u]
  OBVIOUS

LEMMA SetOpWhole ==
    ASSUME OpsFit, AllWhole, NEW o \in Ops, NEW op, SetOp(o, op),
           UNCHANGED <<local, server>>, Whole(op, work[o], local, server)
    PROVE  AllWhole'
  <1>1. ops' = [ops EXCEPT ![o] = op] /\ work' = [work EXCEPT ![o] = work[o]]
    BY DEF SetOp, OpsFit
  <1>2. Whole(op, work[o], local', server')
    OBVIOUS
  <1>3. QED BY <1>1, <1>2, DataStay, OneOpWhole

\* An operation that has not begun to transfer, or was over before it could.
LEMMA NotYetWhole ==
    ASSUME NEW op, NEW row, NEW loc, NEW srv, NotYet(op, row),
           op.stage # "Transfer" \/ op.finished,
           op.cancelled => op.finished, op.kind # "None",
           op.kind = "Bokutachi" => op.stage = "Transfer"
    PROVE  Whole(op, row, loc, srv)
  <1>1. \A i \in Items : row[i].at = "Nowhere"
    BY DEF NotYet, Held
  <1>2. IsOver(op, row)
    BY <1>1 DEF IsOver, NotYet
  <1>3. Reached(op, row, loc, srv)
    BY <1>1 DEF Reached, NotYet
  <1>4. QED BY <1>2, <1>3 DEF Whole, NotYet

-----------------------------------------------------------------------------
(* The steps again, with the items.                                        *)

LEMMA SyncScoresWhole ==
    ASSUME IInv, AllWhole, NEW o \in Ops, NEW kind \in {"Upload", "Download"},
           SyncScores(o, kind)
    PROVE  AllWhole'
  <1> DEFINE op == [ops[o] EXCEPT !.kind = kind, !.user = account.user]
  <1>1. /\ OpsFit /\ ops[o] \in OpStates /\ account.user \in Tokens
        /\ OpFits(account.user, ops[o], work[o]) /\ Whole(ops[o], work[o], local, server)
    BY OpFacts DEF AccountFits
  <1>2. ops[o].kind = "None" /\ UNCHANGED <<local, server>>
        /\ SetOp(o, IF account.user = NoUser THEN Finish(op) ELSE op)
    BY DEF SyncScores
  <1>3. ~ops[o].finished /\ ops[o].stage = "Local" /\ ~ops[o].cancelled
        /\ NotYet(ops[o], work[o])
    BY <1>1, <1>2 DEF OpFits, Whole
  <1>4. /\ op \in OpStates /\ op.kind = kind /\ op.stage = "Local" /\ ~op.cancelled
        /\ NotYet(op, work[o])
    <2>1. op \in OpStates
      BY <1>1, FieldsFit
    <2>2. /\ op.kind = kind /\ op.stage = ops[o].stage /\ op.cancelled = ops[o].cancelled
          /\ op.wanted = ops[o].wanted /\ op.pending = ops[o].pending
          /\ op.done = ops[o].done /\ op.active = ops[o].active
      BY <1>1 DEF OpStates
    <2>3. QED BY <1>3, <2>1, <2>2 DEF NotYet
  <1> HIDE DEF op
  <1>5. Whole(op, work[o], local, server)
    BY <1>4, NotYetWhole
  <1>6. Whole(Finish(op), work[o], local, server)
    <2>1. PICK d : d = Finish(op)
      OBVIOUS
    <2>2. /\ d.finished /\ d.kind = kind /\ d.stage = op.stage /\ d.wanted = op.wanted
          /\ d.done = op.done /\ d.active = op.active /\ d.pending = {}
      BY <1>4, <2>1, FinishSame DEF NotYet
    <2>3. NotYet(d, work[o])
      BY <1>4, <2>2 DEF NotYet
    <2>4. QED BY <1>4, <2>1, <2>2, <2>3, NotYetWhole
  <1>7. QED BY <1>1, <1>2, <1>5, <1>6, SetOpWhole

LEMMA ImportWhole ==
    ASSUME IInv, AllWhole, NEW o \in Ops, ImportBokutachiScores(o)
    PROVE  AllWhole'
  <1> DEFINE op == [ops[o] EXCEPT !.kind = "Bokutachi", !.user = account.user,
                                  !.stage = "Transfer"]
             started == [op EXCEPT !.wanted = Games]
             row == [i \in Items |-> [at |-> IF i \in Games THEN "Asked" ELSE "Nowhere",
                                      token |-> NoUser]]
  <1>1. /\ OpsFit /\ ops[o] \in OpStates /\ account.user \in Tokens
        /\ OpFits(account.user, ops[o], work[o]) /\ Whole(ops[o], work[o], local, server)
    BY OpFacts DEF AccountFits
  <1>2. /\ ops[o].kind = "None" /\ UNCHANGED <<local, server>>
        /\ account.tachi # "LoggedIn" => SetOp(o, Finish(op))
        /\ account.tachi = "LoggedIn" =>
              ops' = [ops EXCEPT ![o] = started] /\ work' = [work EXCEPT ![o] = row]
    BY DEF ImportBokutachiScores
  <1>3. ~ops[o].finished /\ ~ops[o].cancelled /\ NotYet(ops[o], work[o])
    BY <1>1, <1>2 DEF OpFits, Whole
  <1>4. /\ op \in OpStates /\ op.kind = "Bokutachi" /\ op.stage = "Transfer"
        /\ ~op.cancelled /\ ~op.finished /\ NotYet(op, work[o])
    <2>1. op \in OpStates
      BY <1>1, FieldsFit
    <2>2. /\ op.kind = "Bokutachi" /\ op.stage = "Transfer"
          /\ op.cancelled = ops[o].cancelled /\ op.finished = ops[o].finished
          /\ op.wanted = ops[o].wanted /\ op.pending = ops[o].pending
          /\ op.done = ops[o].done /\ op.active = ops[o].active
      BY <1>1 DEF OpStates
    <2>3. QED BY <1>3, <2>1, <2>2 DEF NotYet
  <1>5. Games \subseteq Items /\ Scores \cap Games = {} /\ Scores \subseteq Items
    BY SyncAssumption DEF Items
  <1> HIDE DEF op
  <1>6. CASE account.tachi # "LoggedIn"
    <2>1. PICK d : d = Finish(op)
      OBVIOUS
    <2>2. /\ d.finished /\ d.kind = op.kind /\ d.stage = op.stage /\ d.wanted = op.wanted
          /\ d.done = op.done /\ d.active = op.active /\ d.pending = {}
      BY <1>4, <2>1, FinishSame DEF NotYet
    <2>3. NotYet(d, work[o])
      BY <1>4, <2>2 DEF NotYet
    <2>4. Whole(d, work[o], local, server)
      BY <1>4, <2>2, <2>3, NotYetWhole
    <2>5. QED BY <1>1, <1>2, <1>6, <2>1, <2>4, SetOpWhole
  <1>7. CASE account.tachi = "LoggedIn"
    <2>1. /\ started.kind = op.kind /\ started.stage = op.stage /\ started.wanted = Games
          /\ started.cancelled = op.cancelled /\ started.finished = op.finished
          /\ started.pending = op.pending /\ started.done = op.done
      BY <1>4 DEF OpStates
    <2>2. \A i \in Items : row[i].at = IF i \in Games THEN "Asked" ELSE "Nowhere"
      OBVIOUS
    <2> HIDE DEF started, row
    <2>3. Held(row) = Games
      BY <1>5, <2>2 DEF Held
    <2>4. started.pending = {} /\ started.done = 0
      BY <1>4, <2>1 DEF NotYet
    <2>5. Sums(started, row)
      <3>1. Cardinality(Games) \in Nat /\ Cardinality({}) = 0
        BY <1>5, Numbers, FS_EmptySet
      <3>2. QED BY <1>4, <2>1, <2>3, <2>4, <3>1 DEF Sums
    <2>6. Reached(started, row, local', server')
      BY <1>4, <1>5, <2>1, <2>2 DEF Reached
    <2>7. Whole(started, row, local', server')
      BY <1>4, <2>1, <2>5, <2>6 DEF Whole
    <2>8. QED BY <1>1, <1>2, <1>7, <2>7, DataStay, OneOpWhole
  <1>8. QED BY <1>6, <1>7

LEMMA FetchLocalGuidsWhole ==
    ASSUME IInv, AllWhole, NEW o \in Ops, FetchLocalGuids(o)
    PROVE  AllWhole'
  <1>1. PICK ok \in BOOLEAN :
          SetOp(o, [ops[o] EXCEPT !.stage = IF ok THEN "LocalRead" ELSE "LocalFailed",
                                  !.snapshot = IF ok THEN local ELSE {}])
    BY DEF FetchLocalGuids
  <1> DEFINE op == [ops[o] EXCEPT !.stage = IF ok THEN "LocalRead" ELSE "LocalFailed",
                                  !.snapshot = IF ok THEN local ELSE {}]
  <1>2. /\ OpsFit /\ ops[o] \in OpStates /\ Whole(ops[o], work[o], local, server)
        /\ ops[o].stage = "Local" /\ ops[o].kind \in {"Upload", "Download"}
        /\ UNCHANGED <<local, server>>
    BY OpFacts DEF FetchLocalGuids
  <1>3. /\ op.stage # "Transfer" /\ op.kind = ops[o].kind
        /\ op.cancelled = ops[o].cancelled /\ op.finished = ops[o].finished
        /\ op.wanted = ops[o].wanted /\ op.pending = ops[o].pending
        /\ op.done = ops[o].done /\ op.active = ops[o].active
    BY <1>2 DEF OpStates
  <1>4. SetOp(o, op)
    BY <1>1
  <1> HIDE DEF op
  <1>5. NotYet(op, work[o])
    BY <1>2, <1>3 DEF Whole, NotYet
  <1>6. Whole(op, work[o], local, server)
    BY <1>2, <1>3, <1>5, NotYetWhole DEF Whole
  <1>7. QED BY <1>2, <1>4, <1>6, SetOpWhole

LEMMA LocalGuidsHandledWhole ==
    ASSUME IInv, AllWhole, NEW o \in Ops, LocalGuidsHandled(o)
    PROVE  AllWhole'
  <1> DEFINE over == Finish(ReportError(ops[o]))
  <1>1. /\ OpsFit /\ ops[o] \in OpStates /\ Whole(ops[o], work[o], local, server)
        /\ OpFits(account.user, ops[o], work[o])
        /\ ops[o].stage \in {"LocalRead", "LocalFailed"} /\ UNCHANGED <<local, server>>
        /\ \/ SetOp(o, [over EXCEPT !.stage = "Over"])
           \/ SetOp(o, [ops[o] EXCEPT !.stage = "Server"])
    BY OpFacts DEF LocalGuidsHandled
  <1>2. /\ over \in OpStates /\ over.finished /\ over.kind = ops[o].kind
        /\ over.wanted = ops[o].wanted /\ over.done = ops[o].done
        /\ over.active = ops[o].active /\ over.cancelled = ops[o].cancelled
        /\ over.pending \in {{}, ops[o].pending}
    <2>1. PICK e : e = ReportError(ops[o])
      OBVIOUS
    <2>2. /\ e \in OpStates /\ e.kind = ops[o].kind
          /\ e.wanted = ops[o].wanted /\ e.done = ops[o].done
          /\ e.active = ops[o].active /\ e.cancelled = ops[o].cancelled
          /\ e.pending = ops[o].pending
      BY <1>1, <2>1, ReportErrorSame
    <2>3. PICK d : d = Finish(e)
      OBVIOUS
    <2>4. /\ d \in OpStates /\ d.finished /\ d.kind = e.kind
          /\ d.wanted = e.wanted /\ d.done = e.done
          /\ d.active = e.active /\ d.cancelled = e.cancelled
          /\ d.pending \in {{}, e.pending}
      BY <2>2, <2>3, FinishSame
    <2>5. QED BY <2>1, <2>2, <2>3, <2>4
  <1> HIDE DEF over
  <1>3. /\ NotYet(ops[o], work[o]) /\ ops[o].kind \notin {"None", "Bokutachi"}
        /\ ops[o].cancelled => ops[o].finished
    BY <1>1 DEF Whole, OpFits
  <1>4. ASSUME NEW op \in {[over EXCEPT !.stage = "Over"], [ops[o] EXCEPT !.stage = "Server"]}
        PROVE  Whole(op, work[o], local, server)
    <2>1. /\ op.stage # "Transfer" /\ op.kind = ops[o].kind
          /\ op.cancelled = ops[o].cancelled
          /\ op.finished \/ op.finished = ops[o].finished
          /\ op.wanted = ops[o].wanted /\ op.pending \in {{}, ops[o].pending}
          /\ op.done = ops[o].done /\ op.active = ops[o].active
      BY <1>1, <1>2 DEF OpStates
    <2>2. NotYet(op, work[o])
      BY <1>3, <2>1 DEF NotYet
    <2>3. QED BY <1>3, <2>1, <2>2, NotYetWhole
  <1>5. QED BY <1>1, <1>4, SetOpWhole

LEMMA ServerGuidsAnsweredWhole ==
    ASSUME IInv, AllWhole, NEW o \in Ops, ServerGuidsAnswered(o)
    PROVE  AllWhole'
  <1> DEFINE difference == IF ops[o].kind = "Upload"
                           THEN ops[o].snapshot \ server[ops[o].user]
                           ELSE server[ops[o].user] \ ops[o].snapshot
  <1>1. /\ OpsFit /\ DataFits /\ ops[o] \in OpStates /\ work[o] \in [Items -> Places]
        /\ OpFits(account.user, ops[o], work[o]) /\ Whole(ops[o], work[o], local, server)
        /\ ops[o].stage = "Server" /\ ~ops[o].finished /\ UNCHANGED <<local, server>>
    BY OpFacts DEF ServerGuidsAnswered
  <1>2. \/ StartTransfer(o, difference)
        \/ SetOp(o, Finish(ReportError(ops[o])))
    BY DEF ServerGuidsAnswered
  <1>3. /\ NotYet(ops[o], work[o]) /\ ~ops[o].cancelled
        /\ ops[o].kind # "None" /\ ops[o].kind # "Bokutachi"
        /\ ops[o].user \in Users
    BY <1>1 DEF Whole, OpFits, OpStates, Tokens
  <1>4. difference \subseteq Scores
    BY <1>1, <1>3 DEF DataFits, OpStates
  <1> HIDE DEF difference
  <1>5. CASE StartTransfer(o, difference)
    <2> DEFINE op == [ops[o] EXCEPT !.stage = "Transfer", !.wanted = difference,
                                    !.pending = difference]
    <2>1. op \in OpStates
      BY <1>1, <1>4 DEF OpStates, Items
    <2>2. /\ op.stage = "Transfer" /\ op.wanted = difference /\ op.pending = difference
          /\ op.kind = ops[o].kind /\ op.finished = ops[o].finished
          /\ op.cancelled = ops[o].cancelled /\ op.done = ops[o].done
          /\ op.active = ops[o].active
      BY <1>1 DEF OpStates
    <2>3. StartNext(o, Ended(op), work[o])
      BY <1>5 DEF StartTransfer
    <2> HIDE DEF op
    <2>4. Held(work[o]) = {} /\ op.done = 0 /\ op.active = 0
      BY <1>3, <2>2 DEF NotYet
    <2>5. Sums(op, work[o])
      <3>1. Cardinality(difference) \in Nat /\ Cardinality({}) = 0
        BY <1>4, Numbers, FS_EmptySet DEF Items
      <3>2. QED BY <2>2, <2>4, <3>1, SyncAssumption DEF Sums
    <2>6. Reached(op, work[o], local', server')
      <3>1. \A i \in Items : work[o][i].at = "Nowhere"
        BY <2>4 DEF Held
      <3>2. QED BY <2>2, <3>1 DEF Reached
    <2>7. /\ Ended(op) \in OpStates /\ Whole(Ended(op), work[o], local', server')
          /\ Ended(op).stage = "Transfer"
      BY <1>1, <1>3, <2>1, <2>2, <2>5, <2>6, EndedWhole
    <2>8. QED BY <1>1, <2>3, <2>7, DataStay, StartNextWhole
  <1>6. CASE SetOp(o, Finish(ReportError(ops[o])))
    <2>1. PICK e : e = ReportError(ops[o])
      OBVIOUS
    <2>2. /\ e \in OpStates /\ e.kind = ops[o].kind
          /\ e.wanted = ops[o].wanted /\ e.done = ops[o].done
          /\ e.active = ops[o].active /\ e.cancelled = ops[o].cancelled
          /\ e.pending = ops[o].pending
      BY <1>1, <2>1, ReportErrorSame
    <2>3. PICK d : d = Finish(e)
      OBVIOUS
    <2>4. /\ d.finished /\ d.kind = e.kind
          /\ d.wanted = e.wanted /\ d.done = e.done
          /\ d.active = e.active /\ d.pending \in {{}, e.pending}
      BY <2>2, <2>3, FinishSame
    <2>5. NotYet(d, work[o]) /\ d.kind # "None" /\ d.kind # "Bokutachi"
      BY <1>3, <2>2, <2>4 DEF NotYet
    <2>6. Whole(d, work[o], local, server)
      BY <2>4, <2>5, NotYetWhole
    <2>7. QED BY <1>1, <1>6, <2>1, <2>3, <2>6, SetOpWhole
  <1>7. QED BY <1>2, <1>5, <1>6

\* An item moves from one place to another, or is dropped by a cancelled operation.
LEMMA PlaceWhole ==
    ASSUME OpsFit, AllWhole, NEW o \in Ops, NEW i \in Items, NEW place \in Places,
           work[o][i].at # "Nowhere",
           place.at = "Nowhere" => ops[o].cancelled,
           place.at = "Asked" => ~ops[o].finished,
           place.at = "Posted" /\ ops[o].kind = "Download" => i \in local',
           ops' = ops, work' = [work EXCEPT ![o] = [work[o] EXCEPT ![i] = place]],
           local \subseteq local', \A u \in Users : server[u] \subseteq server'[u]
    PROVE  AllWhole'
  <1> DEFINE op == ops[o]
             row == work[o]
             r == [row EXCEPT ![i] = place]
  <1>1. /\ op \in OpStates /\ row \in [Items -> Places]
        /\ Whole(op, row, local', server')
    <2>1. op \in OpStates /\ row \in [Items -> Places] /\ Whole(op, row, local, server)
      BY DEF OpsFit, AllWhole
    <2>2. QED BY <2>1, WholeLater
  <1>2. r[i] = place /\ \A j \in Items : j # i => r[j] = row[j]
    BY <1>1
  <1>3. ops' = [ops EXCEPT ![o] = op] /\ work' = [work EXCEPT ![o] = r]
    BY DEF OpsFit
  <1>4. row[i].at # "Nowhere" /\ (place.at = "Nowhere" => op.cancelled)
        /\ (place.at = "Asked" => ~op.finished)
        /\ (place.at = "Posted" /\ op.kind = "Download" => i \in local')
    OBVIOUS
  <1> HIDE DEF op, row, r
  <1>5. Held(r) \subseteq Held(row) /\ (~op.cancelled => Held(r) = Held(row)) /\ Held(row) # {}
    BY <1>2, <1>4 DEF Held
  <1>6. op.stage = "Transfer"
    BY <1>1, <1>5 DEF Whole, NotYet
  <1>7. ~op.finished => Sums(op, r)
    BY <1>1, <1>5, <1>6 DEF Whole, Sums
  <1>8. op.finished => IsOver(op, r)
    BY <1>1, <1>2, <1>4, <1>5 DEF Whole, IsOver
  <1>9. Reached(op, r, local', server')
    BY <1>1, <1>2, <1>4, <1>5 DEF Whole, Reached
  <1>10. Whole(op, r, local', server')
    BY <1>1, <1>6, <1>7, <1>8, <1>9 DEF Whole
  <1>11. QED BY <1>3, <1>10, OneOpWhole

\* An item of an operation under way is done.
LEMMA DoneWhole ==
    ASSUME IInv, AllWhole, NEW o \in Ops, NEW i \in Items, NEW op,
           work[o][i].at # "Nowhere", op \in {ops[o], ReportError(ops[o])},
           op = ops[o] /\ ~op.finished /\ op.errors = 0 /\ i \in Scores
              => i \in Target(op, local', server'),
           Increment(o, op, [work[o] EXCEPT ![i] = Nowhere]),
           local \subseteq local', \A u \in Users : server[u] \subseteq server'[u]
    PROVE  AllWhole'
  <1>1. /\ OpsFit /\ ops[o] \in OpStates /\ work[o] \in [Items -> Places]
        /\ OpFits(account.user, ops[o], work[o]) /\ Whole(ops[o], work[o], local', server')
    BY OpFacts, WholeLater
  <1>2. i \in Held(work[o])
    BY DEF Held
  <1>3. ops[o].stage = "Transfer" /\ ops[o].kind # "None"
    BY <1>1, <1>2 DEF Whole, NotYet, OpFits
  <1>4. PICK e : e = ReportError(ops[o])
    OBVIOUS
  <1>5. /\ e \in OpStates /\ e.finished = ops[o].finished /\ e.kind = ops[o].kind
        /\ e.user = ops[o].user /\ e.stage = ops[o].stage /\ e.wanted = ops[o].wanted
        /\ e.done = ops[o].done /\ e.active = ops[o].active /\ e.pending = ops[o].pending
        /\ e.cancelled = ops[o].cancelled /\ (~e.finished => e.errors # 0)
        /\ (e.finished => e = ops[o])
    BY <1>1, <1>4, ReportErrorSame
  <1>6. /\ op \in OpStates /\ op.finished = ops[o].finished /\ op.kind = ops[o].kind
        /\ op.user = ops[o].user /\ op.stage = ops[o].stage /\ op.wanted = ops[o].wanted
        /\ op.done = ops[o].done /\ op.active = ops[o].active /\ op.pending = ops[o].pending
        /\ op.cancelled = ops[o].cancelled
        /\ (op = ops[o] \/ (~op.finished /\ op.errors # 0))
    BY <1>1, <1>4, <1>5
  <1>7. ~op.finished => Sums(op, work[o]) /\ ~op.cancelled
    BY <1>1, <1>3, <1>6 DEF Whole, Sums
  <1>8. op.kind = "Bokutachi" => op.wanted \subseteq Games
    BY <1>1, <1>6 DEF Whole
  <1>9. op.finished => op.cancelled /\ op.pending = {}
                       /\ \A j \in Items : work[o][j].at # "Asked"
    BY <1>1, <1>2, <1>6 DEF Whole, IsOver
  <1>10. Reached(op, work[o], local', server')
    <2>1. CASE op = ops[o]
      BY <1>1, <2>1 DEF Whole
    <2>2. CASE ~op.finished /\ op.errors # 0
      BY <1>1, <1>6, <2>2 DEF Whole, Reached
    <2>3. QED BY <1>6, <2>1, <2>2
  <1>11. i \in Scores /\ op.errors = 0 /\ ~op.finished => i \in Target(op, local', server')
    BY <1>6
  <1>12. QED
    BY <1>1, <1>3, <1>6, <1>7, <1>8, <1>9, <1>10, <1>11, IncrementWhole

LEMMA AnsweredWhole ==
    ASSUME IInv, AllWhole, NEW o \in Ops, NEW i \in Items, Answered(o, i)
    PROVE  AllWhole'
  <1>1. PICK ok \in BOOLEAN :
          /\ IF ok /\ ops[o].kind # "Upload"
             THEN /\ work' = [work EXCEPT ![o][i] = [at |-> "Pool", token |-> NoUser]]
                  /\ UNCHANGED ops
             ELSE Increment(o, IF ok THEN ops[o] ELSE ReportError(ops[o]),
                            [work[o] EXCEPT ![i] = Nowhere])
          /\ server' = IF ok /\ ops[o].kind = "Upload" /\ work[o][i].token # NoUser
                       THEN [server EXCEPT ![work[o][i].token] = @ \cup {i}] ELSE server
    BY DEF Answered
  <1>2. /\ OpsFit /\ DataFits /\ ops[o] \in OpStates /\ work[o] \in [Items -> Places]
        /\ OpFits(account.user, ops[o], work[o]) /\ Whole(ops[o], work[o], local, server)
        /\ work[o][i].at = "Asked" /\ work[o][i].at # "Nowhere" /\ UNCHANGED local
    BY OpFacts DEF Answered
  <1>3. /\ local \subseteq local' /\ \A u \in Users : server[u] \subseteq server'[u]
    BY <1>1, <1>2 DEF DataFits
  <1>4. CASE ok /\ ops[o].kind # "Upload"
    <2> DEFINE place == [at |-> "Pool", token |-> NoUser]
    <2>1. place \in Places /\ place.at = "Pool"
      BY DEF Places, Tokens
    <2>2. ops' = ops /\ work' = [work EXCEPT ![o] = [work[o] EXCEPT ![i] = place]]
      BY <1>1, <1>2, <1>4 DEF OpsFit
    <2> HIDE DEF place
    <2>3. QED BY <1>2, <1>3, <2>1, <2>2, PlaceWhole
  <1>5. CASE ~(ok /\ ops[o].kind # "Upload")
    <2>1. PICK op : op = IF ok THEN ops[o] ELSE ReportError(ops[o])
      OBVIOUS
    <2>2. Increment(o, op, [work[o] EXCEPT ![i] = Nowhere]) /\ op \in {ops[o], ReportError(ops[o])}
      BY <1>1, <1>5, <2>1
    <2>3. op = ops[o] /\ ~op.finished /\ op.errors = 0 /\ i \in Scores
             => i \in Target(op, local', server')
      <3>1. SUFFICES ASSUME op = ops[o], ~op.finished, op.errors = 0, i \in Scores
                     PROVE  i \in Target(op, local', server')
        OBVIOUS
      <3>2. ok
        <4>1. PICK e : e = ReportError(ops[o])
          OBVIOUS
        <4>2. ~e.finished => e.errors # 0
          BY <1>2, <4>1, ReportErrorSame
        <4>3. QED BY <2>1, <3>1, <4>1, <4>2
      <3>3. ops[o].kind = "Upload" /\ ops[o].user \in Users /\ ops[o].user # NoUser
            /\ work[o][i].token = ops[o].user
        BY <1>2, <1>5, <3>1, <3>2, SyncAssumption DEF OpFits, OpStates, Tokens
      <3>4. server' = [server EXCEPT ![ops[o].user] = @ \cup {i}]
        BY <1>1, <3>2, <3>3
      <3>5. i \in server'[ops[o].user]
        BY <1>2, <3>3, <3>4 DEF DataFits
      <3>6. QED BY <3>1, <3>3, <3>5 DEF Target
    <2>4. QED BY ONLY IInv, AllWhole, o \in Ops, i \in Items, <1>2, <1>3, <2>2, <2>3, DoneWhole
  <1>6. QED BY <1>4, <1>5

LEMMA JobBeginsWhole ==
    ASSUME IInv, AllWhole, NEW o \in Ops, NEW i \in Items, JobBegins(o, i)
    PROVE  AllWhole'
  <1>1. /\ OpsFit /\ work[o] \in [Items -> Places] /\ work[o][i] \in Places
        /\ work[o][i].at # "Nowhere" /\ ops' = ops /\ UNCHANGED <<local, server>>
    BY OpFacts DEF JobBegins
  <1>2. PICK place : place = IF ops[o].cancelled THEN Nowhere ELSE [work[o][i] EXCEPT !.at = "Working"]
    OBVIOUS
  <1>3. /\ place \in Places /\ place.at \in {"Nowhere", "Working"}
        /\ place.at = "Nowhere" => ops[o].cancelled
    BY <1>1, <1>2 DEF Places, Nowhere, Tokens
  <1>4. work' = [work EXCEPT ![o] = [work[o] EXCEPT ![i] = place]]
    BY <1>1, <1>2 DEF JobBegins, OpsFit
  <1>5. QED BY ONLY AllWhole, o \in Ops, i \in Items, <1>1, <1>3, <1>4, DataStay, PlaceWhole

LEMMA JobEndsWhole ==
    ASSUME IInv, AllWhole, NEW o \in Ops, NEW i \in Items, JobEnds(o, i)
    PROVE  AllWhole'
  <1>1. /\ OpsFit /\ work[o] \in [Items -> Places] /\ work[o][i] \in Places
        /\ work[o][i].at # "Nowhere" /\ ops' = ops /\ UNCHANGED server
    BY OpFacts DEF JobEnds
  <1>2. PICK ok \in BOOLEAN :
          LET saved == ok /\ ~(ops[o].kind = "Download" /\ i \in local)
          IN  /\ work' = [work EXCEPT ![o][i].at = IF saved THEN "Posted" ELSE "Failed"]
              /\ local' = IF saved /\ ops[o].kind = "Download" THEN local \cup {i} ELSE local
    BY DEF JobEnds
  <1>3. PICK at \in {"Posted", "Failed"} :
          /\ work' = [work EXCEPT ![o][i].at = at]
          /\ at = "Posted" /\ ops[o].kind = "Download" => i \in local'
    BY <1>2
  <1>4. PICK place : place = [work[o][i] EXCEPT !.at = at]
    OBVIOUS
  <1>5. /\ place \in Places /\ place.at = at
    BY <1>1, <1>4 DEF Places
  <1>6. work' = [work EXCEPT ![o] = [work[o] EXCEPT ![i] = place]]
    BY <1>1, <1>3, <1>4 DEF OpsFit
  <1>7. local \subseteq local' /\ \A u \in Users : server[u] \subseteq server'[u]
    BY <1>1, <1>2
  <1>8. /\ place.at # "Nowhere" /\ place.at # "Asked"
        /\ place.at = "Posted" /\ ops[o].kind = "Download" => i \in local'
    BY <1>3, <1>5
  <1>9. QED BY ONLY AllWhole, o \in Ops, i \in Items, <1>1, <1>5, <1>6, <1>7, <1>8, PlaceWhole

LEMMA JobHandledWhole ==
    ASSUME IInv, AllWhole, NEW o \in Ops, NEW i \in Items, JobHandled(o, i)
    PROVE  AllWhole'
  <1>1. /\ OpsFit /\ AccountFits /\ ops[o] \in OpStates /\ work[o] \in [Items -> Places]
        /\ OpFits(account.user, ops[o], work[o]) /\ Whole(ops[o], work[o], local, server)
        /\ work[o][i].at \in {"Posted", "Failed"} /\ work[o][i].at # "Nowhere"
        /\ UNCHANGED <<local, server>>
    BY OpFacts DEF JobHandled
  <1>2. CASE work[o][i].at = "Posted" /\ MaySend(ops[o])
    <2>1. PICK place : place = [at |-> "Asked", token |-> account.token]
      OBVIOUS
    <2>2. place \in Places /\ place.at = "Asked" /\ ~ops[o].finished
      BY <1>1, <1>2, <2>1 DEF Places, AccountFits, MaySend
    <2>3. ops' = ops /\ work' = [work EXCEPT ![o] = [work[o] EXCEPT ![i] = place]]
      BY <1>1, <1>2, <2>1 DEF JobHandled, OpsFit
    <2>4. QED BY ONLY AllWhole, o \in Ops, i \in Items, <1>1, <2>2, <2>3, DataStay, PlaceWhole
  <1>3. CASE ~(work[o][i].at = "Posted" /\ MaySend(ops[o]))
    <2>1. PICK op : op = IF work[o][i].at = "Failed" THEN ReportError(ops[o]) ELSE ops[o]
      OBVIOUS
    <2>2. Increment(o, op, [work[o] EXCEPT ![i] = Nowhere]) /\ op \in {ops[o], ReportError(ops[o])}
      BY <1>3, <2>1 DEF JobHandled
    <2>3. op = ops[o] /\ ~op.finished /\ op.errors = 0 /\ i \in Scores
             => i \in Target(op, local', server')
      <3>1. SUFFICES ASSUME op = ops[o], ~op.finished, op.errors = 0, i \in Scores
                     PROVE  i \in Target(op, local', server')
        OBVIOUS
      <3>2. work[o][i].at = "Posted"
        <4>1. PICK e : e = ReportError(ops[o])
          OBVIOUS
        <4>2. ~e.finished => e.errors # 0
          BY <1>1, <4>1, ReportErrorSame
        <4>3. QED BY <1>1, <2>1, <3>1, <4>1, <4>2
      <3>3. ops[o].kind # "Upload"
        BY <1>3, <3>1, <3>2 DEF MaySend
      <3>4. ops[o].kind # "None" /\ ops[o].kind # "Bokutachi"
        <4>1. ops[o].kind # "None"
          BY <1>1 DEF OpFits
        <4>2. i \in Held(work[o]) /\ i \notin Games
          BY <1>1, <3>1, SyncAssumption DEF Held
        <4>3. ops[o].kind = "Bokutachi" => i \in ops[o].wanted /\ ops[o].wanted \subseteq Games
          BY <1>1, <3>1, <4>2 DEF Whole, Sums
        <4>4. QED BY <4>1, <4>2, <4>3
      <3>5. ops[o].kind = "Download"
        BY <1>1, <3>3, <3>4 DEF OpStates
      <3>6. i \in local'
        BY <1>1, <3>2, <3>5 DEF Whole, Reached
      <3>7. QED BY <3>1, <3>5, <3>6 DEF Target
    <2>4. QED BY ONLY IInv, AllWhole, o \in Ops, i \in Items, <1>1, <2>2, <2>3, DataStay, DoneWhole
  <1>4. QED BY <1>2, <1>3

LEMMA CancelStepWhole ==
    ASSUME IInv, AllWhole, NEW o \in Ops, Cancel(o)
    PROVE  AllWhole'
  <1>1. /\ OpsFit /\ ops[o] \in OpStates /\ work[o] \in [Items -> Places]
        /\ Whole(ops[o], work[o], local, server)
        /\ ops[o].kind # "None" /\ UNCHANGED <<local, server>>
    BY OpFacts DEF Cancel
  <1>2. Whole(CancelOp(ops[o]), AbortReplies(work[o]), local, server)
    BY <1>1, CancelWhole
  <1>3. PICK op, row : op = CancelOp(ops[o]) /\ row = AbortReplies(work[o])
    OBVIOUS
  <1>4. ops' = [ops EXCEPT ![o] = op] /\ work' = [work EXCEPT ![o] = row]
    BY <1>1, <1>3 DEF Cancel, OpsFit
  <1>5. Whole(op, row, local', server')
    BY <1>1, <1>2, <1>3
  <1>6. QED BY ONLY AllWhole, o \in Ops, <1>1, <1>4, <1>5, DataStay, OneOpWhole

LEMMA SessionStepWhole ==
    ASSUME IInv, AllWhole,
           \/ \E u \in Users : Login(u)
           \/ Logout
           \/ \E r \in requests : SignInAnswered(r) \/ MeAnswered(r) \/ TachiAnswered(r)
           \/ KeychainJobDone
    PROVE  AllWhole'
  <1>1. OpsFit
    BY Parts
  <1>2. CASE (\E u \in Users : Login(u)) \/ Logout
    <2>1. CancelOps /\ UNCHANGED <<local, server>>
      BY <1>2 DEF Login, Logout, InvalidateSession
    <2>2. QED BY <1>1, <2>1, CancelOpsWhole
  <1>3. CASE \/ \E r \in requests : SignInAnswered(r) \/ MeAnswered(r) \/ TachiAnswered(r)
             \/ KeychainJobDone
    <2>1. UNCHANGED <<ops, work, local, server>>
      BY <1>3 DEF SignInAnswered, MeAnswered, TachiAnswered, KeychainJobDone
    <2>2. QED BY <1>1, <2>1, NoOpWhole
  <1>4. QED BY <1>2, <1>3

LEMMA PlayWhole ==
    ASSUME IInv, AllWhole, NEW i \in Scores, Play(i) \/ \E u \in Users : SubmissionArrives(u, i)
    PROVE  AllWhole'
  <1>1. OpsFit /\ server \in [Users -> SUBSET Scores]
    BY Parts DEF DataFits
  <1>2. UNCHANGED <<ops, work>> /\ local \subseteq local'
    BY DEF Play, SubmissionArrives
  <1>3. \A u \in Users : server[u] \subseteq server'[u]
    BY <1>1 DEF Play, SubmissionArrives
  <1>4. QED BY <1>1, <1>2, <1>3, NoOpWhole

LEMMA InitWhole == Init => AllWhole
  <1>1. SUFFICES ASSUME Init, NEW o \in Ops
                 PROVE  Whole(ops[o], work[o], local, server)
    BY DEF AllWhole
  <1>2. ops[o] = NewOp /\ work[o] = [i \in Items |-> Nowhere]
    BY <1>1 DEF Init
  <1>3. \A i \in Items : work[o][i].at = "Nowhere"
    BY <1>2 DEF Nowhere
  <1>4. /\ ops[o].kind = "None" /\ ops[o].stage = "Local" /\ ~ops[o].finished
        /\ ~ops[o].cancelled
        /\ ops[o].wanted = {} /\ ops[o].pending = {} /\ ops[o].done = 0 /\ ops[o].active = 0
    BY <1>2 DEF NewOp
  <1>5. NotYet(ops[o], work[o])
    BY <1>3, <1>4 DEF NotYet, Held
  <1>6. Reached(ops[o], work[o], local, server)
    BY <1>3, <1>4 DEF Reached
  <1>7. QED BY <1>4, <1>5, <1>6 DEF Whole

LEMMA NextKeepsWhole == WInv /\ [Next]_vars => WInv'
  <1>1. SUFFICES ASSUME IInv, AllWhole, [Next]_vars PROVE AllWhole'
    BY NextKeepsInv DEF WInv
  <1>2. CASE \/ \E u \in Users : Login(u)
             \/ Logout
             \/ \E r \in requests : SignInAnswered(r) \/ MeAnswered(r) \/ TachiAnswered(r)
             \/ KeychainJobDone
    BY <1>1, <1>2, SessionStepWhole
  <1>3. ASSUME NEW o \in Ops,
               \/ \E kind \in {"Upload", "Download"} : SyncScores(o, kind)
               \/ ImportBokutachiScores(o)
               \/ Discovery(o)
               \/ Cancel(o)
        PROVE  AllWhole'
    BY <1>1, <1>3, SyncScoresWhole, ImportWhole, FetchLocalGuidsWhole, LocalGuidsHandledWhole,
       ServerGuidsAnsweredWhole, CancelStepWhole DEF Discovery
  <1>4. ASSUME NEW o \in Ops, NEW i \in Items, Transfer(o, i) PROVE AllWhole'
    BY <1>1, <1>4, AnsweredWhole, JobBeginsWhole, JobEndsWhole, JobHandledWhole DEF Transfer
  <1>5. CASE \E i \in Scores : Play(i) \/ \E u \in Users : SubmissionArrives(u, i)
    BY <1>1, <1>5, PlayWhole
  <1>6. CASE UNCHANGED vars
    BY <1>1, <1>6, Parts, NoOpWhole DEF vars
  <1>7. QED BY <1>1, <1>2, <1>3, <1>4, <1>5, <1>6 DEF Next

\* Every item of every transfer is accounted for in every state: pending, on its way,
\* or counted as done.
THEOREM TransfersAreWhole == Spec => []WInv
  <1>1. Init => WInv
    BY InitFits, InitWhole DEF WInv
  <1>2. QED BY <1>1, NextKeepsWhole, PTL DEF Spec

\* Whatever is cancelled, refused, answered late or finished by others, the counts of
\* ScoreSyncOperation add up, and one that ended by itself without an error has
\* transferred all it was to.
THEOREM TransfersSum == Spec => []TransfersAddUp
  <1>1. ASSUME WInv, NEW o \in Ops
        PROVE  LET op == ops[o] IN
               /\ op.stage = "Transfer" /\ ~op.finished =>
                     /\ Cardinality(Busy(o)) + Cardinality(op.pending) + op.done
                           = Cardinality(op.wanted)
                     /\ op.kind # "Bokutachi" =>
                           op.active = Cardinality(Busy(o)) /\ op.active <= Concurrency
               /\ op.finished =>
                     /\ op.pending = {} /\ \A i \in Items : work[o][i].at # "Asked"
                     /\ op.cancelled \/ Busy(o) = {}
               /\ op.finished /\ ~op.cancelled /\ op.errors = 0 =>
                     op.wanted \cap Scores \subseteq
                        (IF op.kind = "Upload" /\ op.user # NoUser THEN server[op.user]
                         ELSE local)
    <2>1. Whole(ops[o], work[o], local, server) /\ Busy(o) = Held(work[o])
      BY <1>1 DEF WInv, AllWhole, Busy, Held
    <2>2. ops[o].finished /\ ~ops[o].cancelled /\ ops[o].errors = 0 =>
             ops[o].wanted \cap Scores \subseteq Target(ops[o], local, server)
      BY <2>1 DEF Whole, IsOver, Reached
    <2>3. QED BY <2>1, <2>2 DEF Whole, Sums, IsOver, Target
  <1>2. WInv => TransfersAddUp
    BY <1>1 DEF TransfersAddUp
  <1>3. QED BY <1>2, TransfersAreWhole, PTL

=============================================================================
