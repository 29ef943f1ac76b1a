--------------------------- MODULE MCDeviceProofs ---------------------------
(***************************************************************************)
(* The theorems about the parts of a device hold of the composition that   *)
(* the runs check, for any bounds.                                         *)
(* Here too is the proof about the memo of the journal: every handle finds *)
(* in its memo what was folded into its snapshot, unless it is forgotten.  *)
(***************************************************************************)
EXTENDS MCDevice

-----------------------------------------------------------------------------
(* The composition moves one part at a time, and that part by its own      *)
(* steps.                                                                  *)

LEMMA RotationPart == MCSpec => Rotation!Spec
<1>1. MCInit => Rotation!Init
  BY DEF MCInit
<1>2. [MCNext]_allVars => [Rotation!Next]_(Rotation!vars)
  BY DEF MCNext, IntakeMoves, RotationMoves, BudgetMoves, ChainMoves, MemoMoves, GateMoves,
     HouseMoves, SessionMoves, JoinMoves, UpdateMoves, LoginMoves, allVars, rotationVars,
     Rotation!vars
<1> QED BY <1>1, <1>2, PTL DEF MCSpec, Rotation!Spec

(* The change of the family key is one step of AtomicRotation, wherever    *)
(* another attempt, a sweep, a cancellation, a lost answer or a lost row   *)
(* comes between its requests (performRotation, rotateFamilyKey).          *)
THEOREM DeviceRotationIsAtomic == MCSpec => RotationIsAtomic
  BY PartsAssumption, RotationPart, Rotation!RotationAtomic DEF RotationIsAtomic

(* Without a person's consent no rotation comes into force with fewer      *)
(* operations than its device had seen numbers (rotation.ts 365 to 416).   *)
THEOREM DeviceCutsAreConsented == MCSpec => CutsAreConsented
  BY PartsAssumption, RotationPart, Rotation!RotationConsented DEF CutsAreConsented

LEMMA IntakePart == MCSpec => Spec
<1>1. MCInit => Init
  BY DEF MCInit
<1>2. [MCNext]_allVars => [Next]_vars
  BY DEF MCNext, IntakeMoves, RotationMoves, BudgetMoves, ChainMoves, MemoMoves, GateMoves,
     HouseMoves, SessionMoves, JoinMoves, UpdateMoves, LoginMoves, allVars, intakeVars
<1> QED BY <1>1, <1>2, PTL DEF MCSpec, Spec

(* So it is for the devices that the composition runs.                     *)
THEOREM DeviceSkipsNothing == MCSpec => []NothingSkipped
  BY IntakePart, IntakeNothingSkipped, PTL

(* No checkpoint of a family whose list is whole raises an alarm, and none *)
(* over rows that a device never read goes unnoticed (checkpoint.ts,       *)
(* intake.ts), for any pages, numbers of devices and marks in the list.    *)
THEOREM DeviceAlarmsAreRight == MCSpec => []AlarmsAreRight
<1>1. NoFalseAlarm /\ LossReported => AlarmsAreRight
  BY DEF AlarmsAreRight
<1> QED BY <1>1, IntakePart, IntakeAlarmsRight, PTL

-----------------------------------------------------------------------------
(* Session and Login.                                                      *)

LEMMA SessionPart == MCSpec => Signed!Spec
<1>1. MCInit => Signed!Init
  BY DEF MCInit
<1>2. [MCNext]_allVars => [Signed!Next]_(Signed!vars)
  BY DEF MCNext, IntakeMoves, RotationMoves, BudgetMoves, ChainMoves, MemoMoves, GateMoves,
     HouseMoves, SessionMoves, JoinMoves, UpdateMoves, LoginMoves, allVars, sessionVars,
     Signed!vars
<1> QED BY <1>1, <1>2, PTL DEF MCSpec, Signed!Spec

(* The login part, and both parts together: a session goes on, and what a  *)
(* sign-in opens it opens on its own proof and while it lasts.             *)
LEMMA LoginPart == MCSpec => Signing!Spec
<1>1. MCInit => Signing!Init
  BY DEF MCInit
<1>2. [MCNext]_allVars => [Signing!Next]_(Signing!vars)
  BY DEF MCNext, IntakeMoves, RotationMoves, BudgetMoves, ChainMoves, MemoMoves, GateMoves,
     HouseMoves, SessionMoves, JoinMoves, UpdateMoves, LoginMoves, allVars, loginVars,
     Signing!vars
<1> QED BY <1>1, <1>2, PTL DEF MCSpec, Signing!Spec

(* No device is signed out for no reason (controller.ts 842 to 912), and   *)
(* no right is there without its proof, for any number of devices, codes,  *)
(* attempts and pairs (routes/auth.ts, account.ts, context.ts).            *)
THEOREM DeviceSessionsAreSound == MCSpec => []SessionsAreSound
<1>1. MCSpec => []Signing!AccessIsProven
  BY PartsAssumption, LoginPart, Signing!SignInIsProven, PTL
<1>2. Signed!SessionGoesOn /\ Signing!AccessIsProven => SessionsAreSound
  BY DEF SessionsAreSound
<1> QED BY <1>1, <1>2, SessionPart, SignedInGoesOn, PTL

-----------------------------------------------------------------------------
(* What the person enters, in both parts that may lose it.                 *)

LEMMA BudgetPart == MCSpec => Budget!Spec
<1>1. MCInit => Budget!Init
  BY DEF MCInit
<1>2. [MCNext]_allVars => [Budget!Next]_(Budget!vars)
  BY DEF MCNext, IntakeMoves, RotationMoves, BudgetMoves, ChainMoves, MemoMoves, GateMoves,
     HouseMoves, SessionMoves, JoinMoves, UpdateMoves, LoginMoves, allVars, budgetVars,
     Budget!vars
<1> QED BY <1>1, <1>2, PTL DEF MCSpec, Budget!Spec

(* The page is there only where its part is run.                           *)
LEMMA UpdatePart == MCSpec => [](part = "update" => UpdateInvariant)
<1>1. MCInit => (part = "update" => UpdateInvariant)
  BY UpdateStarts DEF MCInit
<1>2. ASSUME part = "update" => UpdateInvariant, [MCNext]_allVars
      PROVE  (part = "update" => UpdateInvariant)'
  <2>1. CASE UpdateMoves
    BY <1>2, <2>1, UpdateStep DEF UpdateMoves
  <2>2. CASE \/ IntakeMoves \/ RotationMoves \/ BudgetMoves \/ ChainMoves \/ MemoMoves \/ GateMoves
             \/ HouseMoves \/ SessionMoves \/ JoinMoves \/ LoginMoves
    BY <2>2 DEF IntakeMoves, RotationMoves, BudgetMoves, ChainMoves, MemoMoves, GateMoves,
       HouseMoves, SessionMoves, JoinMoves, LoginMoves
  <2>3. CASE UNCHANGED allVars
    <3>1. UNCHANGED <<part, policy, prompt, page>>
      BY <2>3 DEF allVars, updateVars
    <3> QED BY <1>2, <3>1 DEF UpdateInvariant
  <2> QED BY <1>2, <2>1, <2>2, <2>3 DEF MCNext
<1> QED BY <1>1, <1>2, PTL DEF MCSpec

(* What was reported saved is in the document, a screen with the           *)
(* document's revision shows the document, and no update takes over a      *)
(* draft, wherever two tabs write, a family is founded, joined or left and *)
(* deliveries are folded in meanwhile.                                     *)
THEOREM DeviceKeepsWhatIsEntered == MCSpec => []EnteredIsKept
<1>1. Budget!Spec => [](Budget!SavedIsKept /\ Budget!ShownIsStored)
  BY StoreKeepsSaved, StoreShowsStored, PTL
<1>2. (Budget!SavedIsKept /\ Budget!ShownIsStored) /\ (part = "update" => UpdateInvariant)
        => EnteredIsKept
  BY InputOutlasts DEF EnteredIsKept
<1> QED BY <1>1, <1>2, BudgetPart, UpdatePart, PTL

-----------------------------------------------------------------------------
(* Joining.                                                                *)

(* Whoever joins is vouched for in both directions, wherever the owner's   *)
(* page restarts, an answer is lost, the key changes or the owner goes.    *)
THEOREM DeviceJoinersAreVouchedFor == MCSpec => []JoinersAreVouchedFor
<1>1. JoinInvariant => JoinersAreVouchedFor
  BY JoinedWell DEF JoinersAreVouchedFor
<1>2. MCInit => Joins!Init
  BY DEF MCInit
<1>3. [MCNext]_allVars => [Joins!Next]_(Joins!vars)
  BY DEF MCNext, IntakeMoves, RotationMoves, BudgetMoves, ChainMoves, MemoMoves, GateMoves,
     HouseMoves, SessionMoves, JoinMoves, UpdateMoves, LoginMoves, allVars, joinVars,
     Joins!vars
<1> QED BY <1>1, <1>2, <1>3, JoinInvariantHolds, PTL DEF MCSpec, Joins!Spec

-----------------------------------------------------------------------------
(* The chain of epochs.                                                    *)

(* A device comes to a new key along confirmed links, over gaps, and aloud *)
(* where that fails, whoever changes the key and whatever of the server's  *)
(* rows is harmed (epoch-chain.ts, epoch-intake.ts).                       *)
THEOREM DeviceEpochsAreConfirmed == MCSpec => []EpochsAreConfirmed
<1>1. MCInit => Chain!Init
  BY DEF MCInit
<1>2. [MCNext]_allVars => [Chain!Next]_(Chain!vars)
  BY DEF MCNext, IntakeMoves, RotationMoves, BudgetMoves, ChainMoves, MemoMoves, GateMoves,
     HouseMoves, SessionMoves, JoinMoves, UpdateMoves, LoginMoves, allVars, chainVars,
     Chain!vars
<1>3. Chain!EpochsAreConfirmed => EpochsAreConfirmed
  BY DEF EpochsAreConfirmed
<1> QED BY <1>1, <1>2, <1>3, EpochsConfirmed, PTL DEF MCSpec, Chain!Spec

-----------------------------------------------------------------------------
(* The memo of the journal.                                                *)

LEMMA MemoLimits ==
  /\ Entry \subseteq Nat \ {0} /\ Activation \subseteq Nat \ {0} /\ Entry \cap Activation = {}
  /\ {MaxSnapshots, MaxUndo, UndoTrim, MaxApplied, AppliedTrim} \subseteq Nat
  /\ MaxSnapshots > 0
BY PartsAssumption DEF Memo!Bounds

(* What an undo log takes back, from the first of its steps on.            *)
IsUndone(f, held, undo, n) ==
  f = [k \in 0 .. n |->
         IF k = 0 THEN held
         ELSE LET step == undo[Len(undo) + 1 - k]
              IN [f[k - 1] EXCEPT ![step.index] = step.previous]]

Undone(held, undo) == CHOOSE f : IsUndone(f, held, undo, Len(undo))

LEMMA UndoneExists ==
  ASSUME NEW held, NEW undo, NEW n \in Nat
  PROVE  \E f : IsUndone(f, held, undo, n)
<1> DEFINE S == {m \in 0 .. n : \E f : IsUndone(f, held, undo, m)}
           Back(g, k) == LET step == undo[Len(undo) + 1 - k]
                         IN [g EXCEPT ![step.index] = step.previous]
<1> HIDE DEF Back
<1>0. ASSUME NEW f, NEW m \in Nat
      PROVE  IsUndone(f, held, undo, m) <=>
               f = [k \in 0 .. m |-> IF k = 0 THEN held ELSE Back(f[k - 1], k)]
  BY DEF IsUndone, Back
<1>1. ASSUME NEW m \in 0 .. n, \A j \in 0 .. (m - 1) : j \in S PROVE m \in S
  <2>1. CASE m = 0
    <3> DEFINE f == [e \in 0 .. 0 |-> held]
    <3>1. f = [k \in 0 .. 0 |-> IF k = 0 THEN held ELSE Back(f[k - 1], k)]
      OBVIOUS
    <3>2. IsUndone(f, held, undo, 0)
      BY <1>0, <3>1
    <3> QED BY <2>1, <3>2
  <2>2. CASE m # 0
    <3>1. m - 1 \in 0 .. (m - 1) /\ m - 1 \in 0 .. n /\ m \in Nat /\ m - 1 \in Nat
      BY <2>2
    <3>2. PICK f : IsUndone(f, held, undo, m - 1)
      BY <1>1, <3>1
    <3>3. f = [k \in 0 .. (m - 1) |-> IF k = 0 THEN held ELSE Back(f[k - 1], k)]
      BY <1>0, <3>1, <3>2
    <3> DEFINE g == [e \in 0 .. m |-> IF e = m THEN Back(f[m - 1], m) ELSE f[e]]
    <3>4. ASSUME NEW e \in 0 .. m
          PROVE  g[e] = IF e = 0 THEN held ELSE Back(g[e - 1], e)
      <4>1. CASE e = m
        <5>1. m - 1 \in 0 .. m /\ m - 1 # m
          BY <3>1
        <5> QED BY <2>2, <4>1, <5>1
      <4>2. CASE e # m
        <5>1. e \in 0 .. (m - 1) /\ e \in 0 .. m
          BY <3>1, <4>2
        <5>2. e # 0 => e - 1 \in 0 .. m /\ e - 1 # m
          BY <3>1, <5>1
        <5>3. f[e] = IF e = 0 THEN held ELSE Back(f[e - 1], e)
          BY <3>3, <5>1
        <5>4. g[e] = f[e] /\ (e # 0 => g[e - 1] = f[e - 1])
          BY <4>2, <5>1, <5>2
        <5> QED BY <5>3, <5>4
      <4> QED BY <4>1, <4>2
    <3>5. g = [e \in 0 .. m |-> IF e = 0 THEN held ELSE Back(g[e - 1], e)]
      BY <3>4
    <3>6. IsUndone(g, held, undo, m)
      BY <1>0, <3>1, <3>5
    <3> QED BY <3>6
  <2> QED BY <2>1, <2>2
<1> HIDE DEF S
<1>2. \A m \in 0 .. n : m \in S
  BY <1>1, EveryNumber
<1>3. n \in S
  BY <1>2
<1> QED BY <1>3 DEF S

StepType == [index : Memo!Index, previous : Nat]

LEMMA UndoneUnfolds ==
  ASSUME NEW held, NEW undo \in Seq(StepType)
  PROVE  /\ Undone(held, undo)[0] = held
         /\ \A k \in 1 .. Len(undo) : Undone(held, undo)[k] =
              [Undone(held, undo)[k - 1] EXCEPT ![undo[Len(undo) + 1 - k].index] =
                                                   undo[Len(undo) + 1 - k].previous]
<1> DEFINE F == Undone(held, undo)
<1>1. IsUndone(F, held, undo, Len(undo))
  BY UndoneExists DEF Undone
<1>2. F = [k \in 0 .. Len(undo) |->
         IF k = 0 THEN held
         ELSE LET step == undo[Len(undo) + 1 - k]
              IN [F[k - 1] EXCEPT ![step.index] = step.previous]]
  BY <1>1 DEF IsUndone
<1> HIDE DEF F
<1>3. F[0] = held
  BY <1>2
<1>4. \A k \in 1 .. Len(undo) :
        F[k] = [F[k - 1] EXCEPT ![undo[Len(undo) + 1 - k].index] = undo[Len(undo) + 1 - k].previous]
  <2> TAKE k \in 1 .. Len(undo)
  <2>1. k \in 0 .. Len(undo) /\ k # 0
    OBVIOUS
  <2> QED BY <1>2, <2>1
<1> QED BY <1>3, <1>4 DEF F

(* So a handle's view is found there.                                      *)
LEMMA RewoundIs ==
  ASSUME NEW h
  PROVE  Memo!Rewound(h) = LET m == memo[h.memo]
                      IN Undone(m.held, m.undo)[m.undoBase + Len(m.undo) - h.undoCount]
BY DEF Memo!Rewound, Undone, IsUndone

LEMMA UndoneType ==
  ASSUME NEW held \in [Memo!Index -> Nat], NEW undo \in Seq(StepType)
  PROVE  \A k \in 0 .. Len(undo) : Undone(held, undo)[k] \in [Memo!Index -> Nat]
<1> DEFINE F == Undone(held, undo)
           S == {k \in 0 .. Len(undo) : F[k] \in [Memo!Index -> Nat]}
<1>1. ASSUME NEW k \in 0 .. Len(undo), \A j \in 0 .. (k - 1) : j \in S PROVE k \in S
  <2>1. CASE k = 0
    BY <2>1, UndoneUnfolds
  <2>2. CASE k # 0
    <3>1. k \in 1 .. Len(undo) /\ k - 1 \in 0 .. (k - 1)
      BY <2>2
    <3> DEFINE step == undo[Len(undo) + 1 - k]
    <3>2. F[k] = [F[k - 1] EXCEPT ![step.index] = step.previous]
      BY <3>1, UndoneUnfolds
    <3>3. step \in StepType
      BY <3>1
    <3>4. F[k - 1] \in [Memo!Index -> Nat]
      BY <1>1, <3>1
    <3> HIDE DEF F, step
    <3> QED BY <3>2, <3>3, <3>4 DEF StepType
  <2> QED BY <2>1, <2>2
<1> HIDE DEF S
<1>2. \A k \in 0 .. Len(undo) : k \in S
  <2>1. Len(undo) \in Nat
    OBVIOUS
  <2> QED BY <1>1, <2>1, EveryNumber
<1> QED BY <1>2 DEF S

(* A step recorded is a step that is taken back first.                     *)
Recorded(longer, undo, step) ==
  /\ Len(longer) = Len(undo) + 1 /\ longer[Len(undo) + 1] = step
  /\ \A i \in 1 .. Len(undo) : longer[i] = undo[i]

TakenBack(held, step) == [held EXCEPT ![step.index] = step.previous]

LEMMA UndoneAppend ==
  ASSUME NEW held \in [Memo!Index -> Nat], NEW undo \in Seq(StepType), NEW first \in StepType,
         NEW longer \in Seq(StepType), Recorded(longer, undo, first),
         NEW after
  PROVE  TakenBack(after, first) = held =>
           \A k \in 0 .. Len(undo) : Undone(after, longer)[k + 1] = Undone(held, undo)[k]
<1> DEFINE F == Undone(held, undo)
           G == Undone(after, longer)
           S == {k \in 0 .. Len(undo) : G[k + 1] = F[k]}
<1>0. /\ Len(longer) = Len(undo) + 1 /\ Len(undo) \in Nat
      /\ longer[Len(undo) + 1] = first
      /\ \A i \in 1 .. Len(undo) : longer[i] = undo[i]
  BY DEF Recorded
<1>f. \A k \in 1 .. Len(undo) :
        F[k] = [F[k - 1] EXCEPT ![undo[Len(undo) + 1 - k].index] = undo[Len(undo) + 1 - k].previous]
  <2>1. \A u \in Seq(StepType) : \A k \in 1 .. Len(u) :
          Undone(held, u)[k] = [Undone(held, u)[k - 1] EXCEPT ![u[Len(u) + 1 - k].index] =
                                   u[Len(u) + 1 - k].previous]
    BY UndoneUnfolds
  <2> QED BY <2>1
<1>g. \A k \in 1 .. Len(longer) :
        G[k] = [G[k - 1] EXCEPT ![longer[Len(longer) + 1 - k].index] =
                                   longer[Len(longer) + 1 - k].previous]
  BY UndoneUnfolds
<1> HAVE TakenBack(after, first) = held
<1>h. [after EXCEPT ![first.index] = first.previous] = held
  BY DEF TakenBack
<1>1. ASSUME NEW k \in 0 .. Len(undo), \A j \in 0 .. (k - 1) : j \in S PROVE k \in S
  <2>0. k + 1 \in 1 .. Len(longer) /\ (k + 1) - 1 = k /\ k \in Nat
    BY <1>0
  <2>1. CASE k = 0
    <3>1. F[0] = held /\ G[0] = after
      BY UndoneUnfolds
    <3>2. Len(longer) + 1 - 1 = Len(undo) + 1
      BY <1>0
    <3>3. G[1] = [G[0] EXCEPT ![first.index] = first.previous]
      <4>1. 1 \in 1 .. Len(longer) /\ 1 - 1 = 0
        BY <2>0, <2>1
      <4> HIDE DEF G
      <4>2. G[1] = [G[1 - 1] EXCEPT ![longer[Len(longer) + 1 - 1].index] =
                                      longer[Len(longer) + 1 - 1].previous]
        BY <1>g, <4>1
      <4> QED BY <1>0, <3>2, <4>1, <4>2
    <3>5. G[1] = F[0]
      BY <1>h, <3>1, <3>3
    <3> QED BY <2>1, <3>5
  <2>2. CASE k # 0
    <3>1. k \in 1 .. Len(undo) /\ k - 1 \in 0 .. (k - 1) /\ (k - 1) + 1 = k
      BY <2>0, <2>2
    <3>2. Len(longer) + 1 - (k + 1) = Len(undo) + 1 - k /\ Len(undo) + 1 - k \in 1 .. Len(undo)
      BY <1>0, <3>1
    <3> DEFINE step == undo[Len(undo) + 1 - k]
    <3>3. F[k] = [F[k - 1] EXCEPT ![step.index] = step.previous]
      <4> HIDE DEF F
      <4> QED BY <1>f, <3>1
    <3>4. G[k + 1] = [G[k] EXCEPT ![step.index] = step.previous]
      <4> HIDE DEF G
      <4>1. G[k + 1] = [G[(k + 1) - 1] EXCEPT ![longer[Len(longer) + 1 - (k + 1)].index] =
                                      longer[Len(longer) + 1 - (k + 1)].previous]
        BY <1>g, <2>0
      <4>2. longer[Len(longer) + 1 - (k + 1)] = step
        BY <1>0, <3>2
      <4> QED BY <2>0, <4>1, <4>2
    <3>5. G[k] = F[k - 1]
      BY <1>1, <3>1
    <3> HIDE DEF F, G, step
    <3> QED BY <3>3, <3>4, <3>5
  <2> QED BY <2>1, <2>2
<1> HIDE DEF S
<1>2. \A k \in 0 .. Len(undo) : k \in S
  BY <1>0, <1>1, EveryNumber
<1> QED BY <1>2 DEF S

(* What is left of a log that is trimmed takes back what it did.           *)
EndOf(rest, list, t) ==
  Len(rest) = Len(list) - t /\ \A i \in 1 .. Len(rest) : rest[i] = list[t + i]

LEMMA UndoneTrim ==
  ASSUME NEW held, NEW undo \in Seq(StepType), NEW t \in 0 .. Len(undo),
         NEW rest \in Seq(StepType), EndOf(rest, undo, t)
  PROVE  \A k \in 0 .. Len(rest) : Undone(held, rest)[k] = Undone(held, undo)[k]
<1> DEFINE F == Undone(held, undo)
           G == Undone(held, rest)
           S == {k \in 0 .. Len(rest) : G[k] = F[k]}
<1>0. /\ Len(rest) = Len(undo) - t /\ Len(undo) \in Nat /\ t \in Nat
      /\ Len(rest) \in Nat
      /\ \A i \in 1 .. Len(rest) : rest[i] = undo[t + i]
  BY DEF EndOf
<1>f. \A k \in 1 .. Len(undo) :
        F[k] = [F[k - 1] EXCEPT ![undo[Len(undo) + 1 - k].index] =
                                   undo[Len(undo) + 1 - k].previous]
  BY UndoneUnfolds
<1>g. \A k \in 1 .. Len(rest) :
        G[k] = [G[k - 1] EXCEPT ![rest[Len(rest) + 1 - k].index] =
                                   rest[Len(rest) + 1 - k].previous]
  <2>1. rest \in Seq(StepType)
    BY <1>0
  <2>2. ASSUME NEW u \in Seq(StepType), NEW k \in 1 .. Len(u)
        PROVE  Undone(held, u)[k] = [Undone(held, u)[k - 1] EXCEPT ![u[Len(u) + 1 - k].index] =
                                       u[Len(u) + 1 - k].previous]
    BY UndoneUnfolds
  <2> QED BY <2>1, <2>2
<1>1. ASSUME NEW k \in 0 .. Len(rest), \A j \in 0 .. (k - 1) : j \in S PROVE k \in S
  <2>1. CASE k = 0
    <3>1. F[0] = held /\ G[0] = held
      BY UndoneUnfolds
    <3> QED BY <2>1, <3>1
  <2>2. CASE k # 0
    <3>1. /\ k \in 1 .. Len(undo) /\ k \in 1 .. Len(rest) /\ k - 1 \in 0 .. (k - 1)
          /\ Len(rest) + 1 - k \in 1 .. Len(rest) /\ t + (Len(rest) + 1 - k) = Len(undo) + 1 - k
      BY <1>0, <2>2
    <3> DEFINE step == undo[Len(undo) + 1 - k]
    <3>2. rest[Len(rest) + 1 - k] = step
      BY <1>0, <3>1
    <3>3. F[k] = [F[k - 1] EXCEPT ![step.index] = step.previous]
      <4> HIDE DEF F
      <4> QED BY <1>f, <3>1
    <3>4. G[k] = [G[k - 1] EXCEPT ![step.index] = step.previous]
      <4> HIDE DEF G, step
      <4>1. G[k] = [G[k - 1] EXCEPT ![rest[Len(rest) + 1 - k].index] =
                      rest[Len(rest) + 1 - k].previous]
        BY <1>g, <3>1
      <4> QED BY <3>2, <4>1
    <3>5. G[k - 1] = F[k - 1]
      BY <1>1, <3>1
    <3> HIDE DEF F, G, step
    <3> QED BY <3>3, <3>4, <3>5
  <2> QED BY <2>1, <2>2
<1> HIDE DEF S
<1>2. \A k \in 0 .. Len(rest) : k \in S
  BY <1>0, <1>1, EveryNumber
<1> QED BY <1>2 DEF S

MemoType == [held : [Memo!Index -> Nat], undo : Seq(StepType), undoBase : Nat,
             order : Seq(Memo!Operation), dropped : Nat, owner : Nat]

Total(m) == m.undoBase + Len(m.undo)

Identified(m) == m.dropped + Len(m.order)

At(m, place) == Undone(m.held, m.undo)[Total(m) - place]

(* Whatever was to be found in the one memo and has not been trimmed is    *)
(* found in the other.                                                     *)
Continues(m, n) ==
  /\ m.undoBase <= n.undoBase /\ m.dropped <= n.dropped
  /\ Total(m) <= Total(n) /\ Identified(m) <= Identified(n)
  /\ \A place \in n.undoBase .. Total(m) : At(n, place) = At(m, place)
  /\ \A x \in Memo!Index : m.held[x] <= n.held[x]
  /\ \A i \in 1 .. Len(n.order) : n.dropped + i <= Identified(m) =>
       n.order[i] = m.order[(n.dropped + i) - m.dropped]

LEMMA MemoNumbers ==
  ASSUME NEW m \in MemoType
  PROVE  /\ m.undoBase \in Nat /\ m.dropped \in Nat /\ Len(m.order) \in Nat /\ Len(m.undo) \in Nat
         /\ Total(m) \in Nat /\ Total(m) = m.undoBase + Len(m.undo)
         /\ Identified(m) \in Nat /\ Identified(m) = m.dropped + Len(m.order)
         /\ \A x \in Memo!Index : m.held[x] \in Nat
<1>1. /\ m.held \in [Memo!Index -> Nat] /\ m.undo \in Seq(StepType) /\ m.undoBase \in Nat
      /\ m.order \in Seq(Memo!Operation) /\ m.dropped \in Nat
  BY DEF MemoType
<1>2. Len(m.order) \in Nat /\ Len(m.undo) \in Nat
  BY <1>1
<1> QED BY <1>1, <1>2 DEF Total, Identified

LEMMA ContinuesOn ==
  ASSUME NEW k \in MemoType, NEW m \in MemoType, NEW n \in MemoType,
         Continues(k, m), Continues(m, n)
  PROVE  Continues(k, n)
<1>1. /\ k.undoBase \in Nat /\ k.dropped \in Nat /\ Total(k) \in Nat /\ Identified(k) \in Nat
      /\ m.undoBase \in Nat /\ m.dropped \in Nat /\ Total(m) \in Nat /\ Identified(m) \in Nat
      /\ n.undoBase \in Nat /\ n.dropped \in Nat /\ Total(n) \in Nat /\ Identified(n) \in Nat
      /\ Len(n.order) \in Nat /\ Len(m.order) \in Nat /\ Identified(m) = m.dropped + Len(m.order)
  BY MemoNumbers
<1>2. /\ k.undoBase <= m.undoBase /\ k.dropped <= m.dropped
      /\ Total(k) <= Total(m) /\ Identified(k) <= Identified(m)
      /\ m.undoBase <= n.undoBase /\ m.dropped <= n.dropped
      /\ Total(m) <= Total(n) /\ Identified(m) <= Identified(n)
  BY DEF Continues
<1>3. ASSUME NEW place \in n.undoBase .. Total(k)
      PROVE  At(n, place) = At(k, place)
  <2>1. place \in n.undoBase .. Total(m) /\ place \in m.undoBase .. Total(k)
    <3> DEFINE fromM == m.undoBase
               fromN == n.undoBase
               toK == Total(k)
               toM == Total(m)
    <3>1. /\ fromM \in Nat /\ fromN \in Nat /\ toK \in Nat /\ toM \in Nat
          /\ fromM <= fromN /\ toK <= toM /\ place \in fromN .. toK
      BY <1>1, <1>2, <1>3
    <3> HIDE DEF fromM, fromN, toK, toM
    <3>2. place \in fromN .. toM /\ place \in fromM .. toK
      BY <3>1
    <3> QED BY <3>2 DEF fromM, fromN, toK, toM
  <2> QED BY <2>1 DEF Continues
<1>4. ASSUME NEW x \in Memo!Index
      PROVE  k.held[x] <= n.held[x]
  <2>1. k.held[x] <= m.held[x] /\ m.held[x] <= n.held[x]
    BY DEF Continues
  <2>2. k.held[x] \in Nat /\ m.held[x] \in Nat /\ n.held[x] \in Nat
    BY MemoNumbers
  <2> QED BY <2>1, <2>2
<1>5. ASSUME NEW i \in 1 .. Len(n.order), n.dropped + i <= Identified(k)
      PROVE  n.order[i] = k.order[(n.dropped + i) - k.dropped]
  <2> DEFINE j == (n.dropped + i) - m.dropped
  <2>1. n.dropped + i <= Identified(m) /\ j \in 1 .. Len(m.order) /\ m.dropped + j = n.dropped + i
    <3> DEFINE goneM == m.dropped
               goneN == n.dropped
               length == Len(m.order)
               allM == Identified(m)
               allK == Identified(k)
    <3>1. /\ goneM \in Nat /\ goneN \in Nat /\ length \in Nat /\ allM \in Nat /\ allK \in Nat /\ i \in Nat
          /\ goneM <= goneN /\ allK <= allM /\ allM = goneM + length /\ goneN + i <= allK /\ i >= 1
      BY <1>1, <1>2, <1>5
    <3>2. j = (goneN + i) - goneM
      OBVIOUS
    <3> HIDE DEF goneM, goneN, length, allM, allK, j
    <3>3. goneN + i <= allM /\ j \in 1 .. length /\ goneM + j = goneN + i
      BY <3>1, <3>2
    <3> QED BY <3>3 DEF goneM, goneN, length, allM
  <2>2. n.order[i] = m.order[j]
    BY <2>1 DEF Continues
  <2>3. m.order[j] = k.order[(m.dropped + j) - k.dropped]
    <3>1. m.dropped + j <= Identified(k)
      BY <1>5, <2>1
    <3> HIDE DEF j
    <3> QED BY <2>1, <3>1 DEF Continues
  <2> HIDE DEF j
  <2>4. (m.dropped + j) - k.dropped = (n.dropped + i) - k.dropped
    BY <2>1
  <2> QED BY <2>2, <2>3, <2>4
<1>6. /\ k.undoBase <= n.undoBase /\ k.dropped <= n.dropped
      /\ Total(k) <= Total(n) /\ Identified(k) <= Identified(n)
  <2>1. \A p, q, r \in Nat : p <= q /\ q <= r => p <= r
    OBVIOUS
  <2>2. k.undoBase <= n.undoBase
    BY <1>1, <1>2, <2>1, Zenon
  <2>3. k.dropped <= n.dropped
    BY <1>1, <1>2, SMTT(30)
  <2>4. Total(k) <= Total(n)
    BY <1>1, <1>2
  <2>5. Identified(k) <= Identified(n)
    BY <1>1, <1>2
  <2> QED BY <2>2, <2>3, <2>4, <2>5
<1> QED BY <1>6, <1>3, <1>4, <1>5 DEF Continues

(* What a snapshot answers is what was folded into it.                     *)
IsBest(v, ops, x) ==
  /\ v = 0 \/ (v \in ops /\ Memo!IndexOf(v) = x)
  /\ \A op \in ops : Memo!IndexOf(op) = x => op <= v

Answered(held, ops) ==
  held \in [Memo!Index -> Nat] /\ \A x \in Memo!Index : IsBest(held[x], ops, x)

LEMMA IndexFacts ==
  /\ Memo!Operation \subseteq Nat \ {0} /\ Memo!Index = {"entries", "activations"}
  /\ \A op \in Memo!Operation : Memo!IndexOf(op) \in Memo!Index
  /\ \A op \in Memo!Operation : (op \in Entry <=> Memo!IndexOf(op) = "entries")
BY MemoLimits DEF Memo!Operation, Memo!Index, Memo!IndexOf

(* One operation: it wins or is noted.                                     *)
LEMMA AppliedFacts ==
  ASSUME NEW m \in MemoType, NEW op \in Memo!Operation, NEW n, n = Memo!Applied(m, op)
  PROVE  /\ n \in MemoType /\ n.owner = m.owner /\ Continues(m, n)
         /\ n.undoBase = m.undoBase /\ Len(n.undo) >= Len(m.undo)
         /\ Memo!ToSet(n.order) \subseteq Memo!ToSet(m.order) \cup {op}
         /\ \A ops \in SUBSET Memo!Operation : Answered(m.held, ops) => Answered(n.held, ops \cup {op})
<1> DEFINE x == Memo!IndexOf(op)
           step == [index |-> x, previous |-> m.held[x]]
<1>1. x \in Memo!Index /\ op \in Nat /\ op # 0 /\ m.held[x] \in Nat /\ step \in StepType
  BY IndexFacts DEF MemoType, StepType
<1> DEFINE heard == op \in Memo!ToSet(m.order)
           order == IF heard THEN m.order ELSE Append(m.order, op)
           wins == m.held[x] < op
           held == IF wins THEN [m.held EXCEPT ![x] = op] ELSE m.held
           undo == IF wins THEN Append(m.undo, step) ELSE m.undo
<1>2. n = [m EXCEPT !.order = order, !.held = held, !.undo = undo]
  <2>1. m.held[Memo!IndexOf(op)] >= op <=> ~wins
    BY <1>1
  <2>2. CASE ~wins
    BY <2>1, <2>2 DEF Memo!Applied, MemoType
  <2>3. CASE wins
    BY <2>1, <2>3 DEF Memo!Applied, MemoType
  <2> QED BY <2>2, <2>3
<1>3. /\ m.held \in [Memo!Index -> Nat] /\ m.undo \in Seq(StepType) /\ m.undoBase \in Nat
      /\ m.order \in Seq(Memo!Operation) /\ m.dropped \in Nat /\ m.owner \in Nat
      /\ Len(m.order) \in Nat /\ Len(m.undo) \in Nat
  BY DEF MemoType
<1>4. /\ order \in Seq(Memo!Operation) /\ Len(order) \in Len(m.order) .. Len(m.order) + 1
      /\ \A i \in 1 .. Len(m.order) : order[i] = m.order[i]
      /\ \A i \in 1 .. Len(order) : i \in 1 .. Len(m.order) \/ order[i] = op
  BY <1>3
<1>5. /\ held \in [Memo!Index -> Nat] /\ undo \in Seq(StepType)
      /\ Len(undo) \in Len(m.undo) .. Len(m.undo) + 1
  BY <1>1, <1>3
<1>6. /\ n \in MemoType /\ n.owner = m.owner /\ n.undoBase = m.undoBase /\ n.dropped = m.dropped
      /\ n.order = order /\ n.held = held /\ n.undo = undo
  <2> HIDE DEF order, held, undo
  <2> QED BY <1>2, <1>4, <1>5 DEF MemoType
<1>7. \A y \in Memo!Index : m.held[y] <= held[y]
  BY <1>1, <1>3
<1>8. ASSUME NEW place \in n.undoBase .. Total(m)
      PROVE  At(n, place) = At(m, place)
  <2>1. CASE ~wins
    <3>1. n.held = m.held /\ n.undo = m.undo /\ Total(n) = Total(m)
      BY <1>6, <2>1 DEF Total
    <3> QED BY <3>1 DEF At
  <2>2. CASE wins
    <3>1. undo = Append(m.undo, step) /\ held = [m.held EXCEPT ![x] = op]
      BY <2>2
    <3>2. undo \in Seq(StepType) /\ Recorded(undo, m.undo, step)
      BY <1>1, <1>3, <3>1 DEF Recorded
    <3>3. [held EXCEPT ![x] = m.held[x]] = m.held
      BY <1>1, <1>3, <3>1
    <3> DEFINE k == Total(m) - place
    <3>4. k \in 0 .. Len(m.undo) /\ Total(n) - place = k + 1
      BY <1>3, <1>6, <3>2, SMTT(30) DEF Total, Recorded
    <3>5. \A j \in 0 .. Len(m.undo) : Undone(held, undo)[j + 1] = Undone(m.held, m.undo)[j]
      <4>1. TakenBack(held, step) = m.held
        BY <3>3 DEF TakenBack
      <4> HIDE DEF held, undo, k, step
      <4>2. /\ m.held \in [Memo!Index -> Nat] /\ m.undo \in Seq(StepType) /\ step \in StepType
            /\ undo \in Seq(StepType) /\ Recorded(undo, m.undo, step)
        BY <1>1, <1>3, <3>2
      <4>3. TakenBack(held, step) = m.held =>
              \A j \in 0 .. Len(m.undo) : Undone(held, undo)[j + 1] = Undone(m.held, m.undo)[j]
        BY <4>2, UndoneAppend, SMTT(20)
      <4> QED BY <4>1, <4>3, Zenon
    <3> HIDE DEF held, undo, k
    <3> QED BY <1>6, <3>4, <3>5 DEF At, k
  <2> QED BY <2>1, <2>2
<1>9. Continues(m, n)
  <2>1. Total(m) <= Total(n) /\ Identified(m) <= Identified(n)
    <3> HIDE DEF order, held, undo
    <3> QED BY <1>3, <1>4, <1>5, <1>6, SMTT(30) DEF Total, Identified
  <2>2. ASSUME NEW i \in 1 .. Len(n.order), n.dropped + i <= Identified(m)
        PROVE  n.order[i] = m.order[(n.dropped + i) - m.dropped]
    <3> HIDE DEF order, held, undo
    <3>1. i \in 1 .. Len(m.order) /\ (n.dropped + i) - m.dropped = i
      BY <1>3, <1>4, <1>6, <2>2 DEF Identified
    <3> QED BY <1>4, <1>6, <3>1
  <2> HIDE DEF order, held, undo
  <2> QED BY <1>3, <1>6, <1>7, <1>8, <2>1, <2>2 DEF Continues
<1>10. Memo!ToSet(n.order) \subseteq Memo!ToSet(m.order) \cup {op}
  <2> HIDE DEF order, held, undo
  <2>1. DOMAIN n.order = 1 .. Len(order) /\ DOMAIN m.order = 1 .. Len(m.order)
    BY <1>3, <1>4, <1>6
  <2> QED BY <1>4, <1>6, <2>1 DEF Memo!ToSet
<1>11. ASSUME NEW ops \in SUBSET Memo!Operation, Answered(m.held, ops)
       PROVE  Answered(n.held, ops \cup {op})
  <2>1. ASSUME NEW y \in Memo!Index
        PROVE  IsBest(held[y], ops \cup {op}, y)
    <3>1. IsBest(m.held[y], ops, y) /\ m.held[y] \in Nat
      BY <1>3, <1>11, <2>1 DEF Answered
    <3>2. \A o \in ops : o \in Nat
      BY IndexFacts
    <3>3. CASE wins /\ y = x
      <4>1. held[y] = op /\ m.held[y] < op
        BY <1>1, <1>3, <3>3
      <4> HIDE DEF held
      <4> QED BY <1>1, <3>1, <3>2, <3>3, <4>1 DEF IsBest
    <3>4. CASE ~wins \/ y # x
      <4>1. held[y] = m.held[y] /\ (y = x => op <= m.held[y])
        BY <1>1, <1>3, <3>4
      <4> HIDE DEF held
      <4> QED BY <1>1, <3>1, <3>2, <4>1 DEF IsBest
    <3> QED BY <3>3, <3>4
  <2> HIDE DEF held
  <2> QED BY <1>5, <1>6, <2>1 DEF Answered
<1> HIDE DEF order, held, undo
<1>12. Len(n.undo) >= Len(m.undo)
  BY <1>3, <1>5, <1>6
<1> QED BY <1>6, <1>9, <1>10, <1>11, <1>12

Windowed(m) == /\ m.undoBase > 0 => Len(m.undo) >= MaxUndo
               /\ Len(m.order) <= MaxApplied

(* A trimmed list keeps its end.                                           *)
LEMMA EndIs ==
  ASSUME NEW S, NEW list \in Seq(S), NEW t \in 0 .. Len(list),
         NEW rest, rest = SubSeq(list, t + 1, Len(list))
  PROVE  rest \in Seq(S) /\ EndOf(rest, list, t)
<1>1. t + 1 \in Int /\ Len(list) \in Int /\ Len(list) \in Nat /\ t \in Nat
      /\ \A i \in (t + 1) .. Len(list) : list[i] \in S
  OBVIOUS
<1>2. /\ rest \in Seq(S)
      /\ Len(rest) = IF t + 1 <= Len(list) THEN Len(list) - (t + 1) + 1 ELSE 0
      /\ \A i \in 1 .. Len(list) - (t + 1) + 1 : rest[i] = list[t + 1 + i - 1]
  BY <1>1, SubSeqProperties
<1>3. Len(rest) = Len(list) - t
  BY <1>1, <1>2
<1>4. \A i \in 1 .. Len(rest) : t + 1 + i - 1 = t + i /\ i \in 1 .. Len(list) - (t + 1) + 1
  BY <1>1, <1>3
<1> QED BY <1>2, <1>3, <1>4 DEF EndOf

(* The windows forget at their front only.                                 *)
LEMMA TrimmedFacts ==
  ASSUME NEW m \in MemoType, NEW n, n = Memo!Trimmed(m)
  PROVE  /\ n \in MemoType /\ n.owner = m.owner /\ n.held = m.held /\ Continues(m, n)
         /\ Memo!ToSet(n.order) \subseteq Memo!ToSet(m.order)
         /\ (m.undoBase > 0 => Len(m.undo) >= MaxUndo) => Windowed(n)
<1>1. /\ m.held \in [Memo!Index -> Nat] /\ m.undo \in Seq(StepType) /\ m.undoBase \in Nat
      /\ m.order \in Seq(Memo!Operation) /\ m.dropped \in Nat /\ m.owner \in Nat
      /\ Len(m.order) \in Nat /\ Len(m.undo) \in Nat
  BY DEF MemoType
<1>2. MaxUndo \in Nat /\ UndoTrim \in Nat /\ MaxApplied \in Nat /\ AppliedTrim \in Nat
  BY MemoLimits
<1> DEFINE excess == Len(m.order) - MaxApplied + AppliedTrim
           d == IF Len(m.order) <= MaxApplied THEN 0
                ELSE IF excess < Len(m.order) THEN excess ELSE Len(m.order)
           t == IF Len(m.undo) <= MaxUndo + UndoTrim THEN 0 ELSE UndoTrim
           order == SubSeq(m.order, d + 1, Len(m.order))
           undo == SubSeq(m.undo, t + 1, Len(m.undo))
<1>3. d \in 0 .. Len(m.order) /\ t \in 0 .. Len(m.undo)
      /\ Len(m.order) - d <= MaxApplied
      /\ (t > 0 => Len(m.undo) - t >= MaxUndo)
  <2>1. d \in 0 .. Len(m.order) /\ Len(m.order) - d <= MaxApplied
    <3>1. CASE Len(m.order) <= MaxApplied
      BY <1>1, <3>1
    <3>2. CASE Len(m.order) > MaxApplied
      BY <1>1, <1>2, <3>2
    <3> QED BY <1>1, <1>2, <3>1, <3>2
  <2>2. t \in 0 .. Len(m.undo) /\ (t > 0 => Len(m.undo) - t >= MaxUndo)
    BY <1>1, <1>2
  <2> QED BY <2>1, <2>2
<1>4. SubSeq(m.order, 1, Len(m.order)) = m.order /\ SubSeq(m.undo, 1, Len(m.undo)) = m.undo
  BY <1>1
<1>5. n = [m EXCEPT !.order = order, !.dropped = m.dropped + d,
                    !.undo = undo, !.undoBase = m.undoBase + t]
  <2> DEFINE applied == [m EXCEPT !.order = order, !.dropped = m.dropped + d]
  <2>1. ASSUME Len(m.order) <= MaxApplied PROVE applied = m
    <3>1. order = m.order /\ m.dropped + d = m.dropped
      BY <1>1, <1>4, <2>1
    <3> HIDE DEF order, d
    <3> QED BY <3>1 DEF MemoType
  <2>2. applied = IF Len(m.order) <= MaxApplied THEN m
                  ELSE [m EXCEPT !.order = order, !.dropped = m.dropped + d]
    <3>1. CASE Len(m.order) <= MaxApplied
      <4> HIDE DEF applied
      <4> QED BY <2>1, <3>1
    <3>2. CASE ~(Len(m.order) <= MaxApplied)
      <4> HIDE DEF order, d
      <4> QED BY <3>2
    <3> QED BY <3>1, <3>2
  <2>3. Len(m.order) > MaxApplied => d = IF excess < Len(m.order) THEN excess ELSE Len(m.order)
    BY <1>1, <1>2
  <2>4. n = IF Len(m.undo) <= MaxUndo + UndoTrim THEN applied
            ELSE [applied EXCEPT !.undo = SubSeq(m.undo, UndoTrim + 1, Len(m.undo)),
                                 !.undoBase = m.undoBase + UndoTrim]
    <3>1. CASE Len(m.order) <= MaxApplied
      BY <2>1, <2>2, <3>1 DEF Memo!Trimmed
    <3>2. CASE ~(Len(m.order) <= MaxApplied)
      BY <2>2, <3>2 DEF Memo!Trimmed
    <3> QED BY <3>1, <3>2
  <2>5. CASE Len(m.undo) <= MaxUndo + UndoTrim
    <3>1. undo = m.undo /\ m.undoBase + t = m.undoBase /\ n = applied
      BY <1>1, <1>4, <2>4, <2>5
    <3> QED BY <3>1 DEF MemoType
  <2>6. CASE ~(Len(m.undo) <= MaxUndo + UndoTrim)
    BY <2>4, <2>6
  <2> QED BY <2>5, <2>6
<1> HIDE DEF d, t
<1>6. /\ order \in Seq(Memo!Operation) /\ Len(order) = Len(m.order) - d
      /\ \A i \in 1 .. Len(order) : order[i] = m.order[d + i]
  BY <1>1, <1>3, EndIs DEF EndOf
<1>7. undo \in Seq(StepType) /\ EndOf(undo, m.undo, t) /\ Len(undo) = Len(m.undo) - t
  BY <1>1, <1>3, EndIs DEF EndOf
<1>8. \A k \in 0 .. Len(undo) : Undone(m.held, undo)[k] = Undone(m.held, m.undo)[k]
  <2> HIDE DEF undo
  <2> QED BY <1>1, <1>3, <1>7, UndoneTrim
<1> HIDE DEF order, undo
<1>9. /\ n \in MemoType /\ n.owner = m.owner /\ n.held = m.held
      /\ n.undoBase = m.undoBase + t /\ n.dropped = m.dropped + d /\ n.order = order /\ n.undo = undo
  <2>1. m.dropped + d \in Nat /\ m.undoBase + t \in Nat
    BY <1>1, <1>3
  <2>2. order \in Seq(Memo!Operation) /\ undo \in Seq(StepType)
    BY <1>6, <1>7
  <2> QED BY <1>5, <2>1, <2>2 DEF MemoType
<1>10. Total(n) = Total(m) /\ Identified(n) = Identified(m) /\ Total(m) \in Nat /\ Identified(m) \in Nat
  <2>1. Total(m) \in Nat /\ Identified(m) \in Nat
    BY <1>1 DEF Total, Identified
  <2>2. Total(n) = m.undoBase + t + (Len(m.undo) - t) /\ t \in Int
    BY <1>3, <1>7, <1>9 DEF Total
  <2>3. Identified(n) = m.dropped + d + (Len(m.order) - d) /\ d \in Int
    BY <1>3, <1>6, <1>9 DEF Identified
  <2>4. Total(n) = Total(m)
    BY <1>1, <2>2 DEF Total
  <2>5. Identified(n) = Identified(m)
    BY <1>1, <2>3 DEF Identified
  <2> QED BY <2>1, <2>4, <2>5
<1>11. ASSUME NEW place \in n.undoBase .. Total(m)
       PROVE  At(n, place) = At(m, place)
  <2>1. Total(m) - place \in 0 .. Len(undo)
    <3>1. place \in (m.undoBase + t) .. (m.undoBase + Len(m.undo)) /\ t \in Nat
      BY <1>3, <1>9 DEF Total
    <3>2. Total(m) = m.undoBase + Len(m.undo) /\ Len(undo) = Len(m.undo) - t
      BY <1>7 DEF Total
    <3> DEFINE from == m.undoBase
               before == Len(m.undo)
               left == Len(undo)
               last == Total(m)
    <3>3. /\ from \in Nat /\ before \in Nat /\ t \in Nat /\ place \in (from + t) .. (from + before)
          /\ last = from + before /\ left = before - t
      BY <1>1, <3>1, <3>2
    <3> HIDE DEF from, before, left, last, t
    <3>4. last - place \in 0 .. left
      BY <3>3
    <3> QED BY <3>4 DEF left, last
  <2> QED BY <1>8, <1>9, <1>10, <2>1 DEF At
<1>12. ASSUME NEW i \in 1 .. Len(n.order)
       PROVE  n.order[i] = m.order[(n.dropped + i) - m.dropped]
  <2>1. (n.dropped + i) - m.dropped = d + i
    BY <1>1, <1>3, <1>6, <1>9
  <2> QED BY <1>6, <1>9, <2>1
<1>13. Continues(m, n)
  <2>1. m.undoBase <= n.undoBase /\ m.dropped <= n.dropped
    BY <1>1, <1>3, <1>9
  <2>2. Total(m) <= Total(n) /\ Identified(m) <= Identified(n)
    BY <1>10
  <2>3. \A x \in Memo!Index : m.held[x] <= n.held[x]
    BY <1>1, <1>9
  <2> QED BY <1>11, <1>12, <2>1, <2>2, <2>3 DEF Continues
<1>14. Memo!ToSet(n.order) \subseteq Memo!ToSet(m.order)
  <2>1. DOMAIN n.order = 1 .. Len(order) /\ DOMAIN m.order = 1 .. Len(m.order)
    BY <1>1, <1>6, <1>9
  <2>2. \A i \in 1 .. Len(order) : d + i \in 1 .. Len(m.order) /\ n.order[i] = m.order[d + i]
    BY <1>1, <1>3, <1>6, <1>9, SMTT(30)
  <2> QED BY <2>1, <2>2 DEF Memo!ToSet
<1>15. ASSUME m.undoBase > 0 => Len(m.undo) >= MaxUndo
       PROVE  Windowed(n)
  <2>1. CASE t > 0
    BY <1>1, <1>2, <1>3, <1>6, <1>7, <1>9, <2>1 DEF Windowed
  <2>2. CASE t = 0
    BY <1>1, <1>2, <1>3, <1>6, <1>7, <1>9, <1>15, <2>2 DEF Windowed
  <2> QED BY <1>3, <2>1, <2>2
<1> QED BY <1>9, <1>13, <1>14, <1>15

(* A fold takes its operations one by one; none is of more than two.       *)
Few == {list \in Seq(Memo!Operation) : Len(list) <= 2}

LEMMA FoldUnfolds ==
  ASSUME NEW m, NEW list \in Few
  PROVE  /\ Len(list) = 0 => Memo!Folded(m, list) = Memo!Trimmed(m)
         /\ Len(list) = 1 => Memo!Folded(m, list) = Memo!Trimmed(Memo!Applied(m, list[1]))
         /\ Len(list) = 2 => Memo!Folded(m, list) = Memo!Trimmed(Memo!Applied(Memo!Applied(m, list[1]), list[2]))
<1> DEFINE D == DOMAIN list
           Fold(f) == [s \in SUBSET D |->
                         IF s = {} THEN m ELSE Memo!Applied(f[s \ {Memo!Max(s)}], list[Memo!Max(s)])]
           F == CHOOSE f : f = Fold(f)
<1>1. Memo!Folded(m, list) = Memo!Trimmed(F[D])
  BY DEF Memo!Folded, Memo!FoldLeft, Memo!MapThenFoldSet
<1>2. list \in Seq(Memo!Operation) /\ Len(list) \in {0, 1, 2} /\ D = 1 .. Len(list)
  <2>1. list \in Seq(Memo!Operation) /\ Len(list) <= 2
    BY DEF Few
  <2>2. Len(list) \in Nat /\ D = 1 .. Len(list)
    BY <2>1
  <2> QED BY <2>1, <2>2
<1>3. Memo!Max({1}) = 1 /\ Memo!Max({2}) = 2 /\ Memo!Max({1, 2}) = 2
  <2>1. \A x : x \in {1} /\ (\A y \in {1} : x >= y) <=> x = 1
    OBVIOUS
  <2>2. \A x : x \in {2} /\ (\A y \in {2} : x >= y) <=> x = 2
    OBVIOUS
  <2>3. \A x : x \in {1, 2} /\ (\A y \in {1, 2} : x >= y) <=> x = 2
    OBVIOUS
  <2> QED BY <2>1, <2>2, <2>3 DEF Memo!Max
<1> HIDE DEF D
<1> DEFINE first == Memo!Applied(m, list[1])
           g == [s \in SUBSET D |->
                   IF s = {} THEN m
                   ELSE IF s = {1} THEN first
                   ELSE IF s = {2} THEN Memo!Applied(m, list[2])
                   ELSE Memo!Applied(first, list[2])]
<1>4. \A s \in SUBSET D : s \in {{}, {1}, {2}, {1, 2}}
  <2> TAKE s \in SUBSET D
  <2>1. \A e \in s : e \in {1, 2}
    <3> TAKE e \in s
    <3>1. e \in 1 .. Len(list)
      BY <1>2
    <3>2. Len(list) = 0 \/ Len(list) = 1 \/ Len(list) = 2
      BY <1>2
    <3>3. \A u \in Int, v \in {0, 1, 2} : 1 <= u /\ u <= v => u = 1 \/ u = 2
      OBVIOUS
    <3>4. e \in Int /\ 1 <= e /\ e <= Len(list)
      BY <1>2, <3>1
    <3>5. e = 1 \/ e = 2
      BY <1>2, <3>3, <3>4, Zenon
    <3> QED BY <3>5
  <2>2. CASE 1 \in s /\ 2 \in s
    BY <2>1, <2>2
  <2>3. CASE 1 \in s /\ 2 \notin s
    BY <2>1, <2>3
  <2>4. CASE 1 \notin s /\ 2 \in s
    BY <2>1, <2>4
  <2>5. CASE 1 \notin s /\ 2 \notin s
    BY <2>1, <2>5
  <2> QED BY <2>2, <2>3, <2>4, <2>5
<1>5. ASSUME NEW s \in SUBSET D
      PROVE  g[s] = IF s = {} THEN m ELSE Memo!Applied(g[s \ {Memo!Max(s)}], list[Memo!Max(s)])
  <2>1. CASE s = {}
    BY <2>1
  <2>2. CASE s = {1}
    <3>1. s \ {Memo!Max(s)} = {} /\ {} \in SUBSET D /\ Memo!Max(s) = 1
      BY <1>3, <2>2
    <3> QED BY <2>2, <3>1
  <2>3. CASE s = {2}
    <3>1. s \ {Memo!Max(s)} = {} /\ {} \in SUBSET D /\ Memo!Max(s) = 2 /\ {2} # {1}
      BY <1>3, <2>3
    <3> QED BY <2>3, <3>1
  <2>4. CASE s = {1, 2}
    <3>1. s \ {Memo!Max(s)} = {1} /\ {1} \in SUBSET D /\ Memo!Max(s) = 2 /\ {1, 2} # {1} /\ {1, 2} # {2}
          /\ {1, 2} # {}
      BY <1>3, <2>4
    <3> QED BY <2>4, <3>1
  <2> QED BY <1>4, <2>1, <2>2, <2>3, <2>4
<1>6. g = Fold(g)
  <2>1. g = [s \in SUBSET D |-> g[s]]
    OBVIOUS
  <2> HIDE DEF g
  <2> QED BY <1>5, <2>1
<1> HIDE DEF g
<1>7. F = Fold(F)
  BY <1>6
<1> HIDE DEF F
<1>8. D \in SUBSET D /\ F[{}] = m
  BY <1>7
<1>n. \A s \in SUBSET D : s # {} => F[s] = Memo!Applied(F[s \ {Memo!Max(s)}], list[Memo!Max(s)])
  BY <1>7
<1> HIDE DEF Fold
<1>9. CASE Len(list) = 0
  <2>1. D = {}
    BY <1>2, <1>9
  <2> QED BY <1>1, <1>8, <1>9, <2>1
<1>10. CASE Len(list) = 1
  <2>1. D = {1} /\ {1} \ {1} = {}
    BY <1>2, <1>10
  <2>s. {1} \in SUBSET D /\ {1} # {}
    BY <2>1
  <2>2. F[{1}] = Memo!Applied(F[{}], list[1])
    BY <1>3, <1>n, <2>1, <2>s
  <2> QED BY <1>1, <1>8, <1>10, <2>1, <2>2
<1>11. CASE Len(list) = 2
  <2>1. D = {1, 2} /\ {1} \ {1} = {} /\ {1, 2} \ {2} = {1} /\ {1} \in SUBSET D
    BY <1>2, <1>11
  <2>s. {1} # {} /\ {1, 2} # {} /\ {1, 2} \in SUBSET D
    BY <2>1
  <2>2. F[{1}] = Memo!Applied(F[{}], list[1])
    BY <1>3, <1>n, <2>1, <2>s
  <2>3. F[{1, 2}] = Memo!Applied(F[{1}], list[2])
    BY <1>3, <1>n, <2>1, <2>s
  <2> QED BY <1>1, <1>8, <1>11, <2>1, <2>2, <2>3
<1> QED BY <1>2, <1>9, <1>10, <1>11

LEMMA ContinuesSelf ==
  ASSUME NEW m \in MemoType
  PROVE  Continues(m, m)
<1>1. /\ m.undoBase \in Nat /\ m.dropped \in Nat /\ Total(m) \in Nat /\ Identified(m) \in Nat
      /\ Len(m.order) \in Nat
  BY MemoNumbers
<1>2. \A x \in Memo!Index : m.held[x] <= m.held[x]
  <2> TAKE x \in Memo!Index
  <2>1. m.held[x] \in Nat
    BY MemoNumbers
  <2> QED BY <2>1
<1>3. \A i \in 1 .. Len(m.order) : (m.dropped + i) - m.dropped = i
  BY <1>1
<1>4. m.undoBase <= m.undoBase /\ m.dropped <= m.dropped /\ Total(m) <= Total(m)
      /\ Identified(m) <= Identified(m)
  BY <1>1
<1> QED BY <1>2, <1>3, <1>4 DEF Continues

LEMMA FoldFacts ==
  ASSUME NEW m \in MemoType, m.undoBase > 0 => Len(m.undo) >= MaxUndo,
         NEW list \in Few, NEW n, n = Memo!Folded(m, list)
  PROVE  /\ n \in MemoType /\ n.owner = m.owner /\ Continues(m, n) /\ Windowed(n)
         /\ Memo!ToSet(n.order) \subseteq Memo!ToSet(m.order) \cup Memo!ToSet(list)
         /\ \A ops \in SUBSET Memo!Operation :
              Answered(m.held, ops) => Answered(n.held, ops \cup Memo!ToSet(list))
<1> DEFINE Fine(u, some) ==
             /\ u \in MemoType /\ u.owner = m.owner /\ Continues(m, u)
             /\ u.undoBase = m.undoBase /\ Len(u.undo) >= Len(m.undo)
             /\ Memo!ToSet(u.order) \subseteq Memo!ToSet(m.order) \cup some
             /\ \A ops \in SUBSET Memo!Operation : Answered(m.held, ops) => Answered(u.held, ops \cup some)
<1>1. Fine(m, {})
  <2>1. Len(m.undo) >= Len(m.undo)
    BY MemoNumbers
  <2>2. \A ops : ops \cup {} = ops
    OBVIOUS
  <2> QED BY <2>1, <2>2, ContinuesSelf
<1>2. ASSUME NEW u, NEW some \in SUBSET Memo!Operation, Fine(u, some), NEW op \in Memo!Operation
      PROVE  Fine(Memo!Applied(u, op), some \cup {op})
  <2> DEFINE v == Memo!Applied(u, op)
  <2>1. /\ v \in MemoType /\ v.owner = u.owner /\ Continues(u, v)
        /\ v.undoBase = u.undoBase /\ Len(v.undo) >= Len(u.undo)
        /\ Memo!ToSet(v.order) \subseteq Memo!ToSet(u.order) \cup {op}
        /\ \A ops \in SUBSET Memo!Operation : Answered(u.held, ops) => Answered(v.held, ops \cup {op})
    BY <1>2, AppliedFacts
  <2> HIDE DEF v
  <2>2. Continues(m, v)
    BY <1>2, <2>1, ContinuesOn
  <2>3. Len(v.undo) >= Len(m.undo)
    <3>1. Len(v.undo) \in Nat /\ Len(u.undo) \in Nat /\ Len(m.undo) \in Nat
      BY <1>2, <2>1, MemoNumbers
    <3> QED BY <1>2, <2>1, <3>1
  <2>4. ASSUME NEW ops \in SUBSET Memo!Operation, Answered(m.held, ops)
        PROVE  Answered(v.held, ops \cup (some \cup {op}))
    <3>1. Answered(u.held, ops \cup some) /\ ops \cup some \in SUBSET Memo!Operation
      BY <1>2, <2>4
    <3>2. (ops \cup some) \cup {op} = ops \cup (some \cup {op})
      OBVIOUS
    <3>3. Answered(v.held, (ops \cup some) \cup {op})
      BY <2>1, <3>1
    <3> QED BY <3>2, <3>3
  <2>5. Memo!ToSet(v.order) \subseteq Memo!ToSet(m.order) \cup (some \cup {op})
    BY <1>2, <2>1
  <2>6. v \in MemoType /\ v.owner = m.owner /\ v.undoBase = m.undoBase
    BY <1>2, <2>1
  <2>7. Fine(v, some \cup {op})
    BY <2>2, <2>3, <2>4, <2>5, <2>6
  <2> QED BY <2>7 DEF v
<1>3. list \in Seq(Memo!Operation) /\ Len(list) \in {0, 1, 2} /\ DOMAIN list = 1 .. Len(list)
  <2>1. list \in Seq(Memo!Operation) /\ Len(list) <= 2
    BY DEF Few
  <2>2. Len(list) \in Nat /\ DOMAIN list = 1 .. Len(list)
    BY <2>1
  <2> QED BY <2>1, <2>2
<1>4. \E f : Fine(f, Memo!ToSet(list)) /\ n = Memo!Trimmed(f)
  <2> HIDE DEF Fine
  <2>1. CASE Len(list) = 0
    <3>1. Memo!ToSet(list) = {}
      BY <1>3, <2>1 DEF Memo!ToSet
    <3>2. n = Memo!Trimmed(m)
      BY <2>1, FoldUnfolds
    <3> QED BY <1>1, <3>1, <3>2
  <2>2. CASE Len(list) = 1
    <3>1. Memo!ToSet(list) = {} \cup {list[1]} /\ list[1] \in Memo!Operation
      BY <1>3, <2>2 DEF Memo!ToSet
    <3>2. n = Memo!Trimmed(Memo!Applied(m, list[1]))
      BY <2>2, FoldUnfolds
    <3>3. Fine(Memo!Applied(m, list[1]), {} \cup {list[1]})
      BY <1>1, <1>2, <3>1
    <3> QED BY <3>1, <3>2, <3>3
  <2>3. CASE Len(list) = 2
    <3>1. /\ Memo!ToSet(list) = ({} \cup {list[1]}) \cup {list[2]}
          /\ list[1] \in Memo!Operation /\ list[2] \in Memo!Operation
          /\ {} \cup {list[1]} \in SUBSET Memo!Operation
      <4>1. list[1] \in Memo!Operation /\ list[2] \in Memo!Operation /\ 1 .. Len(list) = {1, 2}
        BY <1>3, <2>3
      <4>2. Memo!ToSet(list) = {list[p] : p \in 1 .. Len(list)}
        BY <1>3 DEF Memo!ToSet
      <4>3. Memo!ToSet(list) = {list[1], list[2]}
        BY <4>1, <4>2
      <4> QED BY <4>1, <4>3
    <3>2. n = Memo!Trimmed(Memo!Applied(Memo!Applied(m, list[1]), list[2]))
      BY <2>3, FoldUnfolds
    <3>3. Fine(Memo!Applied(m, list[1]), {} \cup {list[1]})
      BY <1>1, <1>2, <3>1
    <3>4. Fine(Memo!Applied(Memo!Applied(m, list[1]), list[2]), ({} \cup {list[1]}) \cup {list[2]})
      BY <1>2, <3>1, <3>3
    <3> QED BY <3>1, <3>2, <3>4
  <2> QED BY <1>3, <2>1, <2>2, <2>3
<1>5. PICK f : Fine(f, Memo!ToSet(list)) /\ n = Memo!Trimmed(f)
  BY <1>4
<1>6. f.undoBase > 0 => Len(f.undo) >= MaxUndo
  <2>1. Len(f.undo) \in Nat /\ Len(m.undo) \in Nat /\ MaxUndo \in Nat
    BY <1>5, MemoNumbers, MemoLimits
  <2> QED BY <1>5, <2>1
<1>7. /\ n \in MemoType /\ n.owner = f.owner /\ n.held = f.held /\ Continues(f, n)
      /\ Memo!ToSet(n.order) \subseteq Memo!ToSet(f.order) /\ Windowed(n)
  BY <1>5, <1>6, TrimmedFacts
<1>8. Continues(m, n)
  BY <1>5, <1>7, ContinuesOn
<1> QED BY <1>5, <1>7, <1>8

LEMMA SortedIs ==
  ASSUME NEW ids
  PROVE  Memo!Sorted(ids) = [n \in 1 .. Cardinality(ids) |-> Place(ids, n)]
<1>1. ASSUME NEW set PROVE Memo!Cardinality(set) = Cardinality(set)
  BY DEF Memo!Cardinality, Cardinality
<1>2. \A id : Place(ids, id) = CHOOSE i \in ids : Cardinality({j \in ids : j <= i}) = id
  BY DEF Place, Rank
<1> QED BY <1>1, <1>2, SMTT(30) DEF Memo!Sorted

(* What is left of the identifiers is of those that were there.            *)
LEMMA SortedKeeps ==
  ASSUME NEW ops \in SUBSET Memo!Operation, NEW list \in Seq(ops), NEW k \in 0 .. Len(list)
  PROVE  Memo!Sorted({list[n] : n \in 1 .. k}) \in Seq(ops)
<1> DEFINE ids == {list[n] : n \in 1 .. k}
           S == {j \in 0 .. k : \E top \in Nat : \A n \in 1 .. j : list[n] <= top}
<1>1. k \in Nat /\ \A n \in 1 .. k : list[n] \in ops /\ list[n] \in Nat \ {0}
  <2>1. Len(list) \in Nat /\ \A n \in 1 .. Len(list) : list[n] \in ops
    OBVIOUS
  <2>2. k \in Nat /\ \A n \in 1 .. k : n \in 1 .. Len(list)
    BY <2>1
  <2> QED BY <2>1, <2>2, IndexFacts
<1>2. ASSUME NEW j \in 0 .. k, \A i \in 0 .. (j - 1) : i \in S PROVE j \in S
  <2>1. CASE j = 0
    BY <2>1
  <2>2. CASE j # 0
    <3>1. j - 1 \in 0 .. (j - 1) /\ j \in 1 .. k
      BY <1>1, <2>2
    <3>2. PICK top \in Nat : \A n \in 1 .. (j - 1) : list[n] <= top
      BY <1>2, <3>1
    <3> DEFINE high == IF list[j] <= top THEN top ELSE list[j]
    <3>3. high \in Nat /\ top <= high /\ list[j] <= high
      BY <1>1, <3>1
    <3> HIDE DEF high
    <3>4. ASSUME NEW n \in 1 .. j PROVE list[n] <= high
      <4>1. n \in 1 .. k /\ (n = j \/ n \in 1 .. (j - 1))
        BY <1>1, <3>1
      <4>2. list[n] \in Nat
        BY <1>1, <4>1
      <4> QED BY <3>2, <3>3, <4>1, <4>2
    <3> QED BY <3>3, <3>4
  <2> QED BY <2>1, <2>2
<1> HIDE DEF S
<1>3. k \in S
  <2>1. \A j \in 0 .. k : j \in S
    BY <1>1, <1>2, EveryNumber
  <2> QED BY <1>1, <2>1
<1>4. PICK top \in Nat : \A n \in 1 .. k : list[n] <= top
  BY <1>3 DEF S
<1>5. ids \in SUBSET (1 .. top) /\ ids \subseteq ops
  BY <1>1, <1>4
<1> HIDE DEF ids
<1>6. Cardinality(ids) \in Nat /\ \A n \in 1 .. Cardinality(ids) : Place(ids, n) \in ids
  BY <1>5, PlaceFacts
<1>7. Memo!Sorted(ids) = [n \in 1 .. Cardinality(ids) |-> Place(ids, n)]
  BY SortedIs
<1>8. \A n \in 1 .. Cardinality(ids) : Place(ids, n) \in ops
  BY <1>5, <1>6
<1>9. Memo!Sorted(ids) \in Seq(ops)
  BY <1>6, <1>7, <1>8
<1> QED BY <1>9 DEF ids

HandleType == [memo : Nat, undoCount : Nat, appliedCount : Nat]

SnapshotType == [own : HandleType, home : HandleType, kept : {"none", "live", "copy"},
                 indexes : [Memo!Index -> Nat], view : Int, activated : Int, applied : Seq(Nat),
                 truth : SUBSET Memo!Operation, pieces : BOOLEAN]

(* What a handle leads to, as long as it is not forgotten.                 *)
Found(h, m, ops) ==
  /\ h.undoCount <= Total(m) /\ h.appliedCount <= Identified(m)
  /\ h.undoCount >= m.undoBase => Answered(At(m, h.undoCount), ops)
  /\ \A i \in 1 .. Len(m.order) : m.dropped + i <= h.appliedCount => m.order[i] \in ops
  /\ \A op \in ops : op <= m.held[Memo!IndexOf(op)]

(* An answer that was read, from one place of the memo or from two.        *)
ReadWell(s, x, v) ==
  \/ v = -1
  \/ /\ v \in Nat /\ (v = 0 \/ (v \in Memo!Operation /\ Memo!IndexOf(v) = x))
     /\ \A op \in s.truth : Memo!IndexOf(op) = x => op <= v
     /\ s.pieces \/ v = 0 \/ v \in s.truth

SnapshotGood(s, memos) ==
  /\ s.own.memo \in Memo!Id /\ memos[s.own.memo].owner # 0
  /\ s.home.memo \in Memo!Id /\ memos[s.home.memo].owner # 0
  /\ Found(s.own, memos[s.own.memo], s.truth) /\ Found(s.home, memos[s.home.memo], s.truth)
  /\ s.kept = "copy" => Answered(s.indexes, s.truth)
  /\ ReadWell(s, "entries", s.view) /\ ReadWell(s, "activations", s.activated)
  /\ s.applied # Memo!Unread => s.applied \in Seq(s.truth)

(* Whoever owns a memo would fold where it stands.                         *)
OwnedWell(m, id, among, snapshots) ==
  /\ Windowed(m) /\ m.owner \in among \cup {0}
  /\ m.owner # 0 => snapshots[m.owner].home = Memo!Handle(m, id)

MemoInvariant ==
  /\ memo \in [Memo!Id -> MemoType] /\ snapshot \in [Memo!Id -> SnapshotType]
  /\ \A id \in Memo!Id : OwnedWell(memo[id], id, Memo!Made, snapshot)
  /\ \A i \in Memo!Made : SnapshotGood(snapshot[i], memo)

LEMMA FoundOn ==
  ASSUME NEW h \in HandleType, NEW m \in MemoType, NEW n \in MemoType,
         NEW ops \in SUBSET Memo!Operation, Found(h, m, ops), Continues(m, n)
  PROVE  Found(h, n, ops)
<1>1. /\ m.undoBase \in Nat /\ m.dropped \in Nat /\ Total(m) \in Nat /\ Identified(m) \in Nat
      /\ n.undoBase \in Nat /\ n.dropped \in Nat /\ Total(n) \in Nat /\ Identified(n) \in Nat
      /\ Len(n.order) \in Nat /\ Len(m.order) \in Nat /\ Identified(m) = m.dropped + Len(m.order)
  BY MemoNumbers
<1>2. h.undoCount \in Nat /\ h.appliedCount \in Nat
  BY DEF HandleType
<1>3. /\ m.undoBase <= n.undoBase /\ m.dropped <= n.dropped
      /\ Total(m) <= Total(n) /\ Identified(m) <= Identified(n)
      /\ h.undoCount <= Total(m) /\ h.appliedCount <= Identified(m)
  BY DEF Continues, Found
<1>4. h.undoCount <= Total(n)
  BY <1>1, <1>2, <1>3
<1>5. h.appliedCount <= Identified(n)
  BY <1>1, <1>2, <1>3
<1>6. ASSUME h.undoCount >= n.undoBase
      PROVE  Answered(At(n, h.undoCount), ops)
  <2>1. h.undoCount \in n.undoBase .. Total(m)
    BY <1>1, <1>2, <1>3, <1>6
  <2>2. h.undoCount >= m.undoBase
    BY <1>1, <1>2, <1>3, <1>6, SMTT(30)
  <2>3. At(n, h.undoCount) = At(m, h.undoCount)
    BY <2>1 DEF Continues
  <2> QED BY <2>2, <2>3 DEF Found
<1>7. ASSUME NEW i \in 1 .. Len(n.order), n.dropped + i <= h.appliedCount
      PROVE  n.order[i] \in ops
  <2>1. i \in Nat /\ i >= 1
    BY <1>1
  <2>2. n.dropped + i <= Identified(m)
    BY <1>1, <1>2, <1>3, <1>7, <2>1
  <2> DEFINE j == (n.dropped + i) - m.dropped
  <2>3. n.order[i] = m.order[j]
    BY <2>2 DEF Continues
  <2>4. j \in 1 .. Len(m.order) /\ m.dropped + j = n.dropped + i
    <3> DEFINE goneM == m.dropped
               goneN == n.dropped
               length == Len(m.order)
               allM == Identified(m)
    <3>1. /\ goneM \in Nat /\ goneN \in Nat /\ length \in Nat /\ allM \in Nat /\ i \in Nat
          /\ goneM <= goneN /\ allM = goneM + length /\ goneN + i <= allM /\ i >= 1
      BY <1>1, <1>3, <2>1, <2>2
    <3>2. j = (goneN + i) - goneM
      OBVIOUS
    <3> HIDE DEF goneM, goneN, length, allM, j
    <3>3. j \in 1 .. length /\ goneM + j = goneN + i
      BY <3>1, <3>2
    <3> QED BY <3>3 DEF goneM, goneN, length
  <2> HIDE DEF j
  <2>5. m.dropped + j <= h.appliedCount
    BY <1>7, <2>4
  <2> QED BY <2>3, <2>4, <2>5 DEF Found
<1>8. ASSUME NEW op \in ops
      PROVE  op <= n.held[Memo!IndexOf(op)]
  <2>1. op \in Nat /\ Memo!IndexOf(op) \in Memo!Index
    BY IndexFacts
  <2>2. m.held[Memo!IndexOf(op)] \in Nat /\ n.held[Memo!IndexOf(op)] \in Nat
    BY <2>1, MemoNumbers
  <2>3. op <= m.held[Memo!IndexOf(op)] /\ m.held[Memo!IndexOf(op)] <= n.held[Memo!IndexOf(op)]
    BY <2>1 DEF Found, Continues
  <2> QED BY <2>1, <2>2, <2>3
<1> QED BY <1>4, <1>5, <1>6, <1>7, <1>8 DEF Found

(* Who owns it does not matter to what is found.                           *)
LEMMA OwnedFacts ==
  ASSUME NEW m \in MemoType, NEW i \in Nat, NEW n, n = Memo!Owned(m, i)
  PROVE  /\ n \in MemoType /\ n.owner = i /\ Continues(m, n) /\ (Windowed(m) => Windowed(n))
         /\ n.held = m.held /\ n.order = m.order
         /\ \A id : Memo!Handle(n, id) = Memo!Handle(m, id)
<1>1. n = [m EXCEPT !.owner = i]
  BY DEF Memo!Owned
<1>2. /\ n \in MemoType /\ n.owner = i /\ n.held = m.held /\ n.undo = m.undo
      /\ n.undoBase = m.undoBase /\ n.order = m.order /\ n.dropped = m.dropped
  BY <1>1 DEF MemoType
<1>3. Total(n) = Total(m) /\ Identified(n) = Identified(m) /\ \A place : At(n, place) = At(m, place)
  BY <1>2 DEF Total, Identified, At
<1>4. Continues(m, m)
  BY ContinuesSelf
<1>5. Continues(m, n)
  BY <1>2, <1>3, <1>4 DEF Continues
<1> QED BY <1>2, <1>5 DEF Windowed, Memo!Handle

(* A handle on a memo as it stands finds what was folded into it.          *)
LEMMA HandleFinds ==
  ASSUME NEW m \in MemoType, NEW id \in Nat, NEW ops \in SUBSET Memo!Operation,
         Answered(m.held, ops), Memo!ToSet(m.order) \subseteq ops
  PROVE  Memo!Handle(m, id) \in HandleType /\ Found(Memo!Handle(m, id), m, ops)
<1> DEFINE h == Memo!Handle(m, id)
<1>1. h.memo = id /\ h.undoCount = Total(m) /\ h.appliedCount = Identified(m)
      /\ h = [memo |-> id, undoCount |-> Total(m), appliedCount |-> Identified(m)]
  BY DEF Memo!Handle, Total, Identified
<1> HIDE DEF h
<1>2. Total(m) \in Nat /\ Identified(m) \in Nat /\ m.undo \in Seq(StepType) /\ m.order \in Seq(Memo!Operation)
  BY MemoNumbers DEF MemoType
<1>3. h \in HandleType
  BY <1>1, <1>2 DEF HandleType
<1>4. At(m, Total(m)) = m.held
  <2>1. Total(m) - Total(m) = 0
    BY <1>2
  <2> QED BY <1>2, <2>1, UndoneUnfolds DEF At
<1>5. \A i \in 1 .. Len(m.order) : m.order[i] \in ops
  BY <1>2 DEF Memo!ToSet
<1>6. ASSUME NEW op \in ops
      PROVE  op <= m.held[Memo!IndexOf(op)]
  <2>1. Memo!IndexOf(op) \in Memo!Index
    BY IndexFacts
  <2> QED BY <2>1 DEF Answered, IsBest
<1>7. Found(h, m, ops)
  BY <1>1, <1>2, <1>4, <1>5, <1>6 DEF Found
<1> QED BY <1>3, <1>7 DEF h

(* What a current handle finds is what the memo holds.                     *)
LEMMA CurrentFinds ==
  ASSUME NEW m \in MemoType, NEW h \in HandleType, NEW ops \in SUBSET Memo!Operation,
         Found(h, m, ops), h.undoCount = Total(m)
  PROVE  Answered(m.held, ops)
<1>1. Total(m) \in Nat /\ m.undo \in Seq(StepType) /\ m.undoBase <= Total(m)
  <2>1. m.undoBase \in Nat /\ Len(m.undo) \in Nat /\ Total(m) = m.undoBase + Len(m.undo)
    BY MemoNumbers
  <2>2. m.undo \in Seq(StepType)
    BY DEF MemoType
  <2> QED BY <2>1, <2>2
<1>2. At(m, Total(m)) = m.held
  <2>1. Total(m) - Total(m) = 0
    BY <1>1
  <2> QED BY <1>1, <2>1, UndoneUnfolds DEF At
<1> QED BY <1>1, <1>2 DEF Found

LEMMA NewMemo ==
  /\ Memo!EmptyMemo \in MemoType /\ Windowed(Memo!EmptyMemo) /\ Memo!EmptyMemo.owner = 0
  /\ Memo!EmptyMemo.held = Memo!Nothing /\ Memo!EmptyMemo.order = <<>> /\ Memo!EmptyMemo.undoBase = 0
  /\ Answered(Memo!Nothing, {}) /\ Memo!Nothing \in [Memo!Index -> Nat]
  /\ Memo!ToSet(Memo!EmptyMemo.order) = {}
<1>1. Memo!Nothing \in [Memo!Index -> Nat] /\ \A x \in Memo!Index : Memo!Nothing[x] = 0
  BY DEF Memo!Nothing
<1>2. MaxApplied \in Nat
  BY MemoLimits
<1>3. <<>> \in Seq(StepType) /\ <<>> \in Seq(Memo!Operation) /\ Len(<<>>) = 0
  OBVIOUS
<1>4. Memo!EmptyMemo \in MemoType /\ Memo!EmptyMemo.owner = 0 /\ Memo!EmptyMemo.held = Memo!Nothing
      /\ Memo!EmptyMemo.order = <<>> /\ Memo!EmptyMemo.undoBase = 0
  BY <1>1, <1>3 DEF Memo!EmptyMemo, MemoType
<1>5. Windowed(Memo!EmptyMemo)
  BY <1>2, <1>3, <1>4 DEF Windowed
<1>6. Answered(Memo!Nothing, {})
  BY <1>1 DEF Answered, IsBest
<1>7. Memo!ToSet(Memo!EmptyMemo.order) = {}
  BY <1>4 DEF Memo!ToSet
<1> QED BY <1>1, <1>4, <1>5, <1>6, <1>7

LEMMA SnapshotGoodOn ==
  ASSUME NEW s \in SnapshotType, NEW before \in [Memo!Id -> MemoType],
         NEW after \in [Memo!Id -> MemoType], SnapshotGood(s, before),
         \A id \in Memo!Id : before[id].owner # 0 =>
           after[id].owner # 0 /\ Continues(before[id], after[id])
  PROVE  SnapshotGood(s, after)
<1>1. /\ s.own.memo \in Memo!Id /\ before[s.own.memo].owner # 0
      /\ s.home.memo \in Memo!Id /\ before[s.home.memo].owner # 0
      /\ Found(s.own, before[s.own.memo], s.truth) /\ Found(s.home, before[s.home.memo], s.truth)
  BY DEF SnapshotGood
<1>2. s.own \in HandleType /\ s.home \in HandleType /\ s.truth \in SUBSET Memo!Operation
  BY DEF SnapshotType
<1>3. Found(s.own, after[s.own.memo], s.truth)
  <2>1. Continues(before[s.own.memo], after[s.own.memo])
        /\ before[s.own.memo] \in MemoType /\ after[s.own.memo] \in MemoType
    BY <1>1
  <2> QED BY <1>1, <1>2, <2>1, FoundOn
<1>4. Found(s.home, after[s.home.memo], s.truth)
  <2>1. Continues(before[s.home.memo], after[s.home.memo])
        /\ before[s.home.memo] \in MemoType /\ after[s.home.memo] \in MemoType
    BY <1>1
  <2> QED BY <1>1, <1>2, <2>1, FoundOn
<1> QED BY <1>1, <1>3, <1>4 DEF SnapshotGood

LEMMA FrontIs ==
  ASSUME NEW S, NEW whole, NEW k \in Nat, \A i \in 1 .. k : whole[i] \in S
  PROVE  /\ SubSeq(whole, 1, k) \in Seq(S) /\ Len(SubSeq(whole, 1, k)) = k
         /\ \A i \in 1 .. k : SubSeq(whole, 1, k)[i] = whole[i]
<1> DEFINE front == SubSeq(whole, 1, k)
<1>1. /\ front \in Seq(S) /\ Len(front) = IF 1 <= k THEN k - 1 + 1 ELSE 0
      /\ \A i \in 1 .. k - 1 + 1 : front[i] = whole[1 + i - 1]
  <2>1. 1 \in Int /\ k \in Int
    OBVIOUS
  <2> QED BY <2>1, SubSeqProperties
<1> HIDE DEF front
<1>2. k - 1 + 1 = k /\ \A i \in 1 .. k : 1 + i - 1 = i
  OBVIOUS
<1>3. front \in Seq(S) /\ Len(front) = k /\ \A i \in 1 .. k : front[i] = whole[i]
  BY <1>1, <1>2
<1> QED BY <1>3 DEF front

LEMMA RememberedFacts ==
  ASSUME NEW s \in SnapshotType, memo \in [Memo!Id -> MemoType], SnapshotGood(s, memo)
  PROVE  Memo!Remembered(s) \in Seq(s.truth)
<1> DEFINE m == memo[s.own.memo]
           k == IF s.own.appliedCount > m.dropped THEN s.own.appliedCount - m.dropped ELSE 0
<1>1. m \in MemoType /\ Found(s.own, m, s.truth) /\ s.truth \in SUBSET Memo!Operation
      /\ s.own.appliedCount \in Nat
  BY DEF SnapshotGood, SnapshotType, HandleType
<1>2. CASE s.applied # Memo!Unread
  BY <1>2 DEF Memo!Remembered, SnapshotGood
<1>3. CASE s.applied = Memo!Unread
  <2>1. Memo!Remembered(s) = Memo!Sorted({m.order[n] : n \in 1 .. k})
    BY <1>3 DEF Memo!Remembered
  <2> HIDE DEF m
  <2>2. m.dropped \in Nat /\ Len(m.order) \in Nat /\ Identified(m) = m.dropped + Len(m.order)
        /\ m.order \in Seq(Memo!Operation)
    BY <1>1, MemoNumbers DEF MemoType
  <2>3. s.own.appliedCount <= Identified(m)
    BY <1>1 DEF Found
  <2>4. k \in 0 .. Len(m.order) /\ (k > 0 => m.dropped + k = s.own.appliedCount)
    BY <1>1, <2>2, <2>3
  <2> HIDE DEF k
  <2> DEFINE list == SubSeq(m.order, 1, k)
  <2>5. k \in Int /\ \A i \in 1 .. k : m.order[i] \in s.truth
    <3> SUFFICES ASSUME NEW i \in 1 .. k PROVE m.order[i] \in s.truth
      BY <2>4
    <3>1. i \in 1 .. Len(m.order) /\ m.dropped + i <= s.own.appliedCount
      BY <1>1, <2>2, <2>4
    <3> QED BY <1>1, <3>1 DEF Found
  <2>6. /\ list \in Seq(s.truth) /\ Len(list) = k
        /\ \A i \in 1 .. k : list[i] = m.order[i]
    <3>1. k \in Nat
      BY <2>2, <2>4
    <3>2. \A i \in 1 .. k : m.order[i] \in s.truth
      BY <2>5
    <3> DEFINE whole == m.order
               S == s.truth
    <3>3. \A i \in 1 .. k : whole[i] \in S
      BY <3>2
    <3> HIDE DEF whole, S
    <3>4. /\ SubSeq(whole, 1, k) \in Seq(S) /\ Len(SubSeq(whole, 1, k)) = k
          /\ \A i \in 1 .. k : SubSeq(whole, 1, k)[i] = whole[i]
      BY <3>1, <3>3, FrontIs
    <3> QED BY <3>4 DEF whole, S
  <2> HIDE DEF list
  <2>7. {m.order[n] : n \in 1 .. k} = {list[n] : n \in 1 .. k}
    BY <2>6
  <2>8. k \in 0 .. Len(list)
    BY <2>4, <2>6
  <2> QED BY <1>1, <2>1, <2>6, <2>7, <2>8, SortedKeeps
<1> QED BY <1>2, <1>3

LEMMA MemoInitially == Memo!Init => MemoInvariant
<1> SUFFICES ASSUME Memo!Init PROVE MemoInvariant
  OBVIOUS
<1>1. 1 \in Memo!Id /\ Memo!Id \subseteq Nat \ {0} /\ 0 \notin Memo!Id
  BY MemoLimits DEF Memo!Id
<1> DEFINE first == Memo!Owned(Memo!EmptyMemo, 1)
           fresh == Memo!Handle(Memo!EmptyMemo, 0)
           base == Memo!Handle(Memo!EmptyMemo, 1)
<1>2. /\ first \in MemoType /\ first.owner = 1 /\ Windowed(first) /\ first.held = Memo!EmptyMemo.held
      /\ first.order = Memo!EmptyMemo.order /\ Memo!Handle(first, 1) = base
  BY NewMemo, OwnedFacts
<1>3. fresh \in HandleType /\ fresh.memo = 0
  BY NewMemo, HandleFinds DEF Memo!Handle
<1>4. base \in HandleType /\ base.memo = 1
  BY NewMemo, HandleFinds DEF Memo!Handle
<1>5. Found(base, first, {})
  <2>1. Found(Memo!Handle(first, 1), first, {})
    BY <1>2, NewMemo, HandleFinds
  <2> QED BY <1>2, <2>1
<1>6. Memo!NoSnapshot \in SnapshotType /\ Memo!NoSnapshot.own.memo = 0
  <2>1. Memo!Unread \in Seq(Nat)
    BY DEF Memo!Unread
  <2> HIDE DEF fresh
  <2>2. Memo!NoSnapshot = [own |-> fresh, home |-> fresh, kept |-> "none", indexes |-> Memo!Nothing,
               view |-> -1, activated |-> -1, applied |-> Memo!Unread, truth |-> {}, pieces |-> FALSE]
    BY DEF Memo!NoSnapshot, fresh
  <2> QED BY <1>3, <2>1, <2>2, NewMemo DEF SnapshotType
<1>7. /\ Memo!Snapshot(Memo!EmptyMemo, 1, {}) \in SnapshotType
      /\ Memo!Snapshot(Memo!EmptyMemo, 1, {}).own = base
      /\ Memo!Snapshot(Memo!EmptyMemo, 1, {}).home = base
      /\ Memo!Snapshot(Memo!EmptyMemo, 1, {}).truth = {} /\ Memo!Snapshot(Memo!EmptyMemo, 1, {}).kept = "none"
      /\ Memo!Snapshot(Memo!EmptyMemo, 1, {}).view = -1 /\ Memo!Snapshot(Memo!EmptyMemo, 1, {}).activated = -1
      /\ Memo!Snapshot(Memo!EmptyMemo, 1, {}).applied = Memo!Unread
  <2> HIDE DEF base
  <2>1. Memo!Snapshot(Memo!EmptyMemo, 1, {}) =
          [Memo!NoSnapshot EXCEPT !.own = base, !.home = base, !.truth = {}]
    BY DEF Memo!Snapshot, base
  <2>2. Memo!NoSnapshot.kept = "none" /\ Memo!NoSnapshot.view = -1 /\ Memo!NoSnapshot.activated = -1
        /\ Memo!NoSnapshot.applied = Memo!Unread
    BY DEF Memo!NoSnapshot
  <2> QED BY <1>4, <1>6, <2>1, <2>2 DEF SnapshotType
<1> HIDE DEF first, fresh, base
<1>8. /\ memo = [m \in Memo!Id |-> IF m = 1 THEN first ELSE Memo!EmptyMemo]
      /\ snapshot = [i \in Memo!Id |-> IF i = 1 THEN Memo!Snapshot(Memo!EmptyMemo, 1, {}) ELSE Memo!NoSnapshot]
  BY DEF Memo!Init, first
<1>9. memo \in [Memo!Id -> MemoType] /\ snapshot \in [Memo!Id -> SnapshotType]
  BY <1>2, <1>6, <1>7, <1>8, NewMemo
<1>10. Memo!Made = {1}
  BY <1>1, <1>4, <1>6, <1>7, <1>8 DEF Memo!Made
<1>11. SnapshotGood(snapshot[1], memo)
  <2>1. snapshot[1] = Memo!Snapshot(Memo!EmptyMemo, 1, {}) /\ memo[1] = first
    BY <1>1, <1>8
  <2> QED BY <1>1, <1>2, <1>4, <1>5, <1>7, <2>1 DEF SnapshotGood, ReadWell
<1>12. ASSUME NEW id \in Memo!Id
       PROVE  OwnedWell(memo[id], id, Memo!Made, snapshot)
  <2>1. CASE id = 1
    <3>1. memo[id] = first /\ snapshot[1] = Memo!Snapshot(Memo!EmptyMemo, 1, {})
      BY <1>1, <1>8, <2>1
    <3> QED BY <1>2, <1>7, <1>10, <2>1, <3>1 DEF OwnedWell
  <2>2. CASE id # 1
    <3>1. memo[id] = Memo!EmptyMemo
      BY <1>8, <2>2
    <3> QED BY <3>1, NewMemo DEF OwnedWell
  <2> QED BY <2>1, <2>2
<1> QED BY <1>9, <1>10, <1>11, <1>12 DEF MemoInvariant

LEMMA BatchesAreFew == Memo!Batches \subseteq Few
<1> SUFFICES ASSUME NEW ops \in Memo!Batches PROVE ops \in Few
  OBVIOUS
<1>1. CASE \E op \in Memo!Operation : ops = <<op>>
  BY <1>1 DEF Few
<1>2. CASE \E op \in Entry, other \in Activation : ops = <<op, other>>
  BY <1>2 DEF Few, Memo!Operation
<1> QED BY <1>1, <1>2 DEF Memo!Batches

(* A snapshot that was made just now.                                      *)
LEMMA MadeNow ==
  ASSUME NEW m \in MemoType, NEW id \in Memo!Id, NEW j \in Memo!Id, NEW ops \in SUBSET Memo!Operation,
         Answered(m.held, ops), Memo!ToSet(m.order) \subseteq ops,
         NEW memos \in [Memo!Id -> MemoType], memos[id] = Memo!Owned(m, j)
  PROVE  /\ Memo!Snapshot(m, id, ops) \in SnapshotType /\ Memo!Snapshot(m, id, ops).own.memo = id
         /\ Memo!Snapshot(m, id, ops).home = Memo!Handle(Memo!Owned(m, j), id)
         /\ SnapshotGood(Memo!Snapshot(m, id, ops), memos)
<1> DEFINE s == Memo!Snapshot(m, id, ops)
           h == Memo!Handle(m, id)
           n == Memo!Owned(m, j)
<1>1. id \in Nat \ {0} /\ j \in Nat \ {0}
  BY MemoLimits DEF Memo!Id
<1>2. /\ n \in MemoType /\ n.owner = j /\ n.held = m.held /\ n.order = m.order
      /\ Memo!Handle(n, id) = h
  BY <1>1, OwnedFacts
<1>3. h \in HandleType /\ Found(h, n, ops)
  BY <1>1, <1>2, HandleFinds
<1>4. h.memo = id
  BY DEF Memo!Handle
<1> HIDE DEF h, n
<1>5. s = [Memo!NoSnapshot EXCEPT !.own = h, !.home = h, !.truth = ops]
  BY DEF Memo!Snapshot, h
<1>6. Memo!NoSnapshot \in SnapshotType /\ Memo!NoSnapshot.kept = "none" /\ Memo!NoSnapshot.view = -1
      /\ Memo!NoSnapshot.activated = -1 /\ Memo!NoSnapshot.applied = Memo!Unread
  <2> DEFINE fresh == Memo!Handle(Memo!EmptyMemo, 0)
  <2>1. fresh \in HandleType
    BY NewMemo, HandleFinds
  <2>2. Memo!Unread \in Seq(Nat)
    BY DEF Memo!Unread
  <2> HIDE DEF fresh
  <2>3. Memo!NoSnapshot = [own |-> fresh, home |-> fresh, kept |-> "none", indexes |-> Memo!Nothing,
               view |-> -1, activated |-> -1, applied |-> Memo!Unread, truth |-> {}, pieces |-> FALSE]
    BY DEF Memo!NoSnapshot, fresh
  <2> QED BY <2>1, <2>2, <2>3, NewMemo DEF SnapshotType
<1> HIDE DEF s
<1>7. /\ s \in SnapshotType /\ s.own = h /\ s.home = h /\ s.truth = ops /\ s.kept = "none"
      /\ s.view = -1 /\ s.activated = -1 /\ s.applied = Memo!Unread
  BY <1>3, <1>5, <1>6 DEF SnapshotType
<1>8. SnapshotGood(s, memos)
  <2>1. memos[id] = n
    BY DEF n
  <2> QED BY <1>1, <1>2, <1>3, <1>4, <1>7, <2>1 DEF SnapshotGood, ReadWell
<1>9. s.home = Memo!Handle(n, id) /\ s.own.memo = id
  BY <1>2, <1>4, <1>7
<1> QED BY <1>7, <1>8, <1>9 DEF s, n

(* One memo is put in the place of another, and at most one snapshot is    *)
(* made, or moved to it.                                                   *)
LEMMA MemoPut ==
  ASSUME MemoInvariant, NEW id \in Memo!Id, NEW m \in MemoType, NEW j \in Memo!Id, NEW i \in Memo!Made,
         memo' = [memo EXCEPT ![id] = Memo!Owned(m, j)], Windowed(m),
         memo[id].owner # 0 => Continues(memo[id], m),
         NEW read \in SnapshotType, SnapshotGood(read, memo), read.own = snapshot[i].own,
         read.home = snapshot[i].home,
         NEW s \in SnapshotType, SnapshotGood(s, memo'), s.home = Memo!Handle(Memo!Owned(m, j), id),
         s.own.memo # 0,
         snapshot' = [snapshot EXCEPT ![i] = read, ![j] = s],
         \/ j \notin Memo!Made
         \/ j = i /\ \A k \in Memo!Id : memo[k].owner # i
  PROVE  MemoInvariant'
<1>1. /\ memo \in [Memo!Id -> MemoType] /\ snapshot \in [Memo!Id -> SnapshotType]
      /\ \A k \in Memo!Id : OwnedWell(memo[k], k, Memo!Made, snapshot)
      /\ \A k \in Memo!Made : SnapshotGood(snapshot[k], memo)
      /\ Memo!Made \subseteq Memo!Id /\ Memo!Id \subseteq Nat \ {0}
  <2>1. Memo!Made \subseteq Memo!Id /\ Memo!Id \subseteq Nat \ {0}
    BY MemoLimits DEF Memo!Made, Memo!Id
  <2> QED BY <2>1 DEF MemoInvariant
<1> DEFINE n == Memo!Owned(m, j)
<1>2. n \in MemoType /\ n.owner = j /\ Continues(m, n) /\ Windowed(n)
  <2>1. j \in Nat
    BY <1>1
  <2> QED BY <2>1, OwnedFacts
<1> HIDE DEF n
<1>3. /\ memo' \in [Memo!Id -> MemoType] /\ snapshot' \in [Memo!Id -> SnapshotType]
      /\ memo'[id] = n /\ \A k \in Memo!Id : k # id => memo'[k] = memo[k]
      /\ snapshot'[j] = s /\ (i # j => snapshot'[i] = read)
      /\ \A k \in Memo!Id : k # j /\ k # i => snapshot'[k] = snapshot[k]
  BY <1>1, <1>2 DEF n
<1>4. Memo!Made' = Memo!Made \cup {j}
  BY <1>1, <1>3 DEF Memo!Made
<1>5. ASSUME NEW k \in Memo!Id, memo[k].owner # 0
      PROVE  memo'[k].owner # 0 /\ Continues(memo[k], memo'[k])
  <2>1. CASE k = id
    <3>1. Continues(memo[k], m) /\ memo[k] \in MemoType
      BY <1>1, <1>5, <2>1
    <3>2. Continues(memo[k], n)
      BY <1>2, <3>1, ContinuesOn
    <3> QED BY <1>1, <1>2, <1>3, <2>1, <3>2
  <2>2. CASE k # id
    <3>1. memo[k] \in MemoType /\ memo'[k] = memo[k]
      BY <1>1, <1>3, <2>2
    <3> QED BY <1>5, <3>1, ContinuesSelf
  <2> QED BY <2>1, <2>2
<1>o. ASSUME NEW u \in SnapshotType, SnapshotGood(u, memo)
      PROVE  SnapshotGood(u, memo')
  <2>1. \A k \in Memo!Id : memo[k].owner # 0 => memo'[k].owner # 0 /\ Continues(memo[k], memo'[k])
    BY <1>5
  <2>2. memo \in [Memo!Id -> MemoType] /\ memo' \in [Memo!Id -> MemoType]
    BY <1>1, <1>3
  <2> DEFINE after == memo'
  <2> HIDE DEF after
  <2>3. SnapshotGood(u, after)
    <3>1. \A k \in Memo!Id : memo[k].owner # 0 => after[k].owner # 0 /\ Continues(memo[k], after[k])
      BY <2>1 DEF after
    <3>2. after \in [Memo!Id -> MemoType]
      BY <2>2 DEF after
    <3> QED BY <1>o, <2>2, <3>1, <3>2, SnapshotGoodOn
  <2> QED BY <2>3 DEF after
<1>6. ASSUME NEW k \in Memo!Made'
      PROVE  SnapshotGood(snapshot'[k], memo')
  <2>1. CASE k = j
    BY <1>3, <2>1
  <2>2. CASE k # j /\ k = i
    <3>1. snapshot'[k] = read
      BY <1>3, <2>2
    <3> QED BY <1>o, <3>1
  <2>3. CASE k # j /\ k # i
    <3>1. k \in Memo!Made /\ snapshot'[k] = snapshot[k] /\ snapshot[k] \in SnapshotType
          /\ SnapshotGood(snapshot[k], memo)
      BY <1>1, <1>3, <1>4, <2>3
    <3> QED BY <1>o, <3>1
  <2> QED BY <2>1, <2>2, <2>3
<1>7. ASSUME NEW k \in Memo!Id
      PROVE  OwnedWell(memo'[k], k, Memo!Made', snapshot')
  <2>1. CASE k = id
    <3>1. memo'[k] = n /\ snapshot'[n.owner].home = Memo!Handle(n, k)
      BY <1>2, <1>3, <2>1 DEF n
    <3> QED BY <1>2, <1>4, <3>1 DEF OwnedWell
  <2>2. CASE k # id
    <3>1. memo'[k] = memo[k] /\ OwnedWell(memo[k], k, Memo!Made, snapshot)
      BY <1>1, <1>3, <2>2
    <3> DEFINE o == memo[k].owner
    <3>2. o \in Memo!Made \cup {0} /\ Windowed(memo[k])
      BY <3>1 DEF OwnedWell
    <3>3. ASSUME o # 0 PROVE snapshot'[o].home = Memo!Handle(memo[k], k)
      <4>1. o \in Memo!Made /\ o # j
        BY <3>2, <3>3
      <4>2. snapshot[o].home = Memo!Handle(memo[k], k)
        BY <3>1, <3>3 DEF OwnedWell
      <4>3. snapshot'[o].home = snapshot[o].home
        BY <1>1, <1>3, <4>1
      <4> QED BY <4>2, <4>3
    <3> QED BY <1>4, <3>1, <3>2, <3>3 DEF OwnedWell
  <2> QED BY <2>1, <2>2
<1> QED BY <1>3, <1>6, <1>7 DEF MemoInvariant

LEMMA MemoFacts ==
  ASSUME MemoInvariant
  PROVE  /\ memo \in [Memo!Id -> MemoType] /\ snapshot \in [Memo!Id -> SnapshotType]
         /\ \A k \in Memo!Id : OwnedWell(memo[k], k, Memo!Made, snapshot)
         /\ \A k \in Memo!Made : SnapshotGood(snapshot[k], memo) /\ snapshot[k].own.memo # 0
         /\ Memo!Made \subseteq Memo!Id /\ Memo!Id \subseteq Nat \ {0}
         /\ Memo!Unmade \subseteq Memo!Id \ Memo!Made
BY MemoLimits DEF MemoInvariant, Memo!Made, Memo!Unmade, Memo!Id

(* A memo holds what was folded into the snapshot that owns it.            *)
LEMMA OwnersHold ==
  ASSUME MemoInvariant, NEW id \in Memo!Id, memo[id].owner # 0
  PROVE  LET i == memo[id].owner
         IN /\ i \in Memo!Made /\ Answered(memo[id].held, snapshot[i].truth)
            /\ Memo!ToSet(memo[id].order) \subseteq snapshot[i].truth
<1> DEFINE m == memo[id]
           i == m.owner
           h == snapshot[i].home
<1>1. m \in MemoType /\ i \in Memo!Made /\ h = Memo!Handle(m, id)
  BY MemoFacts DEF OwnedWell
<1>2. h.memo = id /\ h.undoCount = Total(m) /\ h.appliedCount = Identified(m)
  BY <1>1 DEF Memo!Handle, Total, Identified
<1>3. snapshot[i] \in SnapshotType /\ SnapshotGood(snapshot[i], memo)
  <2> HIDE DEF i, m, h
  <2>1. i \in Memo!Id /\ snapshot \in [Memo!Id -> SnapshotType]
    BY <1>1, MemoFacts
  <2> QED BY <1>1, <2>1, MemoFacts
<1>4. h \in HandleType /\ Found(h, m, snapshot[i].truth) /\ snapshot[i].truth \in SUBSET Memo!Operation
  BY <1>2, <1>3 DEF SnapshotGood, SnapshotType
<1>5. Answered(m.held, snapshot[i].truth)
  BY <1>1, <1>2, <1>4, CurrentFinds
<1>6. Memo!ToSet(m.order) \subseteq snapshot[i].truth
  <2>1. m.order \in Seq(Memo!Operation) /\ Len(m.order) \in Nat /\ m.dropped \in Nat
        /\ Identified(m) = m.dropped + Len(m.order)
    BY <1>1, MemoNumbers DEF MemoType
  <2>2. ASSUME NEW n \in 1 .. Len(m.order) PROVE m.order[n] \in snapshot[i].truth
    <3>1. m.dropped + n <= h.appliedCount
      BY <1>2, <2>1
    <3> QED BY <1>4, <3>1 DEF Found
  <2> QED BY <2>1, <2>2 DEF Memo!ToSet
<1> QED BY <1>1, <1>5, <1>6

(* The one memo that is not in use is nobody's.                            *)
LEMMA UnusedFacts ==
  ASSUME MemoInvariant, NEW id \in Memo!Unused
  PROVE  id \in Memo!Id /\ memo[id].owner = 0
BY NewMemo DEF Memo!Unused

(* A snapshot is made of a memo that was just put there.                   *)
LEMMA SnapshotMade ==
  ASSUME MemoInvariant, NEW i \in Memo!Made, NEW j \in Memo!Unmade, NEW id \in Memo!Id,
         NEW m \in MemoType, NEW ops \in SUBSET Memo!Operation, Windowed(m),
         Answered(m.held, ops), Memo!ToSet(m.order) \subseteq ops,
         memo[id].owner # 0 => Continues(memo[id], m),
         memo' = [memo EXCEPT ![id] = Memo!Owned(m, j)],
         NEW read \in SnapshotType, SnapshotGood(read, memo), read.own = snapshot[i].own,
         read.home = snapshot[i].home,
         NEW s, s = Memo!Snapshot(m, id, ops), snapshot' = [snapshot EXCEPT ![i] = read, ![j] = s]
  PROVE  MemoInvariant'
<1>1. j \in Memo!Id /\ j \notin Memo!Made /\ j \in Nat /\ memo \in [Memo!Id -> MemoType] /\ id # 0
  BY MemoFacts
<1> DEFINE after == [memo EXCEPT ![id] = Memo!Owned(m, j)]
<1>2. after \in [Memo!Id -> MemoType] /\ after[id] = Memo!Owned(m, j)
  BY <1>1, OwnedFacts
<1> HIDE DEF after
<1>3. s \in SnapshotType /\ s.own.memo = id /\ s.home = Memo!Handle(Memo!Owned(m, j), id)
      /\ SnapshotGood(s, after)
  BY <1>1, <1>2, MadeNow
<1>4. memo' = after
  BY DEF after
<1>5. SnapshotGood(s, memo')
  BY <1>3, <1>4
<1> QED BY <1>1, <1>3, <1>5, MemoPut

LEMMA FoldOwnedKeeps ==
  ASSUME MemoInvariant, NEW i \in Memo!Made, NEW ops \in Memo!Batches, Memo!FoldOwned(i, ops)
  PROVE  MemoInvariant'
<1> DEFINE id == snapshot[i].home.memo
           m == Memo!Folded(memo[id], ops)
           all == snapshot[i].truth \cup Memo!ToSet(ops)
<1>1. /\ memo[id].owner = i /\ id \in Memo!Id /\ i # 0
      /\ snapshot[i] \in SnapshotType /\ SnapshotGood(snapshot[i], memo)
      /\ memo[id] \in MemoType /\ Windowed(memo[id]) /\ i \in Memo!Id
  <2>1. memo[id].owner = i
    BY DEF Memo!FoldOwned
  <2>2. i \in Memo!Id /\ i # 0 /\ snapshot[i] \in SnapshotType /\ SnapshotGood(snapshot[i], memo)
    BY MemoFacts
  <2>3. id \in Memo!Id
    BY <2>2 DEF SnapshotGood
  <2> QED BY <2>1, <2>2, <2>3, MemoFacts DEF OwnedWell
<1>2. PICK j \in Memo!Unmade :
        /\ memo' = [memo EXCEPT ![id] = Memo!Owned(m, j)]
        /\ snapshot' = [snapshot EXCEPT ![j] = Memo!Snapshot(m, id, all)]
  BY DEF Memo!FoldOwned
<1>3. Answered(memo[id].held, snapshot[i].truth) /\ Memo!ToSet(memo[id].order) \subseteq snapshot[i].truth
  BY <1>1, OwnersHold
<1>4. ops \in Few /\ Memo!ToSet(ops) \subseteq Memo!Operation /\ snapshot[i].truth \in SUBSET Memo!Operation
  <2>1. ops \in Few
    BY BatchesAreFew
  <2>2. Memo!ToSet(ops) \subseteq Memo!Operation
    BY <2>1 DEF Few, Memo!ToSet
  <2> QED BY <1>1, <2>1, <2>2 DEF SnapshotType
<1>5. /\ m \in MemoType /\ Continues(memo[id], m) /\ Windowed(m)
      /\ Memo!ToSet(m.order) \subseteq Memo!ToSet(memo[id].order) \cup Memo!ToSet(ops)
      /\ Answered(m.held, all)
  <2>1. memo[id].undoBase > 0 => Len(memo[id].undo) >= MaxUndo
    BY <1>1 DEF Windowed
  <2> DEFINE o == memo[id]
  <2>2. o \in MemoType /\ (o.undoBase > 0 => Len(o.undo) >= MaxUndo)
    BY <1>1, <2>1
  <2>3. Answered(o.held, snapshot[i].truth)
    BY <1>3
  <2> HIDE DEF o
  <2>4. m = Memo!Folded(o, ops)
    BY DEF o
  <2> HIDE DEF m
  <2>5. /\ m \in MemoType /\ Continues(o, m) /\ Windowed(m)
        /\ Memo!ToSet(m.order) \subseteq Memo!ToSet(o.order) \cup Memo!ToSet(ops)
        /\ \A some \in SUBSET Memo!Operation :
             Answered(o.held, some) => Answered(m.held, some \cup Memo!ToSet(ops))
    BY <1>4, <2>2, <2>4, FoldFacts
  <2> QED BY <1>4, <2>3, <2>5 DEF o
<1>6. Memo!ToSet(m.order) \subseteq all /\ all \in SUBSET Memo!Operation
  BY <1>3, <1>4, <1>5
<1> HIDE DEF m, all, id
<1>7. snapshot' = [snapshot EXCEPT ![i] = snapshot[i], ![j] = Memo!Snapshot(m, id, all)]
  <2>1. snapshot \in [Memo!Id -> SnapshotType]
    BY MemoFacts
  <2> QED BY <1>1, <1>2, <2>1
<1>8. snapshot[i] \in SnapshotType /\ SnapshotGood(snapshot[i], memo)
  BY <1>1
<1>9. memo' = [memo EXCEPT ![id] = Memo!Owned(m, j)]
  BY <1>2
<1> DEFINE u == Memo!Snapshot(m, id, all)
<1>10. u = Memo!Snapshot(m, id, all) /\ snapshot' = [snapshot EXCEPT ![i] = snapshot[i], ![j] = u]
  BY <1>7
<1> HIDE DEF u
<1> QED BY <1>1, <1>5, <1>6, <1>8, <1>9, <1>10, SnapshotMade

(* The view a handle rewinds to.                                           *)
LEMMA RewoundFacts ==
  ASSUME MemoInvariant, NEW h \in HandleType, h.memo \in Memo!Id, NEW ops,
         Found(h, memo[h.memo], ops), ~Memo!Forgotten(h)
  PROVE  Answered(Memo!Rewound(h), ops)
<1> DEFINE now == memo[h.memo]
<1>1. now \in MemoType /\ h.undoCount \in Nat
  BY MemoFacts DEF HandleType
<1>2. Memo!Rewound(h) = At(now, h.undoCount)
  <2>1. Memo!Rewound(h) = Undone(now.held, now.undo)[now.undoBase + Len(now.undo) - h.undoCount]
    BY RewoundIs
  <2>2. now.undoBase + Len(now.undo) - h.undoCount = Total(now) - h.undoCount
    BY <1>1, MemoNumbers
  <2> QED BY <2>1, <2>2 DEF At
<1>3. h.undoCount >= now.undoBase
  BY <1>1, MemoNumbers DEF Memo!Forgotten
<1> QED BY <1>2, <1>3 DEF Found

LEMMA ReadFacts ==
  ASSUME MemoInvariant, NEW i \in Memo!Made
  PROVE  LET s == snapshot[i]
             read == [s EXCEPT !.applied = Memo!Remembered(s)]
         IN /\ s \in SnapshotType /\ SnapshotGood(s, memo) /\ s.truth \in SUBSET Memo!Operation
            /\ Memo!Remembered(s) \in Seq(s.truth)
            /\ read \in SnapshotType /\ SnapshotGood(read, memo)
            /\ read.own = s.own /\ read.home = s.home /\ read.truth = s.truth
<1> DEFINE s == snapshot[i]
           read == [s EXCEPT !.applied = Memo!Remembered(s)]
<1>1. s \in SnapshotType /\ SnapshotGood(s, memo) /\ memo \in [Memo!Id -> MemoType]
  BY MemoFacts
<1>2. s.truth \in SUBSET Memo!Operation
  BY <1>1 DEF SnapshotType
<1> HIDE DEF s
<1>3. Memo!Remembered(s) \in Seq(s.truth)
  BY <1>1, RememberedFacts
<1>4. Memo!Remembered(s) \in Seq(Nat)
  <2>1. s.truth \subseteq Nat
    BY <1>2, IndexFacts
  <2> QED BY <1>3, <2>1
<1> DEFINE r == Memo!Remembered(s)
<1> HIDE DEF r
<1>5. /\ read \in SnapshotType /\ read.own = s.own /\ read.home = s.home /\ read.truth = s.truth
      /\ read.kept = s.kept /\ read.indexes = s.indexes /\ read.view = s.view
      /\ read.activated = s.activated /\ read.pieces = s.pieces /\ read.applied = r
  <2>1. read = [s EXCEPT !.applied = r] /\ r \in Seq(Nat)
    BY <1>4 DEF r
  <2> QED BY <1>1, <2>1 DEF SnapshotType
<1> HIDE DEF read
<1>6. SnapshotGood(read, memo)
  <2>1. r \in Seq(read.truth)
    BY <1>3, <1>5 DEF r
  <2> QED BY <1>1, <1>5, <2>1 DEF SnapshotGood, ReadWell
<1> QED BY <1>1, <1>2, <1>3, <1>5, <1>6 DEF s, read

LEMMA CopiedFacts ==
  ASSUME MemoInvariant, NEW i \in Memo!Made, ~Memo!Forgotten(snapshot[i].home)
  PROVE  LET c == Memo!Copied(snapshot[i])
         IN /\ c \in MemoType /\ c.undoBase = 0 /\ Answered(c.held, snapshot[i].truth)
            /\ Memo!ToSet(c.order) \subseteq snapshot[i].truth
<1> DEFINE s == snapshot[i]
           view == Memo!Rewound(s.home)
           order == Memo!Remembered(s)
           c == [Memo!EmptyMemo EXCEPT !.held = view, !.order = order]
<1>1. s \in SnapshotType /\ SnapshotGood(s, memo) /\ s.truth \in SUBSET Memo!Operation
      /\ order \in Seq(s.truth)
  BY ReadFacts
<1>2. Answered(view, s.truth)
  <2>1. s.home \in HandleType /\ s.home.memo \in Memo!Id /\ Found(s.home, memo[s.home.memo], s.truth)
    BY <1>1 DEF SnapshotType, SnapshotGood
  <2> QED BY <2>1, RewoundFacts
<1>3. Memo!Copied(s) = c
  BY DEF Memo!Copied
<1> HIDE DEF view, order
<1>4. view \in [Memo!Index -> Nat] /\ order \in Seq(Memo!Operation)
  BY <1>1, <1>2 DEF Answered
<1>5. c \in MemoType /\ c.undoBase = 0 /\ c.held = view /\ c.order = order
  <2>1. Memo!EmptyMemo \in MemoType /\ Memo!EmptyMemo.undoBase = 0
    BY NewMemo
  <2> QED BY <1>4, <2>1 DEF MemoType
<1>6. Memo!ToSet(order) \subseteq s.truth
  BY <1>1 DEF Memo!ToSet
<1> HIDE DEF c
<1> QED BY <1>2, <1>3, <1>5, <1>6

LEMMA FoldCopiedKeeps ==
  ASSUME MemoInvariant, NEW i \in Memo!Made, NEW ops \in Memo!Batches, Memo!FoldCopied(i, ops)
  PROVE  MemoInvariant'
<1> DEFINE s == snapshot[i]
           read == [s EXCEPT !.applied = Memo!Remembered(s)]
           c == Memo!Copied(s)
           m == Memo!Folded(c, ops)
           all == s.truth \cup Memo!ToSet(ops)
<1>1. /\ s \in SnapshotType /\ SnapshotGood(s, memo) /\ s.truth \in SUBSET Memo!Operation
      /\ read \in SnapshotType /\ SnapshotGood(read, memo)
      /\ read.own = s.own /\ read.home = s.home /\ read.truth = s.truth
      /\ i \in Memo!Id /\ i # 0 /\ i \in Nat /\ memo \in [Memo!Id -> MemoType]
      /\ snapshot \in [Memo!Id -> SnapshotType]
  BY ReadFacts, MemoFacts
<1>2. memo[s.home.memo].owner # i /\ ~Memo!Forgotten(s.home)
  BY DEF Memo!FoldCopied
<1>3. PICK id \in Memo!Unused :
          IF m = c
          THEN /\ memo' = [memo EXCEPT ![id] = Memo!Owned(m, i)]
               /\ snapshot' = [snapshot EXCEPT ![i] = [read EXCEPT !.home = Memo!Handle(m, id)]]
          ELSE \E j \in Memo!Unmade :
               /\ memo' = [memo EXCEPT ![id] = Memo!Owned(m, j)]
               /\ snapshot' = [snapshot EXCEPT ![i] = read, ![j] = Memo!Snapshot(m, id, all)]
  BY DEF Memo!FoldCopied
<1>4. id \in Memo!Id /\ memo[id].owner = 0 /\ id \in Nat /\ id # 0
  BY UnusedFacts, MemoFacts
<1>5. /\ c \in MemoType /\ c.undoBase = 0 /\ Answered(c.held, s.truth)
      /\ Memo!ToSet(c.order) \subseteq s.truth
  BY <1>2, CopiedFacts
<1>6. ops \in Few /\ Memo!ToSet(ops) \subseteq Memo!Operation
  <2>1. ops \in Few
    BY BatchesAreFew
  <2> QED BY <2>1 DEF Few, Memo!ToSet
<1> HIDE DEF c
<1>7. /\ m \in MemoType /\ Windowed(m)
      /\ Memo!ToSet(m.order) \subseteq Memo!ToSet(c.order) \cup Memo!ToSet(ops)
      /\ Answered(m.held, all)
  <2>1. c.undoBase > 0 => Len(c.undo) >= MaxUndo
    BY <1>5
  <2> DEFINE f == m
  <2>2. f = Memo!Folded(c, ops)
    OBVIOUS
  <2> HIDE DEF f
  <2>3. /\ f \in MemoType /\ Windowed(f)
        /\ Memo!ToSet(f.order) \subseteq Memo!ToSet(c.order) \cup Memo!ToSet(ops)
        /\ \A some \in SUBSET Memo!Operation :
             Answered(c.held, some) => Answered(f.held, some \cup Memo!ToSet(ops))
    BY <1>5, <1>6, <2>1, <2>2, FoldFacts
  <2>4. Answered(f.held, s.truth \cup Memo!ToSet(ops))
    BY <1>1, <1>5, <2>3
  <2> QED BY <2>3, <2>4 DEF f
<1>8. Memo!ToSet(m.order) \subseteq all /\ all \in SUBSET Memo!Operation
  BY <1>1, <1>5, <1>6, <1>7
<1> HIDE DEF m, all, read
<1>9. CASE m # c
  <2>1. PICK j \in Memo!Unmade :
               /\ memo' = [memo EXCEPT ![id] = Memo!Owned(m, j)]
               /\ snapshot' = [snapshot EXCEPT ![i] = read, ![j] = Memo!Snapshot(m, id, all)]
    BY <1>3, <1>9
  <2> DEFINE u == Memo!Snapshot(m, id, all)
  <2>2. u = Memo!Snapshot(m, id, all) /\ snapshot' = [snapshot EXCEPT ![i] = read, ![j] = u]
        /\ memo' = [memo EXCEPT ![id] = Memo!Owned(m, j)]
    BY <2>1
  <2> HIDE DEF u
  <2> QED BY <1>1, <1>4, <1>7, <1>8, <2>2, SnapshotMade
<1>10. CASE m = c
  <2> DEFINE h == Memo!Handle(m, id)
             n == Memo!Owned(m, i)
             moved == [read EXCEPT !.home = h]
             after == [memo EXCEPT ![id] = n]
  <2>1. memo' = after /\ snapshot' = [snapshot EXCEPT ![i] = moved]
    BY <1>3, <1>10
  <2>2. Answered(m.held, s.truth) /\ Memo!ToSet(m.order) \subseteq s.truth
    BY <1>5, <1>10
  <2>3. /\ n \in MemoType /\ n.owner = i /\ n.held = m.held /\ n.order = m.order
        /\ Memo!Handle(n, id) = h
    BY <1>1, <1>7, OwnedFacts
  <2>4. h \in HandleType /\ Found(h, n, s.truth) /\ h.memo = id
    <3>1. Memo!Handle(n, id) \in HandleType /\ Found(Memo!Handle(n, id), n, s.truth)
      BY <1>1, <1>4, <2>2, <2>3, HandleFinds
    <3>2. h.memo = id
      BY DEF Memo!Handle
    <3> QED BY <2>3, <3>1, <3>2
  <2> HIDE DEF h, n
  <2>5. after \in [Memo!Id -> MemoType] /\ after[id] = n /\ \A k \in Memo!Id : k # id => after[k] = memo[k]
    BY <1>1, <1>4, <2>3
  <2> HIDE DEF after
  <2>6. SnapshotGood(read, after)
    <3>1. ASSUME NEW k \in Memo!Id, memo[k].owner # 0
          PROVE  after[k].owner # 0 /\ Continues(memo[k], after[k])
      <4>1. after[k] = memo[k] /\ memo[k] \in MemoType
        BY <1>1, <1>4, <2>5, <3>1
      <4> QED BY <3>1, <4>1, ContinuesSelf
    <3> QED BY <1>1, <2>5, <3>1, SnapshotGoodOn
  <2>7. /\ moved \in SnapshotType /\ moved.own = read.own /\ moved.home = h
        /\ moved.truth = read.truth /\ moved.kept = read.kept /\ moved.indexes = read.indexes
        /\ moved.view = read.view /\ moved.activated = read.activated
        /\ moved.applied = read.applied /\ moved.pieces = read.pieces
    BY <1>1, <2>4 DEF SnapshotType
  <2> HIDE DEF moved
  <2>8. SnapshotGood(moved, after)
    <3>1. after[h.memo].owner # 0 /\ h.memo \in Memo!Id /\ Found(h, after[h.memo], moved.truth)
      BY <1>1, <1>4, <2>3, <2>4, <2>5, <2>7
    <3> QED BY <2>6, <2>7, <3>1 DEF SnapshotGood, ReadWell
  <2>9. \A k \in Memo!Id : memo[k].owner # i
    <3> SUFFICES ASSUME NEW k \in Memo!Id, memo[k].owner = i PROVE FALSE
      OBVIOUS
    <3>1. s.home = Memo!Handle(memo[k], k)
      BY <1>1, MemoFacts DEF OwnedWell
    <3>2. s.home.memo = k
      BY <3>1 DEF Memo!Handle
    <3> QED BY <1>2, <3>2
  <2>10. moved.own.memo # 0
    BY <1>1, <2>7, MemoFacts
  <2>11. SnapshotGood(moved, memo') /\ memo' = [memo EXCEPT ![id] = Memo!Owned(m, i)]
    BY <2>1, <2>8 DEF after, n
  <2>12. moved.home = Memo!Handle(Memo!Owned(m, i), id)
    BY <2>3, <2>7 DEF n
  <2>13. snapshot' = [snapshot EXCEPT ![i] = read, ![i] = moved]
    BY <1>1, <2>1
  <2>14. memo[id].owner # 0 => Continues(memo[id], m)
    BY <1>4
  <2> QED BY <1>1, <1>4, <1>7, <2>7, <2>9, <2>10, <2>11, <2>12, <2>13, <2>14, MemoPut
<1> QED BY <1>9, <1>10

LEMMA RestoreKeeps ==
  ASSUME MemoInvariant, NEW i \in Memo!Made, Memo!Restore(i)
  PROVE  MemoInvariant'
<1> DEFINE s == snapshot[i]
           Winner(op) == IF op = 0 THEN <<>> ELSE <<op>>
           v == s.view
           act == s.activated
           entries == Winner(v) \o Winner(act)
           stored == s.applied
           start == [Memo!EmptyMemo EXCEPT !.order = stored]
           m == Memo!Folded(start, entries)
           all == Memo!ToSet(entries) \cup Memo!ToSet(stored)
<1>1. v # -1 /\ act # -1 /\ stored # Memo!Unread
  BY DEF Memo!Restore
<1>2. PICK id \in Memo!Unused, j \in Memo!Unmade :
          /\ memo' = [memo EXCEPT ![id] = Memo!Owned(m, j)]
          /\ snapshot' = [snapshot EXCEPT ![j] = Memo!Snapshot(m, id, all)]
  BY DEF Memo!Restore
<1>3. s \in SnapshotType /\ SnapshotGood(s, memo) /\ s.truth \in SUBSET Memo!Operation
      /\ i \in Memo!Id /\ snapshot \in [Memo!Id -> SnapshotType]
  BY ReadFacts, MemoFacts
<1>4. /\ stored \in Seq(s.truth)
      /\ v \in Nat /\ (v = 0 \/ (v \in Memo!Operation /\ Memo!IndexOf(v) = "entries"))
      /\ act \in Nat /\ (act = 0 \/ (act \in Memo!Operation /\ Memo!IndexOf(act) = "activations"))
      /\ \A op \in s.truth : Memo!IndexOf(op) = "entries" => op <= v
      /\ \A op \in s.truth : Memo!IndexOf(op) = "activations" => op <= act
  BY <1>1, <1>3 DEF SnapshotGood, ReadWell
<1>5. id \in Memo!Id /\ memo[id].owner = 0
  BY UnusedFacts
<1> HIDE DEF v, act, stored
<1>6. entries \in Few /\ Memo!ToSet(entries) = {v, act} \ {0}
  <2>1. CASE v = 0 /\ act = 0
    <3>1. entries = <<>>
      BY <2>1
    <3>2. Memo!ToSet(<<>>) = {} /\ <<>> \in Few
      BY DEF Memo!ToSet, Few
    <3> QED BY <2>1, <3>1, <3>2
  <2>2. CASE v # 0 /\ act = 0
    <3>1. entries = <<v>> /\ v \in Memo!Operation
      BY <1>4, <2>2
    <3>2. Memo!ToSet(<<v>>) = {v} /\ <<v>> \in Few
      BY <3>1 DEF Memo!ToSet, Few
    <3> QED BY <2>2, <3>1, <3>2
  <2>3. CASE v = 0 /\ act # 0
    <3>1. entries = <<act>> /\ act \in Memo!Operation
      BY <1>4, <2>3
    <3>2. Memo!ToSet(<<act>>) = {act} /\ <<act>> \in Few
      BY <3>1 DEF Memo!ToSet, Few
    <3> QED BY <2>3, <3>1, <3>2
  <2>4. CASE v # 0 /\ act # 0
    <3>1. entries = <<v, act>> /\ v \in Memo!Operation /\ act \in Memo!Operation
      <4>1. entries = <<v>> \o <<act>>
        BY <2>4
      <4>2. <<v>> \o <<act>> = <<v, act>>
        <5>1. <<v>> \in Seq(Nat) /\ <<act>> \in Seq(Nat) /\ Len(<<v>>) = 1 /\ Len(<<act>>) = 1
          BY <1>4
        <5> DEFINE both == <<v>> \o <<act>>
        <5>2. /\ both \in Seq(Nat) /\ Len(both) = 2
              /\ \A n \in 1 .. 2 : both[n] = IF n <= 1 THEN <<v>>[n] ELSE <<act>>[n - 1]
          BY <5>1, ConcatProperties
        <5> HIDE DEF both
        <5>3. both[1] = v /\ both[2] = act
          BY <5>2
        <5>4. both = <<v, act>>
          BY <1>4, <5>2, <5>3
        <5> QED BY <5>4 DEF both
      <4> QED BY <1>4, <2>4, <4>1, <4>2
    <3>2. Memo!ToSet(<<v, act>>) = {v, act}
      BY DEF Memo!ToSet
    <3>3. <<v, act>> \in Few
      BY <3>1 DEF Few
    <3> QED BY <2>4, <3>1, <3>2, <3>3
  <2> QED BY <2>1, <2>2, <2>3, <2>4
<1>7. Memo!ToSet(entries) \subseteq Memo!Operation
  BY <1>4, <1>6
<1> HIDE DEF entries
<1>8. Memo!ToSet(stored) \subseteq s.truth /\ stored \in Seq(Memo!Operation)
  BY <1>3, <1>4 DEF Memo!ToSet
<1>9. start \in MemoType /\ start.undoBase = 0 /\ start.held = Memo!Nothing /\ start.order = stored
  <2>1. Memo!EmptyMemo \in MemoType /\ Memo!EmptyMemo.undoBase = 0 /\ Memo!EmptyMemo.held = Memo!Nothing
    BY NewMemo
  <2> QED BY <1>8, <2>1 DEF MemoType
<1> HIDE DEF start
<1>10. /\ m \in MemoType /\ Windowed(m) /\ Memo!ToSet(m.order) \subseteq all
       /\ Answered(m.held, Memo!ToSet(entries))
  <2>1. /\ m \in MemoType /\ Windowed(m)
        /\ Memo!ToSet(m.order) \subseteq Memo!ToSet(start.order) \cup Memo!ToSet(entries)
        /\ \A ops \in SUBSET Memo!Operation :
             Answered(start.held, ops) => Answered(m.held, ops \cup Memo!ToSet(entries))
    <3>1. start.undoBase > 0 => Len(start.undo) >= MaxUndo
      BY <1>9
    <3> DEFINE f == m
    <3>2. f = Memo!Folded(start, entries)
      OBVIOUS
    <3> HIDE DEF f
    <3>3. /\ f \in MemoType /\ Windowed(f)
          /\ Memo!ToSet(f.order) \subseteq Memo!ToSet(start.order) \cup Memo!ToSet(entries)
          /\ \A ops \in SUBSET Memo!Operation :
               Answered(start.held, ops) => Answered(f.held, ops \cup Memo!ToSet(entries))
      BY <1>6, <1>9, <3>1, <3>2, FoldFacts
    <3> QED BY <3>3 DEF f
  <2>2. Answered(start.held, {})
    BY <1>9, NewMemo
  <2>3. Answered(m.held, {} \cup Memo!ToSet(entries))
    BY <2>1, <2>2
  <2>4. {} \cup Memo!ToSet(entries) = Memo!ToSet(entries)
    OBVIOUS
  <2> QED BY <1>9, <2>1, <2>3, <2>4
<1> HIDE DEF m
<1>11. Answered(m.held, all)
  <2>1. m.held \in [Memo!Index -> Nat] /\ \A x \in Memo!Index : IsBest(m.held[x], Memo!ToSet(entries), x)
    BY <1>10 DEF Answered
  <2>2. ASSUME NEW op \in Memo!ToSet(stored), NEW x \in Memo!Index, Memo!IndexOf(op) = x
        PROVE  op <= m.held[x]
    <3>1. op \in s.truth /\ op \in Nat \ {0} /\ m.held[x] \in Nat
      BY <1>3, <1>8, <2>1, IndexFacts
    <3> DEFINE w == IF x = "entries" THEN v ELSE act
    <3>2. op <= w /\ w \in Nat /\ (w = 0 \/ Memo!IndexOf(w) = x)
      BY <1>4, <2>2, <3>1, IndexFacts
    <3>3. w # 0
      BY <3>1, <3>2
    <3>4. w \in Memo!ToSet(entries)
      BY <1>6, <3>3
    <3> HIDE DEF w
    <3>5. w <= m.held[x]
      BY <2>1, <3>2, <3>3, <3>4 DEF IsBest
    <3> QED BY <3>1, <3>2, <3>5
  <2>3. ASSUME NEW x \in Memo!Index
        PROVE  IsBest(m.held[x], all, x)
    BY <2>1, <2>2 DEF IsBest
  <2> QED BY <2>1, <2>3 DEF Answered
<1>12. all \in SUBSET Memo!Operation
  BY <1>3, <1>7, <1>8
<1> HIDE DEF all
<1>13. snapshot' = [snapshot EXCEPT ![i] = s, ![j] = Memo!Snapshot(m, id, all)]
  BY <1>2, <1>3
<1>14. memo' = [memo EXCEPT ![id] = Memo!Owned(m, j)] /\ (memo[id].owner # 0 => Continues(memo[id], m))
  BY <1>2, <1>5
<1>15. s.own = snapshot[i].own /\ s.home = snapshot[i].home /\ id \in Memo!Id
       /\ s \in SnapshotType /\ SnapshotGood(s, memo)
  BY <1>3, <1>5
<1> DEFINE u == Memo!Snapshot(m, id, all)
<1>16. u = Memo!Snapshot(m, id, all) /\ snapshot' = [snapshot EXCEPT ![i] = s, ![j] = u]
  BY <1>13
<1> HIDE DEF s, u
<1> QED BY <1>10, <1>11, <1>12, <1>14, <1>15, <1>16, SnapshotMade

(* What is read of a snapshot changes neither its places nor the memos.    *)
LEMMA ReadKeeps ==
  ASSUME MemoInvariant, NEW i \in Memo!Made, NEW t \in SnapshotType, SnapshotGood(t, memo),
         t.own = snapshot[i].own, t.home = snapshot[i].home,
         memo' = memo, snapshot' = [snapshot EXCEPT ![i] = t]
  PROVE  MemoInvariant'
<1>1. i \in Memo!Id /\ snapshot[i].own.memo # 0 /\ Memo!Made \subseteq Memo!Id
      /\ memo \in [Memo!Id -> MemoType] /\ snapshot \in [Memo!Id -> SnapshotType]
      /\ 0 \notin Memo!Id
  BY MemoFacts
<1>2. /\ snapshot' \in [Memo!Id -> SnapshotType] /\ snapshot'[i] = t
      /\ \A k \in Memo!Id : k # i => snapshot'[k] = snapshot[k]
  BY <1>1
<1>3. Memo!Made' = Memo!Made
  BY <1>1, <1>2 DEF Memo!Made
<1>4. \A k \in Memo!Id : snapshot'[k].home = snapshot[k].home
  BY <1>2
<1>5. ASSUME NEW k \in Memo!Id PROVE OwnedWell(memo'[k], k, Memo!Made', snapshot')
  <2>1. OwnedWell(memo[k], k, Memo!Made, snapshot)
    BY MemoFacts
  <2> QED BY <1>1, <1>3, <1>4, <2>1 DEF OwnedWell
<1>6. ASSUME NEW k \in Memo!Made' PROVE SnapshotGood(snapshot'[k], memo')
  <2>1. k \in Memo!Made /\ SnapshotGood(snapshot[k], memo) /\ k \in Memo!Id
    BY <1>1, <1>3, MemoFacts
  <2>2. SnapshotGood(snapshot'[k], memo)
    BY <1>2, <2>1
  <2> QED BY <2>2
<1> QED BY <1>1, <1>2, <1>5, <1>6 DEF MemoInvariant

LEMMA AskedFacts ==
  ASSUME MemoInvariant, NEW i \in Memo!Made, Memo!MayRead(snapshot[i])
  PROVE  LET s == snapshot[i]
             t == Memo!Asked(s)
         IN /\ t \in SnapshotType /\ SnapshotGood(t, memo)
            /\ t.own = s.own /\ t.home = s.home
            /\ \A x \in Memo!Index : Memo!Indexes(s)[x] \in Nat /\ ReadWell(t, x, Memo!Indexes(s)[x])
<1> DEFINE s == snapshot[i]
           m == memo[s.own.memo]
           kept == IF s.kept # "none" THEN s.kept
                     ELSE IF Memo!Current(s.own) THEN "live" ELSE "copy"
           indexes == IF s.kept # "none" \/ Memo!Current(s.own) THEN s.indexes ELSE Memo!Rewound(s.own)
           pieces == s.pieces \/ (s.kept = "live" /\ ~Memo!Current(s.own))
           t == [s EXCEPT !.kept = kept, !.indexes = indexes, !.pieces = pieces]
<1>1. s \in SnapshotType /\ SnapshotGood(s, memo) /\ s.truth \in SUBSET Memo!Operation
  BY ReadFacts
<1>2. /\ s.own \in HandleType /\ s.own.memo \in Memo!Id /\ m.owner # 0 /\ m \in MemoType
      /\ Found(s.own, m, s.truth)
  BY <1>1, MemoFacts DEF SnapshotType, SnapshotGood
<1>3. s.kept = "none" => Answered(Memo!Rewound(s.own), s.truth)
  BY <1>2, RewoundFacts DEF Memo!MayRead
<1>4. Memo!Current(s.own) => Answered(m.held, s.truth)
  <2>1. Memo!Current(s.own) => s.own.undoCount = Total(m)
    BY DEF Memo!Current, Total
  <2> QED BY <1>1, <1>2, <2>1, CurrentFinds
<1>5. s.kept \in {"none", "live", "copy"} /\ s.indexes \in [Memo!Index -> Nat] /\ s.pieces \in BOOLEAN
  BY <1>1 DEF SnapshotType
<1>6. Memo!Asked(s) = t
  BY DEF Memo!Asked
<1> HIDE DEF s
<1>7. kept \in {"none", "live", "copy"} /\ indexes \in [Memo!Index -> Nat] /\ pieces \in BOOLEAN
      /\ (s.pieces => pieces) /\ (kept = "copy" => Answered(indexes, s.truth))
  <2>1. kept \in {"none", "live", "copy"}
    BY <1>5
  <2>2. indexes \in [Memo!Index -> Nat]
    BY <1>3, <1>5 DEF Answered
  <2>3. pieces \in BOOLEAN /\ (s.pieces => pieces)
    BY <1>5
  <2>4. kept = "copy" => Answered(indexes, s.truth)
    <3>1. s.kept = "copy" => Answered(s.indexes, s.truth)
      BY <1>1 DEF SnapshotGood
    <3> QED BY <1>3, <1>5, <3>1
  <2> QED BY <2>1, <2>2, <2>3, <2>4
<1>8. ASSUME NEW x \in Memo!Index
      PROVE  LET v == Memo!Indexes(s)[x]
             IN /\ v \in Nat /\ (v = 0 \/ (v \in Memo!Operation /\ Memo!IndexOf(v) = x))
                /\ \A op \in s.truth : Memo!IndexOf(op) = x => op <= v
                /\ pieces \/ v = 0 \/ v \in s.truth
  <2>1. ASSUME NEW held, Answered(held, s.truth)
        PROVE  /\ held[x] \in Nat /\ (held[x] = 0 \/ (held[x] \in Memo!Operation /\ Memo!IndexOf(held[x]) = x))
               /\ \A op \in s.truth : Memo!IndexOf(op) = x => op <= held[x]
               /\ held[x] = 0 \/ held[x] \in s.truth
    BY <1>1, <2>1 DEF Answered, IsBest
  <2>2. CASE s.kept = "none"
    <3>1. Memo!Indexes(s) = Memo!Rewound(s.own)
      BY <2>2 DEF Memo!Indexes
    <3> QED BY <1>3, <2>1, <2>2, <3>1
  <2>3. CASE s.kept = "copy"
    <3>1. Memo!Indexes(s) = s.indexes /\ Answered(s.indexes, s.truth)
      BY <1>1, <2>3 DEF Memo!Indexes, SnapshotGood
    <3> QED BY <2>1, <3>1
  <2>4. CASE s.kept = "live"
    <3>1. Memo!Indexes(s) = m.held
      BY <2>4 DEF Memo!Indexes
    <3>2. CASE Memo!Current(s.own)
      BY <1>4, <2>1, <3>1, <3>2
    <3>3. CASE ~Memo!Current(s.own)
      <4>1. pieces
        BY <2>4, <3>3
      <4> DEFINE o == m.owner
      <4>2. o \in Memo!Made /\ Answered(m.held, snapshot[o].truth)
        BY <1>2, OwnersHold
      <4>3. snapshot[o].truth \in SUBSET Memo!Operation
        BY <4>2, ReadFacts
      <4>4. m.held[x] \in Nat /\ (m.held[x] = 0 \/ (m.held[x] \in Memo!Operation /\ Memo!IndexOf(m.held[x]) = x))
        BY <4>2, <4>3 DEF Answered, IsBest
      <4>5. \A op \in s.truth : Memo!IndexOf(op) = x => op <= m.held[x]
        BY <1>2 DEF Found
      <4> QED BY <3>1, <4>1, <4>4, <4>5
    <3> QED BY <3>2, <3>3
  <2> QED BY <1>5, <2>2, <2>3, <2>4
<1> HIDE DEF kept, indexes, pieces
<1>9. /\ t \in SnapshotType /\ t.own = s.own /\ t.home = s.home /\ t.truth = s.truth
      /\ t.kept = kept /\ t.indexes = indexes /\ t.pieces = pieces /\ t.view = s.view
      /\ t.activated = s.activated /\ t.applied = s.applied
  BY <1>1, <1>7 DEF SnapshotType
<1> HIDE DEF t
<1>10. SnapshotGood(t, memo)
  BY <1>1, <1>7, <1>9 DEF SnapshotGood, ReadWell
<1>11. \A x \in Memo!Index : Memo!Indexes(s)[x] \in Nat /\ ReadWell(t, x, Memo!Indexes(s)[x])
  BY <1>8, <1>9 DEF ReadWell
<1> QED BY <1>6, <1>9, <1>10, <1>11 DEF s

LEMMA ReadingKeeps ==
  ASSUME MemoInvariant, NEW i \in Memo!Made,
         Memo!ReadView(i) \/ Memo!ReadActivations(i) \/ Memo!ReadApplied(i)
  PROVE  MemoInvariant'
<1> DEFINE s == snapshot[i]
           t == Memo!Asked(s)
<1>0. "entries" \in Memo!Index /\ "activations" \in Memo!Index
  BY DEF Memo!Index
<1>1. CASE Memo!ReadView(i)
  <2> DEFINE v == Memo!Indexes(s)["entries"]
             u == [t EXCEPT !.view = v]
  <2>1. Memo!MayRead(s) /\ memo' = memo /\ snapshot' = [snapshot EXCEPT ![i] = u]
    BY <1>1 DEF Memo!ReadView
  <2>2. /\ t \in SnapshotType /\ SnapshotGood(t, memo) /\ t.own = s.own /\ t.home = s.home
        /\ v \in Nat /\ ReadWell(t, "entries", v)
    BY <1>0, <2>1, AskedFacts
  <2> HIDE DEF v, t
  <2>3. /\ u \in SnapshotType /\ u.own = t.own /\ u.home = t.home /\ u.truth = t.truth
        /\ u.kept = t.kept /\ u.indexes = t.indexes /\ u.pieces = t.pieces /\ u.view = v
        /\ u.activated = t.activated /\ u.applied = t.applied
    <3>1. v \in Int
      BY <2>2
    <3> QED BY <2>2, <3>1 DEF SnapshotType
  <2> HIDE DEF u
  <2>4. SnapshotGood(u, memo)
    BY <2>2, <2>3 DEF SnapshotGood, ReadWell
  <2> QED BY <2>1, <2>2, <2>3, <2>4, ReadKeeps
<1>2. CASE Memo!ReadActivations(i)
  <2> DEFINE v == Memo!Indexes(s)["activations"]
             u == [t EXCEPT !.activated = v]
  <2>1. Memo!MayRead(s) /\ memo' = memo /\ snapshot' = [snapshot EXCEPT ![i] = u]
    BY <1>2 DEF Memo!ReadActivations
  <2>2. /\ t \in SnapshotType /\ SnapshotGood(t, memo) /\ t.own = s.own /\ t.home = s.home
        /\ v \in Nat /\ ReadWell(t, "activations", v)
    BY <1>0, <2>1, AskedFacts
  <2> HIDE DEF v, t
  <2>3. /\ u \in SnapshotType /\ u.own = t.own /\ u.home = t.home /\ u.truth = t.truth
        /\ u.kept = t.kept /\ u.indexes = t.indexes /\ u.pieces = t.pieces /\ u.view = t.view
        /\ u.activated = v /\ u.applied = t.applied
    <3>1. v \in Int
      BY <2>2
    <3> QED BY <2>2, <3>1 DEF SnapshotType
  <2> HIDE DEF u
  <2>4. SnapshotGood(u, memo)
    BY <2>2, <2>3 DEF SnapshotGood, ReadWell
  <2> QED BY <2>1, <2>2, <2>3, <2>4, ReadKeeps
<1>3. CASE Memo!ReadApplied(i)
  <2>1. memo' = memo /\ snapshot' = [snapshot EXCEPT ![i] = [s EXCEPT !.applied = Memo!Remembered(s)]]
    BY <1>3 DEF Memo!ReadApplied
  <2> DEFINE read == [s EXCEPT !.applied = Memo!Remembered(s)]
  <2>2. /\ read \in SnapshotType /\ SnapshotGood(read, memo)
        /\ read.own = s.own /\ read.home = s.home
    BY ReadFacts
  <2>3. snapshot' = [snapshot EXCEPT ![i] = read]
    BY <2>1
  <2> HIDE DEF read
  <2> QED BY <2>1, <2>2, <2>3, ReadKeeps
<1> QED BY <1>1, <1>2, <1>3

LEMMA MemoStep ==
  ASSUME MemoInvariant, [Memo!Next]_(Memo!vars)
  PROVE  MemoInvariant'
<1>1. CASE Memo!Next
  <2>1. PICK i \in Memo!Made :
           \/ \E ops \in Memo!Batches : Memo!FoldOwned(i, ops) \/ Memo!FoldCopied(i, ops)
           \/ Memo!Restore(i)
           \/ Memo!ReadView(i) \/ Memo!ReadActivations(i) \/ Memo!ReadApplied(i)
    BY <1>1 DEF Memo!Next
  <2> QED BY <2>1, FoldOwnedKeeps, FoldCopiedKeeps, RestoreKeeps, ReadingKeeps
<1>2. CASE UNCHANGED Memo!vars
  BY <1>2 DEF Memo!vars, MemoInvariant, OwnedWell, SnapshotGood, Memo!Made
<1> QED BY <1>1, <1>2

LEMMA BestIs ==
  ASSUME NEW ops \in SUBSET Memo!Operation, NEW x, NEW v \in Nat, IsBest(v, ops, x)
  PROVE  v = Memo!Best({op \in ops : Memo!IndexOf(op) = x})
<1> DEFINE S == {op \in ops : Memo!IndexOf(op) = x}
           P(w) == w \in S \cup {0} /\ \A other \in S : other <= w
<1>1. S \subseteq Nat
  BY IndexFacts
<1>2. P(v)
  BY DEF IsBest
<1>3. ASSUME NEW w, P(w) PROVE w = v
  <2>1. w \in Nat
    BY <1>1, <1>3
  <2>2. v <= w
    BY <1>2, <1>3, <2>1
  <2>3. w <= v
    BY <1>2, <1>3, <2>1
  <2> QED BY <2>1, <2>2, <2>3
<1> HIDE DEF S
<1>4. Memo!Best(S) = CHOOSE w : P(w)
  BY Zenon DEF Memo!Best
<1> QED BY <1>2, <1>3, <1>4 DEF S

LEMMA SnapshotsKeepFollows ==
  ASSUME MemoInvariant
  PROVE  Memo!SnapshotsKeep /\ Memo!TypeOK
<1>1. ASSUME NEW i \in Memo!Made
      PROVE  /\ Memo!AnswersAsItWas(snapshot[i]) /\ Memo!RemembersOnlyItsOwn(snapshot[i])
             /\ Memo!WithinTheWindow(snapshot[i])
  <2> DEFINE s == snapshot[i]
             m == memo[s.own.memo]
  <2>1. s \in SnapshotType /\ SnapshotGood(s, memo) /\ s.truth \in SUBSET Memo!Operation
        /\ Memo!Remembered(s) \in Seq(s.truth)
    BY ReadFacts
  <2>2. /\ s.own \in HandleType /\ s.own.memo \in Memo!Id /\ m \in MemoType
        /\ Found(s.own, m, s.truth)
        /\ s.home \in HandleType /\ s.home.memo \in Memo!Id /\ Found(s.home, memo[s.home.memo], s.truth)
        /\ Windowed(m)
    BY <2>1, MemoFacts DEF SnapshotType, SnapshotGood, OwnedWell
  <2>3. ASSUME NEW held, Answered(held, s.truth)
        PROVE  held = Memo!Answer(s)
    <3>1. held \in [Memo!Index -> Nat] /\ \A x \in Memo!Index : IsBest(held[x], s.truth, x)
      BY <2>3 DEF Answered
    <3>2. \A x \in Memo!Index : held[x] = Memo!Best({op \in s.truth : Memo!IndexOf(op) = x})
      BY <2>1, <3>1, BestIs
    <3> HIDE DEF s
    <3>3. held = [x \in Memo!Index |-> Memo!Best({op \in s.truth : Memo!IndexOf(op) = x})]
      BY <3>1, <3>2
    <3> QED BY <3>3 DEF Memo!Answer
  <2>4. ASSUME NEW x \in Memo!Index, NEW v, ReadWell(s, x, v), ~s.pieces
        PROVE  v \in {-1, Memo!Answer(s)[x]}
    <3>1. CASE v = -1
      BY <3>1
    <3>2. CASE v # -1
      <4>1. v \in Nat /\ IsBest(v, s.truth, x)
        BY <2>4, <3>2 DEF ReadWell, IsBest
      <4>2. v = Memo!Best({op \in s.truth : Memo!IndexOf(op) = x})
        BY <2>1, <4>1, BestIs
      <4> QED BY <4>2 DEF Memo!Answer
    <3> QED BY <3>1, <3>2
  <2>5. "entries" \in Memo!Index /\ "activations" \in Memo!Index
    BY DEF Memo!Index
  <2>6. Memo!AnswersAsItWas(s)
    <3>1. ReadWell(s, "entries", s.view) /\ ReadWell(s, "activations", s.activated)
      BY <2>1 DEF SnapshotGood
    <3>2. ~Memo!Forgotten(s.own) => Memo!Rewound(s.own) = Memo!Answer(s)
      BY <2>2, <2>3, RewoundFacts
    <3>3. ~Memo!Forgotten(s.home) => Memo!Rewound(s.home) = Memo!Answer(s)
      BY <2>2, <2>3, RewoundFacts
    <3> HIDE DEF s
    <3> QED BY <2>4, <2>5, <3>1, <3>2, <3>3 DEF Memo!AnswersAsItWas
  <2>7. Memo!RemembersOnlyItsOwn(s)
    BY <2>1 DEF Memo!RemembersOnlyItsOwn, Memo!ToSet
  <2>8. Memo!WithinTheWindow(s)
    <3>1. /\ m.undoBase \in Nat /\ Len(m.undo) \in Nat /\ s.own.undoCount \in Nat /\ MaxUndo \in Nat
          /\ m.undoBase > 0 => Len(m.undo) >= MaxUndo
      BY <2>2, MemoLimits, MemoNumbers DEF HandleType, Windowed
    <3> DEFINE base == m.undoBase
               length == Len(m.undo)
               count == s.own.undoCount
    <3>2. Memo!WithinTheWindow(s) <=> (base + length - count <= MaxUndo => ~(count < base))
      BY DEF Memo!WithinTheWindow, Memo!Forgotten
    <3> HIDE DEF base, length, count
    <3>3. base \in Nat /\ length \in Nat /\ count \in Nat /\ (base > 0 => length >= MaxUndo)
      BY <3>1 DEF base, length, count
    <3>4. base + length - count <= MaxUndo => ~(count < base)
      BY <3>1, <3>3
    <3> QED BY <3>2, <3>4
  <2> QED BY <2>6, <2>7, <2>8
<1>2. Memo!TypeOK
  <2>1. ASSUME NEW k \in Memo!Id
        PROVE  Len(memo[k].order) <= MaxApplied /\ memo[k].owner \in Memo!Made \cup {0}
    BY MemoFacts DEF OwnedWell, Windowed
  <2>2. ASSUME NEW i \in Memo!Made
        PROVE  snapshot[i].home.memo \in Memo!Id /\ snapshot[i].truth \subseteq Memo!Operation
    BY ReadFacts DEF SnapshotGood
  <2> QED BY <2>1, <2>2 DEF Memo!TypeOK
<1> QED BY <1>1, <1>2 DEF Memo!SnapshotsKeep

(* Every snapshot that is held answers as it was made and remembers what   *)
(* it applied and nothing else, whatever is folded into its memo, copied   *)
(* from it, restored and trimmed, for any windows (journal.ts 1215 to      *)
(* 1562).                                                                  *)
THEOREM MemoKeeps == Memo!Spec => [](Memo!SnapshotsKeep /\ Memo!TypeOK)
<1>1. MemoInvariant /\ [Memo!Next]_(Memo!vars) => MemoInvariant'
  BY MemoStep
<1>2. MemoInvariant => Memo!SnapshotsKeep /\ Memo!TypeOK
  BY SnapshotsKeepFollows
<1> QED BY <1>1, <1>2, MemoInitially, PTL DEF Memo!Spec

(* So it is in the composition that the runs check.                        *)
THEOREM DeviceSnapshotsKeep == MCSpec => []SnapshotsKeep
<1>1. MCInit => Memo!Init
  BY DEF MCInit
<1>2. [MCNext]_allVars => [Memo!Next]_(Memo!vars)
  BY DEF MCNext, IntakeMoves, RotationMoves, BudgetMoves, ChainMoves, MemoMoves, GateMoves,
     HouseMoves, SessionMoves, JoinMoves, UpdateMoves, LoginMoves, allVars, memoVars,
     Memo!vars
<1>3. Memo!SnapshotsKeep => SnapshotsKeep
  BY DEF SnapshotsKeep
<1> QED BY <1>1, <1>2, <1>3, MemoKeeps, PTL DEF MCSpec, Memo!Spec
=============================================================================
