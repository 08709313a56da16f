--------------------------- MODULE Browser_proofs ---------------------------
(***************************************************************************)
(* Proofs about the parts of the browser kit: the composer (Composer), the *)
(* socket client (ChatClient) and what it promises (ClientPromise), the    *)
(* panel that joins them (ChatPage), the indexed message list (Timeline)   *)
(* and the list that scans its rows (TimelineRows), and the store (Store). *)
(* For any texts, frames, limits, calls, deliveries, rows and listeners.   *)
(***************************************************************************)
EXTENDS ChatClient, ChatPage, Timeline, Store, FiniteSetTheorems, SequenceTheorems,
        WellFoundedInduction, TLAPS

(***************************************************************************)
(* The composer: its form, with the field's own events alone.              *)
(***************************************************************************)
(* The calls that the present composer waits for.                          *)
Under == {k \in 1 .. MaxSends : InFlight(k) /\ Mine(k)}

(* No call is of a composer to come; a form without a composer is not      *)
(* marked; the form is marked for one call.                                *)
CallsPast == \A k \in 1 .. MaxSends : sends[k].by <= composer
Unmarked  == ~bound => ~submitting
Marked    == bound /\ ~again =>
               (\A j, k \in Under : j = k) /\ (submitting <=> Under # {})

(* What was typed since a call of this composer began has been counted.    *)
Counted ==
  \A k \in Under : /\ sends[k].revision <= revision
                   /\ sends[k].edited => sends[k].revision < revision

ComposerInv == ComposerTypeOK /\ CallsPast /\ Unmarked /\ Marked /\ Counted

SendType ==
  [by : 0 .. MaxComposers, value : Texts \cup {Blank}, revision : Nat,
   stage : {"none", "sending", "reporting", "sent", "kept", "failed"},
   edited : BOOLEAN]

-----------------------------------------------------------------------------
LEMMA ComposerInitOK == ComposerInit => ComposerInv
<1> SUFFICES ASSUME ComposerInit PROVE ComposerInv
  OBVIOUS
<1> USE ComposerConstants DEF ComposerInit
<1>1. Unused \in SendType /\ Unused.by = 0 /\ Unused.stage = "none"
  BY DEF Unused, SendType
<1>2. ComposerTypeOK
  <2>1. sends \in [1 .. MaxSends -> SendType]
    BY <1>1
  <2>2. composer \in 1 .. MaxComposers /\ inputs \in 0 .. MaxInputs /\ revision \in Nat
    OBVIOUS
  <2> QED BY <2>1, <2>2 DEF ComposerTypeOK, AnyText, SendType
<1>3. Under = {}
  BY <1>1 DEF Under, InFlight
<1> QED
  BY <1>1, <1>2, <1>3 DEF ComposerInv, CallsPast, Unmarked, Marked, Counted

(* One call changes: the rest of the calls stay what they are.             *)
LEMMA AtType ==
  ASSUME ComposerTypeOK, NEW k \in 1 .. MaxSends, NEW s,
         s \in {"none", "sending", "reporting", "sent", "kept", "failed"}, At(k, s)
  PROVE  /\ sends' \in [1 .. MaxSends -> SendType]
         /\ \A j \in 1 .. MaxSends :
              /\ j # k => sends'[j] = sends[j]
              /\ sends'[j].by = sends[j].by /\ sends'[j].revision = sends[j].revision
              /\ sends'[j].edited = sends[j].edited /\ sends'[j].value = sends[j].value
         /\ sends'[k].stage = s
  BY DEF At, ComposerTypeOK, SendType

LEMMA InputType ==
  ASSUME ComposerTypeOK, NEW t \in AnyText, Input(t)
  PROVE  /\ sends' \in [1 .. MaxSends -> SendType]
         /\ \A j \in 1 .. MaxSends :
              /\ sends'[j].by = sends[j].by /\ sends'[j].revision = sends[j].revision
              /\ sends'[j].stage = sends[j].stage
<1>1. DOMAIN sends = 1 .. MaxSends /\ \A j \in 1 .. MaxSends : sends[j] \in SendType
  BY DEF ComposerTypeOK, SendType
<1>2. ASSUME NEW j \in 1 .. MaxSends
      PROVE  /\ sends'[j] \in SendType
             /\ sends'[j].by = sends[j].by /\ sends'[j].revision = sends[j].revision
             /\ sends'[j].stage = sends[j].stage
  <2>1. sends'[j] = [sends[j] EXCEPT !.edited = @ \/ InFlight(j)]
    BY <1>1 DEF Input
  <2>2. (sends[j].edited \/ InFlight(j)) \in BOOLEAN
    BY DEF InFlight
  <2> QED BY <1>1, <2>1, <2>2 DEF SendType
<1>3. sends' = [j \in 1 .. MaxSends |-> sends'[j]]
  BY <1>1 DEF Input
<1> QED BY <1>2, <1>3

LEMMA SubmitType ==
  ASSUME ComposerTypeOK, NEW k \in 1 .. MaxSends, Submit(k)
  PROVE  /\ sends' \in [1 .. MaxSends -> SendType]
         /\ \A j \in 1 .. MaxSends : j # k => sends'[j] = sends[j]
         /\ sends'[k].by = composer /\ sends'[k].stage = "sending"
         /\ sends'[k].revision = revision /\ sends'[k].edited = FALSE
         /\ sends'[k].value = field
  BY ComposerConstants DEF Submit, ComposerTypeOK, SendType

LEMMA ComposerTypeNext ==
  ComposerTypeOK /\ [ComposerNext]_composerVars => ComposerTypeOK'
<1> SUFFICES ASSUME ComposerTypeOK, [ComposerNext]_composerVars PROVE ComposerTypeOK'
  OBVIOUS
<1>1. sends' \in [1 .. MaxSends -> SendType]
  <2>1. DOMAIN sends = 1 .. MaxSends /\ sends \in [1 .. MaxSends -> SendType]
    BY DEF ComposerTypeOK, SendType
  <2>2. ASSUME NEW t \in AnyText, Input(t) PROVE sends' \in [1 .. MaxSends -> SendType]
    BY <2>2, InputType
  <2>3. ASSUME NEW k \in 1 .. MaxSends, Submit(k)
        PROVE  sends' \in [1 .. MaxSends -> SendType]
    BY <2>3, SubmitType
  <2>4. ASSUME NEW k \in 1 .. MaxSends, Reject(k) \/ Reported(k)
        PROVE  sends' \in [1 .. MaxSends -> SendType]
    BY <2>4, AtType DEF Reject, Reported
  <2>5. ASSUME NEW k \in 1 .. MaxSends, NEW ok \in BOOLEAN, Resolve(k, ok)
        PROVE  sends' \in [1 .. MaxSends -> SendType]
    BY <2>5, AtType DEF Resolve
  <2>6. CASE UNCHANGED sends
    BY <2>1, <2>6
  <2> QED
    BY <2>1, <2>2, <2>3, <2>4, <2>5, <2>6
       DEF ComposerNext, composerVars, Assign, Destroy, DestroyAgain, Bind
<1>2. field' \in AnyText
  <2>1. ASSUME NEW k \in DOMAIN sends, NEW ok \in BOOLEAN, Resolve(k, ok)
        PROVE  field' \in AnyText
    BY <2>1 DEF ComposerTypeOK, AnyText, Resolve
  <2>2. field' = field \/ field' \in AnyText
    BY <2>1
       DEF ComposerNext, composerVars, Input, Assign, Submit, Reject, Reported,
           Destroy, DestroyAgain, Bind
  <2> QED BY <2>2 DEF ComposerTypeOK
<1>5. bound' \in BOOLEAN /\ again' \in BOOLEAN
  BY DEF ComposerTypeOK, ComposerNext, composerVars, Input, Assign, Submit, Resolve,
         Reject, Reported, Destroy, DestroyAgain, Bind
<1>6. composer' \in 1 .. MaxComposers
  BY ComposerConstants
     DEF ComposerTypeOK, ComposerNext, composerVars, Input, Assign, Submit, Resolve,
         Reject, Reported, Destroy, DestroyAgain, Bind
<1>3. revision' \in Nat /\ inputs' \in 0 .. MaxInputs
  BY ComposerConstants
     DEF ComposerTypeOK, ComposerNext, composerVars, Input, Assign, Submit, Resolve,
         Reject, Reported, Destroy, DestroyAgain, Bind
<1>4. submitting' \in BOOLEAN
  BY DEF ComposerTypeOK, ComposerNext, composerVars, Input, Assign, Submit, Resolve,
         Reject, Reported, Destroy, DestroyAgain, Bind
<1> QED
  BY <1>1, <1>2, <1>3, <1>4, <1>5, <1>6 DEF ComposerTypeOK, SendType

-----------------------------------------------------------------------------
(* What a step does to the calls the present composer waits for.           *)
LEMMA UnderStill ==
  ASSUME UNCHANGED <<bound, composer>>,
         \A j \in 1 .. MaxSends : sends'[j].stage = sends[j].stage /\ sends'[j].by = sends[j].by
  PROVE  Under' = Under
  BY DEF Under, InFlight, Mine

LEMMA UnderLoses ==
  ASSUME ComposerTypeOK, NEW k \in 1 .. MaxSends, NEW s \in {"sent", "kept", "failed"},
         At(k, s), UNCHANGED <<bound, composer>>
  PROVE  Under' = Under \ {k}
  BY AtType DEF Under, InFlight, Mine

LEMMA UnderNone == ASSUME ~bound PROVE Under = {}
  BY DEF Under, Mine

(* The parts of the invariant when nothing but the named has changed.      *)
LEMMA MarkedStill ==
  ASSUME Marked, Under' = Under, UNCHANGED <<bound, submitting, again>>
  PROVE  Marked'
  BY DEF Marked

LEMMA CountedStill ==
  ASSUME Counted, Under' \subseteq Under, UNCHANGED revision,
         \A j \in Under' : sends'[j].revision = sends[j].revision
                           /\ sends'[j].edited = sends[j].edited
  PROVE  Counted'
  BY DEF Counted

LEMMA EndedCall ==
  ASSUME ComposerInv, NEW k \in 1 .. MaxSends, NEW s \in {"sent", "kept", "failed"},
         At(k, s), InFlight(k), UNCHANGED <<composer, bound, revision, again>>,
         submitting' = (submitting /\ ~Mine(k))
  PROVE  Unmarked' /\ Marked' /\ Counted'
<1>1. Under' = Under \ {k}
  BY UnderLoses DEF ComposerInv
<1>2. Unmarked'
  BY DEF ComposerInv, ComposerTypeOK, Unmarked
<1>3. Marked'
  <2>1. CASE Mine(k)
    <3>1. k \in Under /\ ~submitting'
      BY <2>1 DEF Under, Mine
    <3> QED BY <1>1, <3>1 DEF ComposerInv, Marked
  <2>2. CASE ~Mine(k)
    <3>1. Under' = Under
      BY <1>1, <2>2 DEF Under
    <3>2. submitting' = submitting
      BY <2>2 DEF ComposerInv, ComposerTypeOK
    <3> QED BY <3>1, <3>2, MarkedStill DEF ComposerInv
  <2> QED BY <2>1, <2>2
<1>4. Counted'
  <2>1. \A j \in Under' : /\ sends'[j].revision = sends[j].revision
                          /\ sends'[j].edited = sends[j].edited
    BY <1>1, AtType DEF ComposerInv, Under
  <2> QED BY <1>1, <2>1, CountedStill DEF ComposerInv
<1> QED BY <1>2, <1>3, <1>4

LEMMA CallsPastNext ==
  ComposerInv /\ [ComposerNext]_composerVars => CallsPast'
<1> SUFFICES ASSUME ComposerInv, [ComposerNext]_composerVars,
                    NEW k \in 1 .. MaxSends
             PROVE  sends'[k].by <= composer'
  BY DEF CallsPast
<1>1. /\ DOMAIN sends = 1 .. MaxSends
      /\ composer \in Nat /\ sends[k].by \in Nat /\ sends[k].by <= composer
  BY ComposerConstants DEF ComposerInv, ComposerTypeOK, CallsPast
<1>2. composer' = composer \/ composer' = composer + 1
  BY DEF ComposerNext, composerVars, Input, Assign, Submit, Resolve,
         Reject, Reported, Destroy, DestroyAgain, Bind
<1>3. sends'[k].by = sends[k].by \/ sends'[k].by = composer
  <2>1. ASSUME NEW t \in AnyText, Input(t) PROVE sends'[k].by = sends[k].by
    BY <2>1, InputType DEF ComposerInv
  <2>2. ASSUME NEW j \in 1 .. MaxSends, Submit(j)
        PROVE  sends'[k].by = sends[k].by \/ sends'[k].by = composer
    BY <2>2, SubmitType DEF ComposerInv
  <2>3. ASSUME NEW j \in 1 .. MaxSends, Reject(j) \/ Reported(j)
        PROVE  sends'[k].by = sends[k].by
    BY <2>3, AtType DEF ComposerInv, Reject, Reported
  <2>4. ASSUME NEW j \in 1 .. MaxSends, NEW ok \in BOOLEAN, Resolve(j, ok)
        PROVE  sends'[k].by = sends[k].by
    BY <2>4, AtType DEF ComposerInv, Resolve
  <2> QED
    BY <1>1, <2>1, <2>2, <2>3, <2>4
       DEF ComposerNext, composerVars, Assign, Destroy, DestroyAgain, Bind
<1> QED BY <1>1, <1>2, <1>3

LEMMA FormNext ==
  ASSUME ComposerInv, [ComposerNext]_composerVars
  PROVE  Unmarked' /\ Marked' /\ Counted'
<1> USE DEF ComposerInv
<1>1. ASSUME NEW t \in AnyText, Input(t) PROVE Unmarked' /\ Marked' /\ Counted'
  <2>1. Under' = Under
    BY <1>1, InputType, UnderStill DEF Input
  <2>2. Unmarked' /\ Marked'
    BY <1>1, <2>1, MarkedStill DEF Input, Unmarked
  <2>3. ASSUME NEW k \in Under
        PROVE  /\ sends'[k].revision <= revision'
               /\ sends'[k].edited => sends'[k].revision < revision'
    <3>1. k \in 1 .. MaxSends /\ bound
      BY DEF Under, Mine
    <3>2. sends'[k].revision = sends[k].revision /\ sends[k].revision \in Nat
      BY <1>1, <3>1, InputType DEF ComposerTypeOK
    <3>3. revision' = revision + 1 /\ revision \in Nat
      BY <1>1, <3>1 DEF Input, ComposerTypeOK
    <3>4. sends[k].revision <= revision
      BY DEF Counted
    <3> QED BY <3>2, <3>3, <3>4
  <2> QED BY <2>1, <2>2, <2>3 DEF Counted
<1>2. ASSUME NEW t \in AnyText, Assign(t) PROVE Unmarked' /\ Marked' /\ Counted'
  <2>1. Under' = Under
    BY <1>2, UnderStill DEF Assign
  <2> QED BY <1>2, <2>1, MarkedStill, CountedStill DEF Assign, Unmarked
<1>3. ASSUME NEW k \in 1 .. MaxSends, Submit(k) PROVE Unmarked' /\ Marked' /\ Counted'
  <2>1. bound /\ ~submitting /\ UNCHANGED <<bound, composer, revision, again>> /\ submitting'
    BY <1>3 DEF Submit
  <2>2. Under' = Under \cup {k} /\ k \notin Under
    <3>1. ~InFlight(k)
      BY <1>3 DEF Submit, Unused, InFlight
    <3>3. InFlight(k)' /\ Mine(k)'
      <4>1. sends'[k].by = composer /\ sends'[k].stage = "sending"
        BY <1>3, SubmitType
      <4> QED BY <2>1, <4>1 DEF InFlight, Mine
    <3>2. \A j \in 1 .. MaxSends : j # k => sends'[j] = sends[j]
      BY <1>3, SubmitType
    <3> QED BY <2>1, <3>1, <3>2, <3>3 DEF Under, InFlight, Mine
  <2>3. Marked'
    BY <2>1, <2>2 DEF Marked
  <2>4. /\ sends'[k].revision <= revision'
        /\ sends'[k].edited => sends'[k].revision < revision'
    <3>1. sends'[k].revision = revision /\ sends'[k].edited = FALSE
      BY <1>3, SubmitType
    <3>2. revision' = revision /\ revision \in Nat
      BY <2>1 DEF ComposerTypeOK
    <3> QED BY <3>1, <3>2
  <2>5. \A j \in Under : j # k => sends'[j] = sends[j]
    BY <1>3, SubmitType DEF Under
  <2>6. Counted'
    BY <2>1, <2>2, <2>4, <2>5 DEF Counted
  <2> QED BY <2>1, <2>3, <2>6 DEF Unmarked
<1>4. ASSUME NEW k \in 1 .. MaxSends, Reject(k) PROVE Unmarked' /\ Marked' /\ Counted'
  <2>1. CASE Mine(k)
    <3>1. At(k, "reporting")
      BY <1>4, <2>1 DEF Reject
    <3>2. Under' = Under
      BY <1>4, <3>1, AtType DEF Reject, Under, InFlight, Mine
    <3>3. Counted'
      BY <1>4, <3>1, <3>2, AtType, CountedStill DEF Reject, Under
    <3> QED BY <1>4, <3>2, <3>3, MarkedStill DEF Reject, Unmarked
  <2>2. CASE ~Mine(k)
    <3>1. At(k, "failed") /\ InFlight(k) /\ UNCHANGED <<composer, bound, revision, again>>
      BY <1>4, <2>2 DEF Reject, InFlight
    <3>2. submitting' = (submitting /\ ~Mine(k))
      BY <1>4, <2>2 DEF Reject, ComposerTypeOK
    <3> QED BY <3>1, <3>2, EndedCall
  <2> QED BY <2>1, <2>2
<1>5. ASSUME NEW k \in 1 .. MaxSends, Reported(k) PROVE Unmarked' /\ Marked' /\ Counted'
  BY <1>5, EndedCall DEF Reported, InFlight
<1>6. ASSUME NEW k \in 1 .. MaxSends, NEW ok \in BOOLEAN, Resolve(k, ok)
      PROVE  Unmarked' /\ Marked' /\ Counted'
  <2>1. CASE ok
    BY <1>6, <2>1, EndedCall DEF Resolve, InFlight
  <2>2. CASE ~ok
    BY <1>6, <2>2, EndedCall DEF Resolve, InFlight
  <2> QED BY <2>1, <2>2
<1>7. CASE Destroy
  <2>1. Under' = {} /\ ~bound' /\ ~submitting'
    BY <1>7 DEF Destroy, Under, Mine
  <2> QED BY <2>1 DEF Unmarked, Marked, Counted
<1>8. CASE DestroyAgain
  <2>1. Under' = Under
    BY <1>8, UnderStill DEF DestroyAgain
  <2> QED BY <1>8, <2>1, CountedStill DEF DestroyAgain, Unmarked, Marked
<1>9. CASE Bind
  <2>1. \A k \in 1 .. MaxSends : sends'[k].by # composer'
    BY <1>9, ComposerConstants DEF Bind, CallsPast, ComposerTypeOK
  <2>2. Under' = {}
    BY <2>1 DEF Under, Mine
  <2>3. bound' /\ ~submitting'
    BY <1>9 DEF Bind, Unmarked
  <2> QED BY <2>2, <2>3 DEF Unmarked, Marked, Counted
<1>10. CASE UNCHANGED composerVars
  <2>1. Under' = Under
    BY <1>10, UnderStill DEF composerVars
  <2> QED BY <1>10, <2>1, MarkedStill, CountedStill DEF composerVars, Unmarked
<1>11. DOMAIN sends = 1 .. MaxSends
  BY DEF ComposerTypeOK
<1> QED
  BY <1>1, <1>2, <1>3, <1>4, <1>5, <1>6, <1>7, <1>8, <1>9, <1>10, <1>11 DEF ComposerNext

LEMMA ComposerInvNext == ComposerInv /\ [ComposerNext]_composerVars => ComposerInv'
  BY ComposerTypeNext, CallsPastNext, FormNext DEF ComposerInv

-----------------------------------------------------------------------------
LEMMA OneUnder == ComposerInv => OneSend
<1> SUFFICES ASSUME ComposerInv, bound, ~again
             PROVE  Cardinality(Under) <= 1 /\ (submitting <=> Under # {})
  BY DEF ComposerInv, ComposerTypeOK, OneSend, Under
<1>1. (\A j, k \in Under : j = k) /\ (submitting <=> Under # {})
  BY DEF ComposerInv, Marked
<1>2. CASE Under = {}
  BY <1>1, <1>2, FS_EmptySet
<1>3. ASSUME NEW k \in Under PROVE Cardinality(Under) = 1
  <2>1. Under = {k}
    BY <1>1
  <2> QED BY <2>1, FS_Singleton
<1> QED BY <1>1, <1>2, <1>3

(* What DraftKept asks of one step.                                        *)
DraftLeaves ==
  \A k \in DOMAIN sends :
    sends[k].stage = "sending" /\ sends'[k].stage # "sending" /\ field' # field =>
      /\ sends'[k].stage = "sent" /\ field' = Blank /\ Mine(k)
      /\ field = sends[k].value /\ ~sends[k].edited

LEMMA DraftStep == ComposerInv /\ [ComposerNext]_composerVars => DraftLeaves
<1>1. ASSUME ComposerInv, [ComposerNext]_composerVars, NEW k \in DOMAIN sends,
             sends[k].stage = "sending", sends'[k].stage # "sending", field' # field
      PROVE  /\ sends'[k].stage = "sent" /\ field' = Blank /\ Mine(k)
             /\ field = sends[k].value /\ ~sends[k].edited
  <2>1. k \in 1 .. MaxSends /\ DOMAIN sends = 1 .. MaxSends
    BY <1>1 DEF ComposerInv, ComposerTypeOK
  <2>2. ASSUME NEW t \in AnyText, Input(t) PROVE sends'[k].stage = sends[k].stage
    BY <1>1, <2>1, <2>2, InputType DEF ComposerInv
  <2>3. PICK j \in 1 .. MaxSends, ok \in BOOLEAN : Resolve(j, ok)
    BY <1>1, <2>1, <2>2
       DEF ComposerNext, composerVars, Assign, Submit, Reject, Reported, Destroy,
           DestroyAgain, Bind
  <2>4. j = k
    BY <1>1, <2>1, <2>3, AtType DEF ComposerInv, Resolve
  <2>5. /\ ok /\ Mine(k) /\ field' = Blank /\ field = sends[k].value
        /\ revision = sends[k].revision
    BY <1>1, <2>3, <2>4 DEF Resolve
  <2>6. sends'[k].stage = "sent"
    <3>1. At(k, "sent")
      BY <2>3, <2>4, <2>5 DEF Resolve
    <3> QED BY <1>1, <2>1, <3>1, AtType DEF ComposerInv
  <2>7. k \in Under
    BY <1>1, <2>1, <2>5 DEF Under, InFlight
  <2>8. ~sends[k].edited
    <3>1. sends[k].edited => sends[k].revision < revision
      BY <1>1, <2>7 DEF ComposerInv, Counted
    <3>2. revision \in Nat
      BY <1>1 DEF ComposerInv, ComposerTypeOK
    <3> QED BY <2>5, <3>1, <3>2
  <2> QED BY <2>5, <2>6, <2>8
<1> QED BY <1>1 DEF DraftLeaves

LEMMA DraftIs == DraftKept <=> [][DraftLeaves]_composerVars
  BY DEF DraftKept, DraftLeaves

(* One form, one send: while its composer is bound and no dead one was     *)
(* destroyed again, the form is marked exactly while this composer waits   *)
(* for a call, and it waits for one at most (composer.js:23-53).           *)
THEOREM FormSendsOnce == ComposerSpec => []OneSend
  BY OneUnder, ComposerInitOK, ComposerInvNext, PTL DEF ComposerSpec

(* A draft leaves the field only when it is what the present composer has  *)
(* sent, the host has accepted it and nobody has typed meanwhile           *)
(* (composer.js:35-40).                                                    *)
THEOREM DraftIsKept == ComposerSpec => DraftKept
<1>1. ComposerInv /\ [ComposerNext]_composerVars => [DraftLeaves]_composerVars
  BY DraftStep
<1> QED BY <1>1, DraftIs, ComposerInitOK, ComposerInvNext, PTL DEF ComposerSpec

-----------------------------------------------------------------------------
(***************************************************************************)
(* Sums.  MapThenSumSet is a recursive function on the subsets of a set;   *)
(* what it computes follows from a least counterexample each time.         *)
(***************************************************************************)
Less == {p \in Nat \X Nat : p[1] < p[2]}

LEMMA NatLess == IsWellFoundedOn(Less, Nat)
  BY NatLessThanWellFounded DEF OpToRel, Less

LEMMA NatMin ==
  ASSUME NEW T \in SUBSET Nat, T # {}
  PROVE  \E n \in T : \A m \in T : n <= m
<1>1. PICK n \in T : \A m \in T : ~(<<m, n>> \in Less)
  BY NatLess, WFMin
<1>2. \A m \in T : ~(m < n)
  BY <1>1 DEF Less
<1> QED BY <1>2

LEMMA SmallestSet ==
  ASSUME NEW F, F # {}, \A s \in F : IsFiniteSet(s)
  PROVE  \E s \in F : \A t \in F : Cardinality(s) <= Cardinality(t)
<1> DEFINE T == {Cardinality(s) : s \in F}
<1>1. T \in SUBSET Nat /\ T # {}
  BY FS_CardinalityType
<1>2. PICK n \in T : \A m \in T : n <= m
  <2> HIDE DEF T
  <2> QED BY <1>1, NatMin
<1> QED BY <1>2

(* The sum of the sizes of what P keeps under the members of S.            *)
Total(P, S) == MapThenSumSet(LAMBDA i : P[i].size, S)
OneOf(S)    == CHOOSE x \in S : TRUE
SameSizes(P, Q, S) == \A i \in S : P[i].size = Q[i].size
Sums(g, P, D) == g = [s \in D |-> IF s = {} THEN 0 ELSE P[OneOf(s)].size + g[s \ {OneOf(s)}]]

LEMMA OneOfIn == ASSUME NEW S, S # {} PROVE OneOf(S) \in S
  BY DEF OneOf

LEMMA SumsAre ==
  ASSUME NEW g, NEW P, NEW D, Sums(g, P, D)
  PROVE  /\ DOMAIN g = D
         /\ \A s \in D : g[s] = IF s = {} THEN 0 ELSE P[OneOf(s)].size + g[s \ {OneOf(s)}]
  BY DEF Sums

LEMMA LessOne ==
  ASSUME NEW S, IsFiniteSet(S), NEW x \in S
  PROVE  IsFiniteSet(S \ {x}) /\ Cardinality(S \ {x}) + 1 = Cardinality(S)
  BY FS_RemoveElement, FS_CardinalityType

LEMMA SumsExist ==
  ASSUME NEW S, IsFiniteSet(S), NEW P
  PROVE  \E g : Sums(g, P, SUBSET S)
<1> DEFINE D(n) == {s \in SUBSET S : Cardinality(s) <= n}
           Bad  == {n \in Nat : ~\E g : Sums(g, P, D(n))}
<1>0. \A s \in SUBSET S : IsFiniteSet(s) /\ Cardinality(s) \in Nat /\ Cardinality(s) <= Cardinality(S)
  BY FS_Subset, FS_CardinalityType
<1>1. Bad = {}
  <2> SUFFICES ASSUME Bad # {} PROVE FALSE
    OBVIOUS
  <2>1. PICK n \in Bad : \A m \in Bad : n <= m
    <3>1. Bad \in SUBSET Nat
      OBVIOUS
    <3> HIDE DEF Bad
    <3> QED BY <3>1, NatMin
  <2>2. CASE n = 0
    <3>1. \A s \in D(n) : s = {}
      BY <1>0, <2>2, FS_EmptySet
    <3>2. Sums([s \in D(n) |-> 0], P, D(n))
      BY <3>1 DEF Sums
    <3> QED BY <2>1, <3>2
  <2>3. CASE n # 0
    <3>1. n - 1 \in Nat /\ n - 1 \notin Bad
      <4>1. n \in Nat
        BY <2>1
      <4> HIDE DEF Bad
      <4> QED BY <2>1, <2>3, <4>1
    <3>2. PICK g : Sums(g, P, D(n - 1))
      BY <3>1
    <3> DEFINE h == [s \in D(n) |-> IF s = {} THEN 0 ELSE P[OneOf(s)].size + g[s \ {OneOf(s)}]]
    <3>3. \A s \in D(n) : s # {} => s \ {OneOf(s)} \in D(n - 1)
      <4> SUFFICES ASSUME NEW s \in D(n), s # {} PROVE s \ {OneOf(s)} \in D(n - 1)
        OBVIOUS
      <4>1. IsFiniteSet(s) /\ OneOf(s) \in s
        BY <1>0, OneOfIn
      <4>2. Cardinality(s \ {OneOf(s)}) + 1 = Cardinality(s)
        BY <4>1, LessOne
      <4> QED BY <1>0, <2>1, <4>1, <4>2
    <3>4. D(n - 1) \subseteq D(n)
      BY <1>0, <2>1
    <3>5. \A s \in D(n - 1) : h[s] = g[s]
      BY <3>2, <3>4, SumsAre
    <3>6. \A s \in D(n) : s # {} => h[s \ {OneOf(s)}] = g[s \ {OneOf(s)}]
      BY <3>3, <3>5
    <3>7. Sums(h, P, D(n))
      <4>1. h = [s \in D(n) |-> IF s = {} THEN 0 ELSE P[OneOf(s)].size + h[s \ {OneOf(s)}]]
        BY <3>6
      <4> QED BY <4>1 DEF Sums
    <3> QED BY <2>1, <3>7
  <2> QED BY <2>2, <2>3
<1>2. D(Cardinality(S)) = SUBSET S /\ Cardinality(S) \in Nat
  BY <1>0
<1>3. Cardinality(S) \notin Bad
  BY <1>1
<1> QED BY <1>2, <1>3

LEMMA SumsAgree ==
  ASSUME NEW S, IsFiniteSet(S), NEW P, NEW Q, NEW g, NEW h, NEW U, S \subseteq U,
         SameSizes(P, Q, S),
         Sums(g, P, SUBSET S), Sums(h, Q, SUBSET U)
  PROVE  g[S] = h[S]
<1> DEFINE Bad == {s \in SUBSET S : g[s] # h[s]}
<1>1. \A s \in SUBSET S : IsFiniteSet(s) /\ Cardinality(s) \in Nat
  BY FS_Subset, FS_CardinalityType
<1>2. Bad = {}
  <2> SUFFICES ASSUME Bad # {} PROVE FALSE
    OBVIOUS
  <2>1. PICK s \in Bad : \A t \in Bad : Cardinality(s) <= Cardinality(t)
    <3>1. \A t \in Bad : IsFiniteSet(t)
      BY <1>1
    <3> HIDE DEF Bad
    <3> QED BY <3>1, SmallestSet
  <2>2. s # {}
    <3>1. {} \in SUBSET S /\ {} \in SUBSET U
      OBVIOUS
    <3>2. g[{}] = 0 /\ h[{}] = 0
      BY <3>1, SumsAre
    <3> QED BY <2>1, <3>2
  <2>3. OneOf(s) \in s
    BY <2>2, OneOfIn
  <2>4. s \ {OneOf(s)} \notin Bad
    <3>1. Cardinality(s \ {OneOf(s)}) + 1 = Cardinality(s) /\ Cardinality(s) \in Nat
      BY <1>1, <2>1, <2>3, LessOne
    <3>2. Cardinality(s \ {OneOf(s)}) \in Nat
      BY <1>1, <2>1
    <3> HIDE DEF Bad
    <3> QED BY <2>1, <3>1, <3>2
  <2>5. g[s \ {OneOf(s)}] = h[s \ {OneOf(s)}]
    BY <2>1, <2>4
  <2>6. g[s] = P[OneOf(s)].size + g[s \ {OneOf(s)}]
    BY <2>1, <2>2, SumsAre
  <2>7. h[s] = Q[OneOf(s)].size + h[s \ {OneOf(s)}]
    BY <2>1, <2>2, SumsAre
  <2>8. P[OneOf(s)].size = Q[OneOf(s)].size
    BY <2>1, <2>3 DEF SameSizes
  <2> QED BY <2>1, <2>5, <2>6, <2>7, <2>8
<1> QED BY <1>2

LEMMA TotalIs ==
  ASSUME NEW S, IsFiniteSet(S), NEW P
  PROVE  \E g : Sums(g, P, SUBSET S) /\ Total(P, S) = g[S]
<1>1. \E g : Sums(g, P, SUBSET S)
  BY SumsExist
<1> QED BY <1>1 DEF Total, MapThenSumSet, MapThenFoldSet, Sums, OneOf

LEMMA TotalSame ==
  ASSUME NEW S, IsFiniteSet(S), NEW P, NEW Q, \A i \in S : P[i].size = Q[i].size
  PROVE  Total(P, S) = Total(Q, S)
<1>1. PICK g : Sums(g, P, SUBSET S) /\ Total(P, S) = g[S]
  BY TotalIs
<1>2. PICK h : Sums(h, Q, SUBSET S) /\ Total(Q, S) = h[S]
  BY TotalIs
<1>3. S \subseteq S
  OBVIOUS
<1>4. g[S] = h[S]
  <2>1. Sums(g, P, SUBSET S) /\ Sums(h, Q, SUBSET S)
    BY <1>1, <1>2
  <2>2. SameSizes(P, Q, S)
    BY DEF SameSizes
  <2> QED BY ONLY <1>3, <2>1, <2>2, IsFiniteSet(S), SumsAgree
<1> QED BY <1>1, <1>2, <1>4

LEMMA TotalStep ==
  ASSUME NEW S, IsFiniteSet(S), NEW P
  PROVE  Total(P, S) = IF S = {} THEN 0 ELSE P[OneOf(S)].size + Total(P, S \ {OneOf(S)})
<1>1. PICK g : Sums(g, P, SUBSET S) /\ Total(P, S) = g[S]
  BY TotalIs
<1>2. CASE S = {}
  BY <1>1, <1>2, SumsAre
<1>3. CASE S # {}
  <2> DEFINE U == S \ {OneOf(S)}
  <2>1. IsFiniteSet(U) /\ U \subseteq S
    BY FS_Subset
  <2>2. PICK h : Sums(h, P, SUBSET U) /\ Total(P, U) = h[U]
    BY <2>1, TotalIs
  <2>3. h[U] = g[U]
    <3>1. SameSizes(P, P, U)
      BY DEF SameSizes
    <3>2. Sums(h, P, SUBSET U) /\ Sums(g, P, SUBSET S)
      BY <1>1, <2>2
    <3> HIDE DEF U
    <3>3. h[U] = g[U]
      BY ONLY <2>1, <3>1, <3>2, SumsAgree
    <3> QED BY <3>3
  <2> QED BY <1>1, <1>3, <2>2, <2>3, SumsAre
<1> QED BY <1>2, <1>3

LEMMA TotalNat ==
  ASSUME NEW S, IsFiniteSet(S), NEW P, \A i \in S : P[i].size \in Nat
  PROVE  Total(P, S) \in Nat
<1> DEFINE Bad == {s \in SUBSET S : Total(P, s) \notin Nat}
<1>1. \A s \in SUBSET S : IsFiniteSet(s) /\ Cardinality(s) \in Nat
  BY FS_Subset, FS_CardinalityType
<1>2. Bad = {}
  <2> SUFFICES ASSUME Bad # {} PROVE FALSE
    OBVIOUS
  <2>1. PICK s \in Bad : \A t \in Bad : Cardinality(s) <= Cardinality(t)
    <3>1. \A t \in Bad : IsFiniteSet(t)
      BY <1>1
    <3> HIDE DEF Bad
    <3> QED BY <3>1, SmallestSet
  <2>2. Total(P, s) = IF s = {} THEN 0 ELSE P[OneOf(s)].size + Total(P, s \ {OneOf(s)})
    BY <1>1, <2>1, TotalStep
  <2>3. s # {}
    BY <2>1, <2>2
  <2>4. OneOf(s) \in s
    BY <2>3, OneOfIn
  <2>5. s \ {OneOf(s)} \notin Bad
    <3>1. Cardinality(s \ {OneOf(s)}) + 1 = Cardinality(s) /\ Cardinality(s) \in Nat
      BY <1>1, <2>1, <2>4, LessOne
    <3>2. Cardinality(s \ {OneOf(s)}) \in Nat
      BY <1>1, <2>1
    <3> HIDE DEF Bad
    <3> QED BY <2>1, <3>1, <3>2
  <2>6. Total(P, s \ {OneOf(s)}) \in Nat /\ P[OneOf(s)].size \in Nat
    BY <2>1, <2>4, <2>5
  <2> QED BY <2>1, <2>2, <2>3, <2>6
<1> QED BY <1>2

LEMMA TotalPick ==
  ASSUME NEW S, IsFiniteSet(S), NEW P, \A i \in S : P[i].size \in Nat, NEW x \in S
  PROVE  Total(P, S) = P[x].size + Total(P, S \ {x})
<1> DEFINE Bad == {s \in SUBSET S : \E y \in s : Total(P, s) # P[y].size + Total(P, s \ {y})}
<1>1. \A s \in SUBSET S : IsFiniteSet(s) /\ Cardinality(s) \in Nat
  BY FS_Subset, FS_CardinalityType
<1>2. Bad = {}
  <2> SUFFICES ASSUME Bad # {} PROVE FALSE
    OBVIOUS
  <2>1. PICK s \in Bad : \A t \in Bad : Cardinality(s) <= Cardinality(t)
    <3>1. \A t \in Bad : IsFiniteSet(t)
      BY <1>1
    <3> HIDE DEF Bad
    <3> QED BY <3>1, SmallestSet
  <2>2. PICK y \in s : Total(P, s) # P[y].size + Total(P, s \ {y})
    BY <2>1
  <2> DEFINE c == OneOf(s)
  <2>3. c \in s
    BY <2>2, OneOfIn
  <2>4. Total(P, s) = P[c].size + Total(P, s \ {c})
    BY <1>1, <2>1, <2>3, TotalStep
  <2>5. c # y
    BY <2>2, <2>4
  <2> DEFINE both == (s \ {c}) \ {y}
  <2>6. /\ s \ {c} \in SUBSET S /\ s \ {y} \in SUBSET S /\ both \in SUBSET S
        /\ both = (s \ {y}) \ {c}
    BY <2>1
  <2>7. s \ {c} \notin Bad /\ s \ {y} \notin Bad
    <3>1. /\ Cardinality(s \ {c}) + 1 = Cardinality(s) /\ Cardinality(s) \in Nat
          /\ Cardinality(s \ {y}) + 1 = Cardinality(s)
      BY <1>1, <2>1, <2>2, <2>3, LessOne
    <3>2. Cardinality(s \ {c}) \in Nat /\ Cardinality(s \ {y}) \in Nat
      BY <1>1, <2>6
    <3> HIDE DEF Bad, c
    <3> QED BY <2>1, <3>1, <3>2
  <2>8. Total(P, s \ {c}) = P[y].size + Total(P, both)
    BY <2>2, <2>5, <2>6, <2>7
  <2>9. Total(P, s \ {y}) = P[c].size + Total(P, both)
    <3>1. Total(P, s \ {y}) = P[c].size + Total(P, (s \ {y}) \ {c})
      BY <2>3, <2>5, <2>6, <2>7
    <3> QED BY <2>6, <3>1
  <2>10. Total(P, both) \in Nat /\ P[c].size \in Nat /\ P[y].size \in Nat
    <3>1. IsFiniteSet(both) /\ \A i \in both : P[i].size \in Nat
      BY <1>1, <2>6
    <3>2. Total(P, both) \in Nat
      <4> HIDE DEF both
      <4> QED BY <3>1, TotalNat
    <3> QED BY <2>1, <2>2, <2>3, <3>2
  <2>11. Total(P, s) = P[y].size + Total(P, s \ {y})
    <3> HIDE DEF both, c, Bad
    <3> QED BY <2>4, <2>8, <2>9, <2>10
  <2> QED BY <2>2, <2>11
<1> QED BY <1>2

-----------------------------------------------------------------------------
(***************************************************************************)
(* The client's book: what waits, its bytes, and how each call ended.      *)
(***************************************************************************)
Item  == [call : Calls, size : Sizes, sent : BOOLEAN]
Ended == {"answered", "rejected", "refused", "timeout", "closed"}

Numbered == \A c \in Calls : c > made => outcome[c] = "none"
OneEach  ==
  /\ \A c \in Calls : outcome[c] = "open" <=> \E i \in Waiting(Ids) : pending[i].call = c
  /\ \A i, j \in Waiting(Ids) : pending[i].call = pending[j].call => i = j

BookOK ==
  /\ pending \in [Ids -> Item \cup {None}] /\ outcome \in [Calls -> Outcomes]
  /\ made \in 0 .. MaxCalls
  /\ queuedBytes = Total(pending, Unsent)
  /\ OneEach /\ Cardinality(Waiting(Ids)) <= MaxPending /\ Numbered

(* What a step does to the book: a waiting request ends, is sent, joins;   *)
(* a new one is refused; all end.                                          *)
Ends(i, how) == i \in Waiting(Ids) /\ how \in Ended /\ Settle(i, how) /\ UNCHANGED made

Goes(i) ==
  /\ i \in Unsent
  /\ pending' = [pending EXCEPT ![i] = [pending[i] EXCEPT !.sent = TRUE]]
  /\ queuedBytes' = queuedBytes - pending[i].size
  /\ UNCHANGED <<outcome, made>>

Joins(i, item) ==
  /\ i \in Ids /\ pending[i] = None /\ item \in Item /\ item.call = made + 1
  /\ Cardinality(Waiting(Ids)) < MaxPending
  /\ pending' = [pending EXCEPT ![i] = item]
  /\ queuedBytes' = IF item.sent THEN queuedBytes ELSE queuedBytes + item.size
  /\ outcome' = [outcome EXCEPT ![item.call] = "open"] /\ made' = made + 1

Refused ==
  /\ made + 1 \in Calls /\ made' = made + 1
  /\ outcome' = [outcome EXCEPT ![made + 1] = "refused"]
  /\ UNCHANGED <<pending, queuedBytes>>

AllEnd ==
  /\ pending' = [i \in Ids |-> None] /\ queuedBytes' = queuedBytes - UnsentBytes
  /\ outcome' = [c \in Calls |-> IF outcome[c] = "open" THEN "closed" ELSE outcome[c]]
  /\ UNCHANGED made

BookSame == UNCHANGED <<pending, queuedBytes, outcome, made>>

BookStep ==
  \/ \E i \in Ids : \E how \in Ended : Ends(i, how)
  \/ \E i \in Ids : Goes(i)
  \/ \E i \in Ids : \E item \in Item : Joins(i, item)
  \/ Refused \/ AllEnd \/ BookSame

LEMMA ClientFacts ==
  /\ MaxPending \in Nat \ {0} /\ MaxBuffered \in Nat /\ MaxSeq \in Nat \ {0}
  /\ MaxCalls \in Nat \ {0} /\ MaxFaults \in Nat /\ MaxPending < MaxSeq
  /\ Sizes \subseteq Nat /\ None \notin Item /\ None \notin Nat
  /\ IsFiniteSet(Ids) /\ IsFiniteSet(Calls) /\ Ids \subseteq Nat \ {0} /\ Calls \subseteq Nat \ {0}
<1>1. IsFiniteSet(Ids) /\ IsFiniteSet(Calls)
  BY ClientConstants, FS_Interval DEF Ids, Calls
<1>2. Item \subseteq [call : Nat, size : Nat, sent : BOOLEAN]
  <2>1. Calls \subseteq Nat /\ Sizes \subseteq Nat
    BY ClientConstants DEF Calls
  <2> QED BY <2>1 DEF Item
<1> QED BY <1>1, <1>2, ClientConstants DEF Ids, Calls

LEMMA WaitingFacts ==
  ASSUME pending \in [Ids -> Item \cup {None}]
  PROVE  /\ \A i \in Ids : i \in Waiting(Ids) <=> pending[i] # None
         /\ \A i \in Ids : i \in Waiting(Ids) <=> pending[i] \in Item
         /\ Waiting(Ids) \subseteq Ids /\ Unsent \subseteq Waiting(Ids)
         /\ \A i \in Waiting(Ids) : /\ pending[i].call \in Calls /\ pending[i].size \in Nat
                                    /\ pending[i].size \in Sizes /\ pending[i].sent \in BOOLEAN
         /\ \A i \in Waiting(Ids) : i \in Unsent <=> ~pending[i].sent
         /\ IsFiniteSet(Waiting(Ids)) /\ IsFiniteSet(Unsent)
<1>1. \A i \in Ids : pending[i] # None <=> pending[i] \in Item
  BY ClientFacts
<1>2. Waiting(Ids) \subseteq Ids /\ Unsent \subseteq Waiting(Ids)
  BY DEF Waiting, Unsent
<1>3. IsFiniteSet(Waiting(Ids)) /\ IsFiniteSet(Unsent)
  BY <1>2, ClientFacts, FS_Subset
<1>4. \A i \in Ids : pending[i] \in Item =>
        /\ pending[i].call \in Calls /\ pending[i].size \in Nat
        /\ pending[i].size \in Sizes /\ pending[i].sent \in BOOLEAN
  BY ClientFacts DEF Item
<1> QED BY <1>1, <1>2, <1>3, <1>4 DEF Waiting, Unsent

LEMMA BytesTotal == UnsentBytes = Total(pending, Unsent)
  BY DEF Total, UnsentBytes, MapThenSumSet, MapThenFoldSet

LEMMA EndsOK ==
  ASSUME BookOK, NEW i \in Ids, NEW how \in Ended, Ends(i, how)
  PROVE  BookOK' /\ Waiting(Ids)' = Waiting(Ids) \ {i} /\ Unsent' = Unsent \ {i}
<1>1. /\ pending[i] \in Item /\ i \in Waiting(Ids) /\ pending[i].call \in Calls
      /\ pending[i].sent \in BOOLEAN /\ pending[i].size \in Nat
  BY WaitingFacts DEF BookOK, Ends
<1>2. /\ pending' = [pending EXCEPT ![i] = None] /\ queuedBytes' = Bytes(pending[i])
      /\ outcome' = [outcome EXCEPT ![pending[i].call] = how] /\ made' = made
  BY DEF Ends, Settle
<1>3. pending' \in [Ids -> Item \cup {None}] /\ outcome' \in [Calls -> Outcomes]
  <2>1. how \in Outcomes
    BY DEF Ended, Outcomes
  <2> QED BY <1>2, <2>1 DEF BookOK
<1>4. pending'[i] = None /\ \A j \in Ids \ {i} : pending'[j] = pending[j]
  BY <1>2 DEF BookOK
<1>5. Waiting(Ids)' = Waiting(Ids) \ {i} /\ Unsent' = Unsent \ {i}
  BY <1>4 DEF Waiting, Unsent
<1>6. IsFiniteSet(Waiting(Ids)) /\ IsFiniteSet(Unsent) /\ \A j \in Unsent : pending[j].size \in Nat
  BY WaitingFacts DEF BookOK
<1>7. queuedBytes' = Total(pending', Unsent')
  <2>1. Total(pending', Unsent') = Total(pending, Unsent \ {i})
    <3>1. IsFiniteSet(Unsent \ {i})
      BY <1>6, FS_Subset
    <3>2. \A j \in Unsent \ {i} : pending'[j].size = pending[j].size
      BY <1>4, WaitingFacts DEF BookOK
    <3>3. Total(pending', Unsent \ {i}) = Total(pending, Unsent \ {i})
      BY <3>1, <3>2, TotalSame
    <3> QED BY <1>5, <3>3
  <2>2. CASE pending[i].sent
    <3>1. Unsent \ {i} = Unsent
      BY <2>2 DEF Unsent
    <3> QED BY <1>2, <2>1, <2>2, <3>1 DEF Bytes, BookOK
  <2>3. CASE ~pending[i].sent
    <3>1. i \in Unsent
      BY <1>1, <2>3 DEF Unsent
    <3>2. Total(pending, Unsent) = pending[i].size + Total(pending, Unsent \ {i})
      BY <1>6, <3>1, TotalPick
    <3>3. Total(pending, Unsent \ {i}) \in Nat
      <4>1. IsFiniteSet(Unsent \ {i}) /\ \A j \in Unsent \ {i} : pending[j].size \in Nat
        BY <1>6, FS_Subset
      <4> QED BY <4>1, TotalNat
    <3>4. queuedBytes' = queuedBytes - pending[i].size /\ queuedBytes = Total(pending, Unsent)
      BY <1>2, <2>3 DEF Bytes, BookOK
    <3> QED BY ONLY <1>1, <2>1, <3>2, <3>3, <3>4
  <2> QED BY <1>1, <2>2, <2>3
<1>8. OneEach'
  <2>1. \A c \in Calls : c # pending[i].call => outcome'[c] = outcome[c]
    BY <1>1, <1>2 DEF BookOK
  <2>2. outcome'[pending[i].call] # "open"
    BY <1>1, <1>2 DEF BookOK, Ended
  <2>3. \A j \in Waiting(Ids)' : pending'[j] = pending[j] /\ pending[j].call # pending[i].call
    BY <1>1, <1>4, <1>5, WaitingFacts DEF BookOK, OneEach
  <2>4. \A c \in Calls : outcome'[c] = "open" <=> \E j \in Waiting(Ids)' : pending'[j].call = c
    BY <1>1, <1>5, <2>1, <2>2, <2>3 DEF BookOK, OneEach
  <2>5. \A j, k \in Waiting(Ids)' : pending'[j].call = pending'[k].call => j = k
    BY <1>5, <2>3 DEF BookOK, OneEach
  <2> QED BY <2>4, <2>5 DEF OneEach
<1>9. Cardinality(Waiting(Ids)') <= MaxPending
  <2>1. Cardinality(Waiting(Ids) \ {i}) + 1 = Cardinality(Waiting(Ids))
    BY <1>1, <1>6, LessOne
  <2>2. Cardinality(Waiting(Ids) \ {i}) \in Nat
    BY <1>6, FS_Subset, FS_CardinalityType
  <2> QED BY <1>5, <2>1, <2>2, ClientFacts DEF BookOK
<1>10. Numbered'
  <2>1. outcome[pending[i].call] = "open"
    BY <1>1 DEF BookOK, OneEach
  <2>2. ~(pending[i].call > made)
    BY <1>1, <2>1 DEF BookOK, Numbered
  <2> QED BY <1>1, <1>2, <2>2 DEF BookOK, Numbered
<1>11. made' \in 0 .. MaxCalls
  BY <1>2 DEF BookOK
<1> QED BY <1>3, <1>5, <1>7, <1>8, <1>9, <1>10, <1>11 DEF BookOK

LEMMA GoesOK ==
  ASSUME BookOK, NEW i \in Ids, Goes(i)
  PROVE  BookOK' /\ Waiting(Ids)' = Waiting(Ids) /\ Unsent' = Unsent \ {i}
<1>1. /\ pending[i] \in Item /\ i \in Waiting(Ids) /\ i \in Unsent /\ pending[i].size \in Nat
  BY WaitingFacts DEF BookOK, Goes
<1> DEFINE sentItem == [pending[i] EXCEPT !.sent = TRUE]
<1>2. sentItem \in Item /\ sentItem.call = pending[i].call /\ sentItem.sent = TRUE
  BY <1>1 DEF Item
<1> HIDE DEF sentItem
<1>3. pending' = [pending EXCEPT ![i] = sentItem]
  BY DEF Goes, sentItem
<1>4. pending'[i] = sentItem /\ \A j \in Ids \ {i} : pending'[j] = pending[j]
  BY <1>3 DEF BookOK
<1>5. pending' \in [Ids -> Item \cup {None}]
  BY <1>2, <1>3 DEF BookOK
<1>6. Waiting(Ids)' = Waiting(Ids) /\ Unsent' = Unsent \ {i}
  <2>1. sentItem # None
    BY <1>2, ClientFacts
  <2> QED BY <1>1, <1>2, <1>4, <2>1 DEF Waiting, Unsent
<1>7. \A j \in Ids : pending'[j] # None => pending'[j].call = pending[j].call
  BY <1>2, <1>4
<1>8. OneEach'
  <2>1. outcome' = outcome
    BY DEF Goes
  <2>2. \A j \in Waiting(Ids) : pending'[j].call = pending[j].call
    BY <1>6, <1>7 DEF Waiting
  <2> QED BY <1>6, <2>1, <2>2 DEF BookOK, OneEach
<1>9. queuedBytes' = Total(pending', Unsent')
  <2>0. IsFiniteSet(Unsent) /\ \A j \in Unsent : pending[j].size \in Nat
    BY WaitingFacts DEF BookOK
  <2>1. IsFiniteSet(Unsent \ {i}) /\ \A j \in Unsent \ {i} : pending[j].size \in Nat
    BY <2>0, FS_Subset
  <2>2. \A j \in Unsent \ {i} : pending'[j].size = pending[j].size
    BY <1>4, WaitingFacts DEF BookOK
  <2>3. Total(pending', Unsent \ {i}) = Total(pending, Unsent \ {i})
    BY <2>1, <2>2, TotalSame
  <2>4. Total(pending, Unsent) = pending[i].size + Total(pending, Unsent \ {i})
    BY <1>1, <2>0, TotalPick
  <2>5. Total(pending, Unsent \ {i}) \in Nat
    BY <2>1, TotalNat
  <2>6. queuedBytes' = queuedBytes - pending[i].size /\ queuedBytes = Total(pending, Unsent)
    BY DEF Goes, BookOK
  <2>7. queuedBytes' = Total(pending', Unsent \ {i})
    BY ONLY <1>1, <2>3, <2>4, <2>5, <2>6
  <2> QED BY <1>6, <2>7
<1>10. UNCHANGED <<outcome, made>>
  BY DEF Goes
<1> QED BY <1>5, <1>6, <1>8, <1>9, <1>10 DEF BookOK, Numbered

LEMMA JoinsOK ==
  ASSUME BookOK, NEW i \in Ids, NEW item \in Item, Joins(i, item)
  PROVE  /\ BookOK' /\ Waiting(Ids)' = Waiting(Ids) \cup {i}
         /\ Unsent' = IF item.sent THEN Unsent ELSE Unsent \cup {i}
         /\ pending'[i] = item /\ \A j \in Ids \ {i} : pending'[j] = pending[j]
<1>1. /\ pending[i] = None /\ item.call = made + 1 /\ item.call \in Calls
      /\ item.size \in Nat /\ item.sent \in BOOLEAN /\ item # None
  BY ClientFacts DEF Joins, Item
<1>2. /\ pending' = [pending EXCEPT ![i] = item] /\ made' = made + 1
      /\ outcome' = [outcome EXCEPT ![item.call] = "open"]
  BY DEF Joins
<1>3. pending' \in [Ids -> Item \cup {None}] /\ outcome' \in [Calls -> Outcomes]
  BY <1>2 DEF BookOK, Outcomes
<1>4. pending'[i] = item /\ \A j \in Ids \ {i} : pending'[j] = pending[j]
  BY <1>2 DEF BookOK
<1>5. i \notin Waiting(Ids) /\ i \notin Unsent
  BY <1>1 DEF Waiting, Unsent
<1>6. Waiting(Ids)' = Waiting(Ids) \cup {i}
  BY <1>1, <1>4 DEF Waiting
<1>7. Unsent' = IF item.sent THEN Unsent ELSE Unsent \cup {i}
  BY <1>1, <1>4, <1>5, <1>6 DEF Unsent, Waiting
<1>8. made \in Nat /\ made + 1 \in 1 .. MaxCalls
  BY <1>1, ClientFacts DEF BookOK, Calls
<1>9. outcome[item.call] = "none"
  BY <1>1, <1>8 DEF BookOK, Numbered
<1>10. OneEach'
  <2>1. \A j \in Waiting(Ids) : pending'[j] = pending[j] /\ pending[j].call # item.call
    <3>1. \A j \in Waiting(Ids) : pending[j].call \in Calls /\ j \in Ids
      BY WaitingFacts DEF BookOK
    <3>2. \A j \in Waiting(Ids) : outcome[pending[j].call] = "open"
      BY <3>1 DEF BookOK, OneEach
    <3> QED BY <1>4, <1>5, <1>9, <3>1, <3>2
  <2>2. \A c \in Calls : c # item.call => outcome'[c] = outcome[c]
    BY <1>2 DEF BookOK
  <2>3. outcome'[item.call] = "open"
    BY <1>1, <1>2 DEF BookOK
  <2>4. \A c \in Calls : outcome'[c] = "open" <=> \E j \in Waiting(Ids)' : pending'[j].call = c
    BY <1>4, <1>6, <2>1, <2>2, <2>3 DEF BookOK, OneEach
  <2>5. \A j, k \in Waiting(Ids)' : pending'[j].call = pending'[k].call => j = k
    BY <1>4, <1>6, <2>1 DEF BookOK, OneEach
  <2> QED BY <2>4, <2>5 DEF OneEach
<1>11. queuedBytes' = Total(pending', Unsent')
  <2>0. IsFiniteSet(Unsent) /\ \A j \in Unsent : pending[j].size \in Nat
    BY WaitingFacts DEF BookOK
  <2>1. \A j \in Unsent : pending'[j].size = pending[j].size
    BY <1>4, <1>5, WaitingFacts DEF BookOK
  <2>2. Total(pending', Unsent) = Total(pending, Unsent)
    BY <2>0, <2>1, TotalSame
  <2>3. CASE item.sent
    BY <1>7, <2>2, <2>3 DEF Joins, BookOK
  <2>4. CASE ~item.sent
    <3>1. IsFiniteSet(Unsent \cup {i}) /\ \A j \in Unsent \cup {i} : pending'[j].size \in Nat
      BY <1>1, <1>4, <2>0, <2>1, FS_AddElement
    <3>2. Total(pending', Unsent \cup {i}) = pending'[i].size + Total(pending', (Unsent \cup {i}) \ {i})
      BY <3>1, TotalPick
    <3>3. (Unsent \cup {i}) \ {i} = Unsent
      BY <1>5
    <3>4. Total(pending, Unsent) \in Nat
      BY <2>0, TotalNat
    <3>5. queuedBytes' = queuedBytes + item.size /\ queuedBytes = Total(pending, Unsent)
      BY <2>4 DEF Joins, BookOK
    <3>6. Total(pending', Unsent \cup {i}) = item.size + Total(pending, Unsent)
      BY <1>4, <2>2, <3>2, <3>3
    <3>7. Unsent' = Unsent \cup {i}
      BY <1>7, <2>4
    <3> QED BY ONLY <1>1, <3>4, <3>5, <3>6, <3>7
  <2> QED BY <1>1, <2>3, <2>4
<1>12. Cardinality(Waiting(Ids)') <= MaxPending
  <2>1. IsFiniteSet(Waiting(Ids))
    BY WaitingFacts DEF BookOK
  <2>2. Cardinality(Waiting(Ids) \cup {i}) = Cardinality(Waiting(Ids)) + 1
    BY <1>5, <2>1, FS_AddElement
  <2>3. Cardinality(Waiting(Ids)) < MaxPending /\ Cardinality(Waiting(Ids)) \in Nat
    BY <2>1, FS_CardinalityType DEF Joins
  <2> QED BY <1>6, <2>2, <2>3, ClientFacts
<1>13. Numbered'
  BY <1>1, <1>2, <1>8, ClientFacts DEF BookOK, Numbered
<1>14. made' \in 0 .. MaxCalls
  BY <1>2, <1>8
<1> QED BY <1>3, <1>4, <1>6, <1>7, <1>10, <1>11, <1>12, <1>13, <1>14 DEF BookOK

LEMMA RefusedOK ==
  ASSUME BookOK, Refused
  PROVE  BookOK' /\ Waiting(Ids)' = Waiting(Ids) /\ Unsent' = Unsent
<1>1. UNCHANGED <<pending, queuedBytes>> /\ made' = made + 1 /\ made + 1 \in Calls
  BY DEF Refused
<1>2. outcome' = [outcome EXCEPT ![made + 1] = "refused"]
  BY DEF Refused
<1>3. Waiting(Ids)' = Waiting(Ids) /\ Unsent' = Unsent
  BY <1>1 DEF Waiting, Unsent
<1>4. made \in Nat /\ made' \in 0 .. MaxCalls
  BY <1>1, ClientFacts DEF BookOK, Calls
<1>5. outcome[made + 1] = "none"
  BY <1>1, <1>4 DEF BookOK, Numbered
<1>6. OneEach'
  <2>1. \A c \in Calls : outcome'[c] = "open" <=> outcome[c] = "open"
    BY <1>1, <1>2, <1>5 DEF BookOK
  <2> QED BY <1>1, <1>3, <2>1 DEF BookOK, OneEach
<1>7. Numbered'
  BY <1>1, <1>2, <1>4, ClientFacts DEF BookOK, Numbered
<1>8. outcome' \in [Calls -> Outcomes]
  BY <1>2 DEF BookOK, Outcomes
<1> QED BY <1>1, <1>3, <1>4, <1>6, <1>7, <1>8 DEF BookOK

LEMMA AllEndOK ==
  ASSUME BookOK, AllEnd
  PROVE  BookOK' /\ Waiting(Ids)' = {} /\ Unsent' = {} /\ queuedBytes' = 0
<1>1. Waiting(Ids)' = {} /\ Unsent' = {}
  BY DEF AllEnd, Waiting, Unsent
<1>2. \A c \in Calls : outcome'[c] # "open" /\ (outcome[c] = "none" => outcome'[c] = "none")
  BY DEF AllEnd
<1>3. outcome' \in [Calls -> Outcomes]
  BY DEF AllEnd, BookOK, Outcomes
<1>4. pending' \in [Ids -> Item \cup {None}]
  BY DEF AllEnd
<1>5. queuedBytes' = 0
  <2>1. Total(pending, Unsent) \in Nat
    BY WaitingFacts, TotalNat DEF BookOK
  <2>2. queuedBytes' = queuedBytes - Total(pending, Unsent) /\ queuedBytes = Total(pending, Unsent)
    BY BytesTotal DEF AllEnd, BookOK
  <2> QED BY ONLY <2>1, <2>2
<1>6. Total(pending', {}) = 0
  BY FS_EmptySet, TotalStep
<1>7. OneEach'
  BY <1>1, <1>2 DEF OneEach
<1>8. Cardinality(Waiting(Ids)') <= MaxPending
  BY <1>1, FS_EmptySet, ClientFacts
<1>9. Numbered' /\ made' \in 0 .. MaxCalls
  BY <1>2 DEF AllEnd, BookOK, Numbered
<1> QED BY <1>1, <1>3, <1>4, <1>5, <1>6, <1>7, <1>8, <1>9 DEF BookOK

LEMMA BookSameOK ==
  ASSUME BookOK, BookSame
  PROVE  BookOK' /\ Waiting(Ids)' = Waiting(Ids) /\ Unsent' = Unsent
<1>1. Waiting(Ids)' = Waiting(Ids) /\ Unsent' = Unsent
  BY DEF BookSame, Waiting, Unsent
<1> QED BY <1>1 DEF BookSame, BookOK, OneEach, Numbered

LEMMA BookNext == BookOK /\ BookStep => BookOK'
  BY EndsOK, GoesOK, JoinsOK, RefusedOK, AllEndOK, BookSameOK DEF BookStep

-----------------------------------------------------------------------------
(***************************************************************************)
(* The rest of the client's state: the walk after "ready", the socket's    *)
(* buffer, and the frames on their way.                                    *)
(***************************************************************************)
Plain ==
  /\ socket \in {"connecting", "open", "closing", "closed"}
  /\ {initialized, closed, wrapped} \subseteq BOOLEAN
  /\ ready \in {"open", "ok", "failed"} /\ seq \in 0 .. MaxSeq
  /\ flush \in 0 .. MaxCalls \cup {None} /\ faults \in 0 .. MaxFaults
  /\ stolen \subseteq Calls

SentFrame == [id : Ids, call : Calls, size : Sizes]
DownFrame == [kind : {"ready", "response", "error"}, id : 0 .. MaxSeq,
              call : 0 .. MaxCalls, ok : BOOLEAN]
Responses == {n \in DOMAIN down : down[n].kind = "response"}

FramesOK ==
  /\ unsent \in Seq(SentFrame) /\ up \in Seq(Frames) /\ down \in Seq(DownFrame)
  /\ \A n \in Responses : down[n].id \in Ids /\ down[n].call \in Calls

(* The buffer holds the bytes of the frames in it: p counts what is left   *)
(* after each.                                                             *)
Buffer ==
  \E p \in [0 .. Len(unsent) -> Nat] :
    /\ p[0] = buffered /\ p[Len(unsent)] = 0
    /\ \A n \in 1 .. Len(unsent) : p[n - 1] = p[n] + unsent[n].size

Limit == queuedBytes + buffered <= MaxBuffered

(* Until the walk is over it has those before it that are not sent yet.    *)
InWalk ==
  /\ flush # None => initialized
  /\ initialized => \A i \in Unsent : flush # None /\ pending[i].call > flush

(* Nothing is sent, and so nothing answered, before there is a session.    *)
Early == ~initialized => unsent = <<>> /\ up = <<>> /\ Responses = {}

(* Until ids come again, whoever waits under a frame's id has sent it.     *)
Owns(f) == f.id <= seq /\ (pending[f.id] = None \/ pending[f.id].call = f.call)
Owned ==
  ~wrapped =>
    /\ stolen = {} /\ \A i \in Waiting(Ids) : i <= seq
    /\ \A n \in DOMAIN unsent : Owns(unsent[n])
    /\ \A n \in DOMAIN up : Owns(up[n])
    /\ \A n \in Responses : Owns(down[n])

ClosedEmpty == closed => Waiting(Ids) = {}

ClientInv ==
  /\ BookOK /\ Plain /\ FramesOK /\ Buffer /\ Limit
  /\ InWalk /\ Early /\ Owned /\ ClosedEmpty

LessPending == \A i \in Waiting(Ids)' : i \in Waiting(Ids) /\ pending'[i].call = pending[i].call

LEMMA TailIs ==
  ASSUME NEW S, NEW s \in Seq(S), s # <<>>
  PROVE  /\ Tail(s) \in Seq(S) /\ Len(Tail(s)) = Len(s) - 1 /\ Len(s) \in Nat \ {0}
         /\ Head(s) = s[1] /\ Head(s) \in S /\ 1 \in DOMAIN s
         /\ \A n \in DOMAIN Tail(s) : n + 1 \in DOMAIN s /\ Tail(s)[n] = s[n + 1]
  OBVIOUS

LEMMA AppendIs ==
  ASSUME NEW S, NEW s \in Seq(S), NEW e \in S
  PROVE  /\ Append(s, e) \in Seq(S) /\ Len(Append(s, e)) = Len(s) + 1 /\ Len(s) \in Nat
         /\ Append(s, e)[Len(s) + 1] = e
         /\ \A n \in DOMAIN s : Append(s, e)[n] = s[n]
         /\ \A n \in DOMAIN Append(s, e) : n \in DOMAIN s \/ n = Len(s) + 1
         /\ DOMAIN s = 1 .. Len(s)
  OBVIOUS

LEMMA OwnsStill ==
  ASSUME BookOK, BookOK', LessPending, NEW f, f.id \in Ids, Owns(f), seq' = seq
  PROVE  f.id <= seq' /\ (pending'[f.id] = None \/ pending'[f.id].call = f.call)
<1>1. CASE pending'[f.id] = None
  BY <1>1 DEF Owns
<1>2. CASE pending'[f.id] # None
  <2>1. f.id \in Waiting(Ids)'
    BY <1>2 DEF Waiting
  <2>2. pending[f.id] # None /\ pending'[f.id].call = pending[f.id].call
    BY <2>1 DEF LessPending, Waiting
  <2> QED BY <2>2 DEF Owns
<1> QED BY <1>1, <1>2

LEMMA BytesNat == BookOK => queuedBytes \in Nat
  BY WaitingFacts, TotalNat DEF BookOK

LEMMA BytesNatNext == (BookOK => queuedBytes \in Nat)'
  BY BytesNat, PTL

(* What the types say of one frame.                                        *)
LEMMA FrameFacts ==
  ASSUME FramesOK
  PROVE  /\ \A n \in DOMAIN unsent : unsent[n] \in SentFrame /\ unsent[n].id \in Ids
         /\ \A n \in DOMAIN up : up[n] \in Frames /\ up[n].id \in Ids /\ up[n].call \in Calls
         /\ \A n \in DOMAIN down : down[n] \in DownFrame
<1>1. ASSUME NEW n \in DOMAIN unsent PROVE unsent[n] \in SentFrame /\ unsent[n].id \in Ids
  <2>1. unsent[n] \in SentFrame
    BY DEF FramesOK
  <2> QED BY <2>1 DEF SentFrame
<1>2. ASSUME NEW n \in DOMAIN up
      PROVE  up[n] \in Frames /\ up[n].id \in Ids /\ up[n].call \in Calls
  <2>1. up[n] \in Frames
    BY DEF FramesOK
  <2> QED BY <2>1 DEF Frames
<1>3. \A n \in DOMAIN down : down[n] \in DownFrame
  BY DEF FramesOK
<1> QED BY <1>1, <1>2, <1>3

LEMMA LessInAll ==
  ASSUME NEW q \in Nat, NEW r \in Nat, NEW b \in Nat, NEW c \in Nat,
         NEW m \in Nat, q + b <= m, r <= q, c <= b
  PROVE  r + c <= m
  OBVIOUS

LEMMA BufferNat ==
  ASSUME Buffer, FramesOK PROVE buffered \in Nat /\ Len(unsent) \in Nat
<1>1. Len(unsent) \in Nat
  BY DEF FramesOK
<1>2. PICK p \in [0 .. Len(unsent) -> Nat] : p[0] = buffered
  BY DEF Buffer
<1> QED BY <1>1, <1>2

LEMMA BufferNatNext == (Buffer /\ FramesOK => buffered \in Nat)'
<1>1. Buffer /\ FramesOK => buffered \in Nat
  BY BufferNat
<1> QED BY <1>1, PTL

(* Nothing joins, and at most one frame is received.                       *)
LEMMA Quiet ==
  ASSUME ClientInv, BookOK', LessPending, queuedBytes' <= queuedBytes,
         UNCHANGED <<seq, wrapped, buffered, unsent, up>>, ~wrapped => stolen' = stolen,
         down' = down \/ (down # <<>> /\ down' = Tail(down)), initialized => initialized'
  PROVE  Limit' /\ Buffer' /\ FramesOK' /\ Early' /\ Owned'
<1> USE DEF ClientInv
<1>1. Limit'
  <2>1. queuedBytes \in Nat /\ queuedBytes' \in Nat /\ buffered \in Nat /\ buffered' \in Nat
    BY BytesNat, BytesNatNext, BufferNat
  <2>2. /\ queuedBytes + buffered <= MaxBuffered /\ buffered' <= buffered
        /\ queuedBytes' <= queuedBytes /\ MaxBuffered \in Nat
    BY <2>1, ClientFacts DEF Limit
  <2>3. queuedBytes' + buffered' <= MaxBuffered
    BY ONLY <2>1, <2>2, LessInAll
  <2> QED BY <2>3 DEF Limit
<1>2. Buffer'
  BY DEF Buffer
<1>3. down' \in Seq(DownFrame) /\ \A n \in DOMAIN down' : \E k \in DOMAIN down : down'[n] = down[k]
  <2>0. down \in Seq(DownFrame)
    BY DEF FramesOK
  <2>1. CASE down' = down
    BY <2>0, <2>1
  <2>2. CASE down # <<>> /\ down' = Tail(down)
    BY <2>0, <2>2, TailIs
  <2> QED BY <2>1, <2>2
<1>4. \A n \in Responses' : \E k \in Responses : down'[n] = down[k]
  BY <1>3 DEF Responses
<1>5. FramesOK'
  BY <1>3, <1>4 DEF FramesOK
<1>6. Early'
  BY <1>4 DEF Early
<1>7. Owned'
  <2> SUFFICES ASSUME ~wrapped' PROVE
        /\ stolen' = {} /\ \A i \in Waiting(Ids)' : i <= seq'
        /\ \A n \in DOMAIN unsent' : Owns(unsent[n])'
        /\ \A n \in DOMAIN up' : Owns(up[n])'
        /\ \A n \in Responses' : Owns(down[n])'
    BY DEF Owned
  <2>1. stolen' = {} /\ \A i \in Waiting(Ids)' : i <= seq'
    BY DEF Owned, LessPending
  <2>2. ASSUME NEW n \in DOMAIN unsent' PROVE Owns(unsent[n])'
    <3>1. unsent[n].id \in Ids
      BY <2>2, FrameFacts
    <3>2. Owns(unsent[n])
      BY <2>2 DEF Owned
    <3> QED BY <3>1, <3>2, OwnsStill DEF Owns
  <2>3. ASSUME NEW n \in DOMAIN up' PROVE Owns(up[n])'
    <3>1. up[n].id \in Ids
      BY <2>3, FrameFacts
    <3>2. Owns(up[n])
      BY <2>3 DEF Owned
    <3> QED BY <3>1, <3>2, OwnsStill DEF Owns
  <2>4. ASSUME NEW n \in Responses' PROVE Owns(down[n])'
    <3>1. PICK k \in Responses : down'[n] = down[k]
      BY <1>4, <2>4
    <3>2. Owns(down[k]) /\ down[k].id \in Ids
      BY DEF Owned, FramesOK
    <3> QED BY <3>1, <3>2, OwnsStill DEF Owns
  <2> QED BY <2>1, <2>2, <2>3, <2>4
<1> QED BY <1>1, <1>2, <1>5, <1>6, <1>7

LEMMA WalkStill ==
  ASSUME InWalk, LessPending, Unsent' \subseteq Unsent, UNCHANGED <<initialized, flush>>
  PROVE  InWalk'
<1>1. Unsent' \subseteq Waiting(Ids)'
  BY DEF Unsent, Waiting
<1> QED BY <1>1 DEF InWalk, LessPending

LEMMA SameShape ==
  ASSUME BookOK, BookSame
  PROVE  BookOK' /\ LessPending /\ Unsent' \subseteq Unsent /\ queuedBytes' <= queuedBytes
<1>1. queuedBytes' = queuedBytes /\ queuedBytes \in Nat
  BY BytesNat DEF BookSame
<1>2. LessPending
  BY BookSameOK DEF BookSame, LessPending
<1> QED BY <1>1, <1>2, BookSameOK

LEMMA EndsShape ==
  ASSUME BookOK, NEW i \in Ids, NEW how \in Ended, Ends(i, how)
  PROVE  /\ BookOK' /\ LessPending /\ Unsent' \subseteq Unsent /\ queuedBytes' <= queuedBytes
         /\ Waiting(Ids)' \subseteq Waiting(Ids)
<1>1. BookOK' /\ Waiting(Ids)' = Waiting(Ids) \ {i} /\ Unsent' = Unsent \ {i}
  BY EndsOK
<1>2. LessPending
  <2>1. pending' = [pending EXCEPT ![i] = None]
    BY DEF Ends, Settle
  <2>2. \A j \in Waiting(Ids)' : j \in Waiting(Ids) /\ j # i /\ j \in Ids
    BY <1>1 DEF Waiting
  <2> QED BY <2>1, <2>2 DEF LessPending, BookOK
<1>3. queuedBytes' <= queuedBytes
  <2>1. queuedBytes \in Nat /\ pending[i].size \in Nat
    BY BytesNat, WaitingFacts DEF BookOK, Ends
  <2> QED BY <2>1 DEF Ends, Settle, Bytes
<1> QED BY <1>1, <1>2, <1>3

LEMMA FinishShape ==
  ASSUME ClientInv, Finish, UNCHANGED made
  PROVE  /\ BookOK' /\ LessPending /\ Unsent' \subseteq Unsent /\ queuedBytes' <= queuedBytes
         /\ ClosedEmpty' /\ closed' /\ ready' \in {"open", "ok", "failed"} /\ closed' \in BOOLEAN
<1> USE DEF ClientInv
<1>1. CASE closed
  <2>1. BookSame /\ closed' = closed /\ ready' = ready
    BY <1>1 DEF Finish, BookSame
  <2>2. Waiting(Ids)' = Waiting(Ids)
    BY <2>1, BookSameOK
  <2> QED BY <1>1, <2>1, <2>2, SameShape DEF Plain, ClosedEmpty
<1>2. CASE ~closed
  <2>1. AllEnd /\ closed' = TRUE /\ ready' \in {"open", "ok", "failed"}
    BY <1>2 DEF Finish, AllEnd, Plain
  <2>2. BookOK' /\ Waiting(Ids)' = {} /\ Unsent' = {} /\ queuedBytes' = 0
    BY <2>1, AllEndOK
  <2>3. queuedBytes' <= queuedBytes
    BY <2>2, BytesNat
  <2> QED BY <2>1, <2>2, <2>3 DEF ClosedEmpty, LessPending
<1> QED BY <1>1, <1>2

-----------------------------------------------------------------------------
(* One action at a time.                                                   *)
LEMMA FailOK ==
  ASSUME ClientInv, Finish, UNCHANGED <<made, initialized, seq, flush, net, stolen, wrapped, faults>>,
         socket' \in {"connecting", "open", "closing", "closed"}
  PROVE  ClientInv'
<1>1. /\ BookOK' /\ LessPending /\ Unsent' \subseteq Unsent /\ queuedBytes' <= queuedBytes
      /\ ClosedEmpty' /\ ready' \in {"open", "ok", "failed"} /\ closed' \in BOOLEAN
  BY FinishShape
<1>2. Limit' /\ Buffer' /\ FramesOK' /\ Early' /\ Owned'
  BY <1>1, Quiet DEF net
<1>3. InWalk'
  BY <1>1, WalkStill DEF ClientInv
<1>4. Plain'
  BY <1>1 DEF ClientInv, Plain
<1> QED BY <1>1, <1>2, <1>3, <1>4 DEF ClientInv

LEMMA FailsOK ==
  ASSUME ClientInv, Close \/ ConnectTimeout \/ SocketError
  PROVE  ClientInv'
<1>1. /\ Finish /\ UNCHANGED <<made, initialized, seq, flush, net, stolen, wrapped, faults>>
      /\ socket' \in {"connecting", "open", "closing", "closed"}
  BY DEF Close, ConnectTimeout, SocketError, Fail, CloseSocket, ClientInv, Plain
<1> QED BY <1>1, FailOK

LEMMA OpenOK == ASSUME ClientInv, Open PROVE ClientInv'
<1>1. BookSame
  BY DEF Open, book, BookSame
<1>2. /\ BookOK' /\ LessPending /\ Unsent' \subseteq Unsent /\ queuedBytes' <= queuedBytes
      /\ Waiting(Ids)' = Waiting(Ids)
  BY <1>1, SameShape, BookSameOK DEF ClientInv
<1>3. Limit' /\ Buffer' /\ FramesOK' /\ Early' /\ Owned'
  BY <1>2, Quiet DEF Open, book, net
<1>4. InWalk'
  BY <1>2, WalkStill DEF ClientInv, Open
<1>5. Plain' /\ ClosedEmpty'
  BY <1>2 DEF ClientInv, Plain, ClosedEmpty, Open, book
<1> QED BY <1>2, <1>3, <1>4, <1>5 DEF ClientInv

LEMMA TimeoutOK == ASSUME ClientInv, NEW i \in Ids, Timeout(i) PROVE ClientInv'
<1>1. Ends(i, "timeout") /\ "timeout" \in Ended
  BY DEF Timeout, Ends, Waiting, Ended
<1>2. /\ BookOK' /\ LessPending /\ Unsent' \subseteq Unsent /\ queuedBytes' <= queuedBytes
      /\ Waiting(Ids)' \subseteq Waiting(Ids)
  BY <1>1, EndsShape DEF ClientInv
<1>3. Limit' /\ Buffer' /\ FramesOK' /\ Early' /\ Owned'
  BY <1>2, Quiet DEF Timeout, net
<1>4. InWalk'
  BY <1>2, WalkStill DEF ClientInv, Timeout
<1>5. Plain' /\ ClosedEmpty'
  BY <1>2 DEF ClientInv, Plain, ClosedEmpty, Timeout
<1> QED BY <1>2, <1>3, <1>4, <1>5 DEF ClientInv

LEMMA ReadyOK == ASSUME ClientInv, Ready PROVE ClientInv'
<1>1. BookSame /\ down # <<>> /\ down' = Tail(down)
  BY DEF Ready, Message, Receive, book, BookSame
<1>2. /\ BookOK' /\ LessPending /\ Unsent' \subseteq Unsent /\ queuedBytes' <= queuedBytes
      /\ Waiting(Ids)' = Waiting(Ids)
  BY <1>1, SameShape, BookSameOK DEF ClientInv
<1>3. Limit' /\ Buffer' /\ FramesOK' /\ Early' /\ Owned'
  <2>1. initialized => initialized'
    BY DEF Ready
  <2>2. UNCHANGED <<seq, wrapped, stolen, buffered, unsent, up>>
    BY DEF Ready, Receive, book
  <2> QED BY <1>1, <1>2, <2>1, <2>2, Quiet
<1>4. InWalk'
  <2>1. CASE closed \/ initialized
    BY <1>2, <2>1, WalkStill DEF ClientInv, Ready
  <2>2. CASE ~(closed \/ initialized)
    <3>1. initialized' /\ flush' = 0 /\ 0 # None
      BY <2>2, ClientFacts DEF Ready
    <3>2. \A i \in Unsent' : pending'[i].call \in Calls
      <4>1. pending' \in [Ids -> Item \cup {None}]
        BY <1>2 DEF BookOK
      <4>2. \A i \in Unsent : pending[i].call \in Calls
        BY WaitingFacts DEF ClientInv, BookOK
      <4>3. pending' = pending
        BY <1>1 DEF BookSame
      <4> QED BY <1>2, <4>2, <4>3
    <3>3. \A i \in Unsent' : pending'[i].call > 0
      BY <3>2, ClientFacts
    <3> QED BY <3>1, <3>3 DEF InWalk
  <2> QED BY <2>1, <2>2
<1>5. Plain' /\ ClosedEmpty'
  <2>1. flush' \in 0 .. MaxCalls \cup {None}
    BY ClientFacts DEF ClientInv, Plain, Ready
  <2> QED BY <1>2, <2>1 DEF ClientInv, Plain, ClosedEmpty, Ready, book
<1> QED BY <1>2, <1>3, <1>4, <1>5 DEF ClientInv

LEMMA ErrorOK == ASSUME ClientInv, Error PROVE ClientInv'
<1>1. /\ down # <<>> /\ down' = Tail(down) /\ UNCHANGED <<initialized, flush, faults>>
      /\ UNCHANGED <<seq, made, wrapped, stolen, buffered, unsent, up>>
  BY DEF Error, Message, Receive, book
<1>2. /\ BookOK' /\ LessPending /\ Unsent' \subseteq Unsent /\ queuedBytes' <= queuedBytes
      /\ ClosedEmpty' /\ Plain'
  <2>1. CASE closed \/ initialized
    <3>1. BookSame /\ UNCHANGED <<socket, closed, ready>>
      BY <2>1 DEF Error, book, BookSame
    <3> QED BY <1>1, <3>1, SameShape, BookSameOK DEF ClientInv, ClosedEmpty, Plain
  <2>2. CASE ~(closed \/ initialized)
    <3>1. Finish /\ CloseSocket
      BY <2>2 DEF Error
    <3> QED BY <1>1, <3>1, FinishShape DEF CloseSocket, ClientInv, Plain
  <2> QED BY <2>1, <2>2
<1>3. Limit' /\ Buffer' /\ FramesOK' /\ Early' /\ Owned'
  BY <1>1, <1>2, Quiet
<1>4. InWalk'
  BY <1>1, <1>2, WalkStill DEF ClientInv
<1> QED BY <1>2, <1>3, <1>4 DEF ClientInv
LEMMA ResponseOK == ASSUME ClientInv, Response PROVE ClientInv'
<1> DEFINE m == Head(down)
<1>1. /\ down # <<>> /\ m.kind = "response" /\ down' = Tail(down)
      /\ UNCHANGED <<socket, initialized, closed, ready, flush, faults, seq, made, wrapped>>
      /\ UNCHANGED <<buffered, unsent, up>>
  BY DEF Response, Message, Receive, book
<1>2. m.id \in Ids /\ 1 \in Responses /\ m = down[1]
  <2>1. m = down[1] /\ 1 \in DOMAIN down
    BY <1>1, TailIs DEF ClientInv, FramesOK
  <2> QED BY <1>1, <2>1 DEF Responses, ClientInv, FramesOK
<1> HIDE DEF m
<1>3. CASE closed \/ pending[m.id] = None
  <2>1. BookSame /\ stolen' = stolen
    BY <1>1, <1>3 DEF Response, m, book, BookSame
  <2>2. /\ BookOK' /\ LessPending /\ Unsent' \subseteq Unsent /\ queuedBytes' <= queuedBytes
        /\ Waiting(Ids)' = Waiting(Ids)
    BY <2>1, SameShape, BookSameOK DEF ClientInv
  <2>3. Limit' /\ Buffer' /\ FramesOK' /\ Early' /\ Owned'
    BY <1>1, <2>1, <2>2, Quiet
  <2>4. InWalk'
    BY <1>1, <2>2, WalkStill DEF ClientInv
  <2>5. Plain' /\ ClosedEmpty'
    BY <1>1, <2>1, <2>2 DEF ClientInv, Plain, ClosedEmpty
  <2> QED BY <2>2, <2>3, <2>4, <2>5 DEF ClientInv
<1>4. CASE ~(closed \/ pending[m.id] = None)
  <2>1. /\ Settle(m.id, IF m.ok THEN "answered" ELSE "rejected")
        /\ stolen' = IF pending[m.id].call = m.call THEN stolen
                                              ELSE stolen \cup {pending[m.id].call}
    BY <1>4 DEF Response, m
  <2>2. PICK how \in Ended : Ends(m.id, how)
    BY <1>1, <1>2, <1>4, <2>1 DEF Ends, Waiting, Ended
  <2>3. /\ BookOK' /\ LessPending /\ Unsent' \subseteq Unsent /\ queuedBytes' <= queuedBytes
        /\ Waiting(Ids)' \subseteq Waiting(Ids)
    BY <1>2, <2>2, EndsShape DEF ClientInv
  <2>4. ~wrapped => stolen' = stolen
    <3>1. ~wrapped => Owns(m)
      BY <1>2 DEF ClientInv, Owned
    <3> QED BY <1>4, <2>1, <3>1 DEF Owns
  <2>5. Limit' /\ Buffer' /\ FramesOK' /\ Early' /\ Owned'
    BY <1>1, <2>3, <2>4, Quiet
  <2>6. InWalk'
    BY <1>1, <2>3, WalkStill DEF ClientInv
  <2>7. Plain' /\ ClosedEmpty'
    <3>1. pending[m.id].call \in Calls
      BY <1>2, <1>4, WaitingFacts DEF ClientInv, BookOK, Waiting
    <3>2. stolen' \subseteq Calls
      BY <2>1, <3>1 DEF ClientInv, Plain
    <3> QED BY <1>1, <2>3, <3>2 DEF ClientInv, Plain, ClosedEmpty
  <2> QED BY <2>3, <2>5, <2>6, <2>7 DEF ClientInv
<1> QED BY <1>3, <1>4

(* The environment leaves the book alone.                                  *)
LEMMA OutsideOK ==
  ASSUME ClientInv, UNCHANGED <<socket, initialized, closed, ready, flush, book>>,
         faults' \in 0 .. MaxFaults,
         FramesOK', Buffer', buffered' <= buffered, Early',
         ~wrapped => /\ \A n \in DOMAIN unsent' : Owns(unsent'[n])
                     /\ \A n \in DOMAIN up' : Owns(up'[n])
                     /\ \A n \in Responses' : Owns(down'[n])
  PROVE  ClientInv'
<1>1. BookSame
  BY DEF book, BookSame
<1>2. /\ BookOK' /\ LessPending /\ Unsent' \subseteq Unsent /\ queuedBytes' = queuedBytes
      /\ Waiting(Ids)' = Waiting(Ids)
  BY <1>1, SameShape, BookSameOK DEF ClientInv, BookSame
<1>3. Limit'
  <2>1. queuedBytes \in Nat /\ buffered \in Nat /\ buffered' \in Nat /\ MaxBuffered \in Nat
    BY BytesNat, BufferNat, BufferNatNext, ClientFacts DEF ClientInv
  <2>2. queuedBytes + buffered <= MaxBuffered /\ queuedBytes' <= queuedBytes
    BY <1>2, <2>1 DEF ClientInv, Limit
  <2>3. queuedBytes' + buffered' <= MaxBuffered
    BY <1>2, <2>1, <2>2, LessInAll
  <2> QED BY <2>3 DEF Limit
<1>4. InWalk'
  BY <1>2, WalkStill DEF ClientInv
<1>5. Owned'
  BY <1>2 DEF ClientInv, Owned, Owns, book
<1>6. Plain' /\ ClosedEmpty'
  BY <1>2 DEF ClientInv, Plain, ClosedEmpty, book
<1> QED BY <1>2, <1>3, <1>4, <1>5, <1>6 DEF ClientInv

LEMMA TransmitOK == ASSUME ClientInv, Transmit PROVE ClientInv'
<1> DEFINE f == Head(unsent)
           g == [id |-> f.id, call |-> f.call]
<1>1. /\ unsent # <<>> /\ buffered' = buffered - f.size /\ unsent' = Tail(unsent)
      /\ up' = Append(up, g) /\ UNCHANGED <<socket, initialized, closed, ready, flush, book, down, faults>>
  BY DEF Transmit
<1>2. /\ unsent' \in Seq(SentFrame) /\ Len(unsent') = Len(unsent) - 1 /\ Len(unsent) \in Nat \ {0}
      /\ f = unsent[1] /\ f \in SentFrame /\ 1 \in DOMAIN unsent
      /\ \A n \in DOMAIN unsent' : n + 1 \in DOMAIN unsent /\ unsent'[n] = unsent[n + 1]
  <2>1. unsent \in Seq(SentFrame)
    BY DEF ClientInv, FramesOK
  <2> HIDE DEF f
  <2>2. unsent # <<>> /\ unsent' = Tail(unsent) /\ f = Head(unsent)
    BY <1>1 DEF f
  <2> QED BY ONLY <2>1, <2>2, TailIs
<1> HIDE DEF f
<1>3. f.id \in Ids /\ f.call \in Calls /\ f.size \in Nat /\ g \in Frames
  BY <1>2, ClientFacts DEF SentFrame, Frames
<1> HIDE DEF g
<1>4. /\ up' \in Seq(Frames) /\ \A n \in DOMAIN up' : n \in DOMAIN up \/ n = Len(up) + 1
      /\ up'[Len(up) + 1] = g /\ \A n \in DOMAIN up : up'[n] = up[n]
  BY <1>1, <1>3, AppendIs DEF ClientInv, FramesOK
<1>5. FramesOK'
  BY <1>1, <1>2, <1>4 DEF ClientInv, FramesOK, Responses
<1>6. Buffer' /\ buffered' <= buffered
  <2>1. PICK p \in [0 .. Len(unsent) -> Nat] :
          /\ p[0] = buffered /\ p[Len(unsent)] = 0
          /\ \A n \in 1 .. Len(unsent) : p[n - 1] = p[n] + unsent[n].size
    BY DEF ClientInv, Buffer
  <2> DEFINE q == [n \in 0 .. Len(unsent') |-> p[n + 1]]
  <2>2. q \in [0 .. Len(unsent') -> Nat] /\ q[Len(unsent')] = 0
    BY <1>2, <2>1
  <2>3. p[0] = p[1] + f.size /\ p[1] \in Nat /\ p[0] \in Nat
    BY <1>2, <2>1
  <2>4. q[0] = buffered'
    BY <1>1, <1>2, <1>3, <2>1, <2>3
  <2>5. ASSUME NEW n \in 1 .. Len(unsent') PROVE q[n - 1] = q[n] + unsent'[n].size
    <3>1. n + 1 \in 1 .. Len(unsent) /\ n \in Nat \ {0} /\ unsent'[n] = unsent[n + 1]
      BY <1>2, <2>5
    <3>2. p[n] = p[n + 1] + unsent[n + 1].size
      BY <2>1, <3>1
    <3>3. q[n - 1] = p[n] /\ q[n] = p[n + 1]
      BY <2>5, <3>1
    <3> QED BY <3>1, <3>2, <3>3
  <2>6. buffered' <= buffered
    BY <1>1, <1>3, <2>1, <2>3
  <2> HIDE DEF q
  <2>7. Buffer'
    BY <2>2, <2>4, <2>5 DEF Buffer
  <2> QED BY <2>6, <2>7
<1>7. Early'
  BY <1>1, <1>2 DEF ClientInv, Early
<1>8. ~wrapped => /\ \A n \in DOMAIN unsent' : Owns(unsent'[n])
                  /\ \A n \in DOMAIN up' : Owns(up'[n])
                  /\ \A n \in Responses' : Owns(down'[n])
  <2> SUFFICES ASSUME ~wrapped
               PROVE  /\ \A n \in DOMAIN unsent' : Owns(unsent'[n])
                      /\ \A n \in DOMAIN up' : Owns(up'[n])
                      /\ \A n \in Responses' : Owns(down'[n])
    OBVIOUS
  <2>1. /\ \A n \in DOMAIN unsent : Owns(unsent[n])
        /\ \A n \in DOMAIN up : Owns(up[n])
        /\ \A n \in Responses : Owns(down[n])
    BY DEF ClientInv, Owned
  <2>2. Owns(g)
    BY <1>2, <2>1 DEF Owns, g
  <2>3. Responses' = Responses /\ down' = down
    BY <1>1 DEF Responses
  <2> QED BY <1>2, <1>4, <2>1, <2>2, <2>3
<1>9. faults' \in 0 .. MaxFaults
  BY <1>1 DEF ClientInv, Plain
<1> QED BY <1>1, <1>5, <1>6, <1>7, <1>8, <1>9, OutsideOK

LEMMA GreetOK ==
  ASSUME ClientInv, NEW kind \in {"ready", "error"}, Greet(kind) PROVE ClientInv'
<1> DEFINE f == [kind |-> kind, id |-> 0, call |-> 0, ok |-> kind = "ready"]
<1>1. /\ down' = <<f>> /\ ~initialized
      /\ UNCHANGED <<socket, initialized, closed, ready, flush, book, buffered, unsent, up, faults>>
  BY DEF Greet
<1>2. f \in DownFrame /\ f.kind # "response"
  BY ClientFacts DEF DownFrame
<1> HIDE DEF f
<1>3. down' \in Seq(DownFrame) /\ Responses' = {}
  BY <1>1, <1>2 DEF Responses
<1>4. FramesOK' /\ Buffer' /\ Early'
  BY <1>1, <1>3 DEF ClientInv, FramesOK, Buffer, Early
<1>5. buffered' <= buffered
  BY <1>1, BufferNat DEF ClientInv
<1>6. ~wrapped => /\ \A n \in DOMAIN unsent' : Owns(unsent'[n])
                  /\ \A n \in DOMAIN up' : Owns(up'[n])
                  /\ \A n \in Responses' : Owns(down'[n])
  BY <1>1, <1>3 DEF ClientInv, Owned
<1>7. faults' \in 0 .. MaxFaults
  BY <1>1 DEF ClientInv, Plain
<1> QED BY <1>1, <1>4, <1>5, <1>6, <1>7, OutsideOK

LEMMA AnswerOK ==
  ASSUME ClientInv, NEW kind \in {"response", "error"}, NEW ok \in BOOLEAN, Answer(kind, ok),
         faults' \in 0 .. MaxFaults
  PROVE  ClientInv'
<1> DEFINE f == Head(up)
           g == [kind |-> kind, id |-> f.id, call |-> f.call, ok |-> ok]
<1>1. /\ up # <<>> /\ up' = Tail(up) /\ down' = Append(down, g)
      /\ UNCHANGED <<socket, initialized, closed, ready, flush, book, buffered, unsent>>
  BY DEF Answer
<1>2. /\ up' \in Seq(Frames) /\ f = up[1] /\ f \in Frames /\ 1 \in DOMAIN up
      /\ \A n \in DOMAIN up' : n + 1 \in DOMAIN up /\ up'[n] = up[n + 1]
  <2>1. up \in Seq(Frames)
    BY DEF ClientInv, FramesOK
  <2> HIDE DEF f
  <2>2. up # <<>> /\ up' = Tail(up) /\ f = Head(up)
    BY <1>1 DEF f
  <2> QED BY ONLY <2>1, <2>2, TailIs
<1> HIDE DEF f
<1>3. f.id \in Ids /\ f.call \in Calls
  BY <1>2 DEF Frames
<1>4. g \in DownFrame
  BY <1>3 DEF DownFrame, Ids, Calls
<1>5. g.id = f.id /\ g.call = f.call
  OBVIOUS
<1> HIDE DEF g
<1>6. /\ down' \in Seq(DownFrame) /\ \A n \in DOMAIN down' : n \in DOMAIN down \/ n = Len(down) + 1
      /\ down'[Len(down) + 1] = g /\ \A n \in DOMAIN down : down'[n] = down[n]
  BY <1>1, <1>4, AppendIs DEF ClientInv, FramesOK
<1>7. \A n \in Responses' : (n \in Responses /\ down'[n] = down[n]) \/ down'[n] = g
  BY <1>6 DEF Responses
<1>8. FramesOK'
  BY <1>1, <1>2, <1>3, <1>5, <1>6, <1>7 DEF ClientInv, FramesOK
<1>9. Buffer' /\ buffered' <= buffered
  <2>1. buffered \in Nat
    BY BufferNat DEF ClientInv
  <2>2. buffered' <= buffered
    BY <1>1, <2>1
  <2>3. unsent' = unsent /\ buffered' = buffered
    BY <1>1
  <2>4. Buffer'
    BY ONLY ClientInv, <2>3 DEF ClientInv, Buffer
  <2> QED BY <2>2, <2>4
<1>10. Early'
  BY <1>1 DEF ClientInv, Early
<1>11. ~wrapped => /\ \A n \in DOMAIN unsent' : Owns(unsent'[n])
                   /\ \A n \in DOMAIN up' : Owns(up'[n])
                   /\ \A n \in Responses' : Owns(down'[n])
  <2> SUFFICES ASSUME ~wrapped
               PROVE  /\ \A n \in DOMAIN unsent' : Owns(unsent'[n])
                      /\ \A n \in DOMAIN up' : Owns(up'[n])
                      /\ \A n \in Responses' : Owns(down'[n])
    OBVIOUS
  <2>1. /\ \A n \in DOMAIN unsent : Owns(unsent[n])
        /\ \A n \in DOMAIN up : Owns(up[n])
        /\ \A n \in Responses : Owns(down[n])
    BY DEF ClientInv, Owned
  <2>2. Owns(g)
    BY <1>2, <1>5, <2>1 DEF Owns
  <2> QED BY <1>1, <1>2, <1>7, <2>1, <2>2
<1> QED BY <1>1, <1>8, <1>9, <1>10, <1>11, OutsideOK

LEMMA ServeOK == ASSUME ClientInv, Serve PROVE ClientInv'
<1>1. ASSUME NEW ok \in BOOLEAN, Answer("response", ok), UNCHANGED faults PROVE ClientInv'
  <2>1. faults' \in 0 .. MaxFaults
    BY <1>1 DEF ClientInv, Plain
  <2> QED BY <1>1, <2>1, AnswerOK
<1>2. ASSUME faults < MaxFaults, faults' = faults + 1, Answer("error", FALSE) PROVE ClientInv'
  <2>1. faults' \in 0 .. MaxFaults
    BY <1>2, ClientFacts DEF ClientInv, Plain
  <2> QED BY <1>2, <2>1, AnswerOK
<1> QED BY <1>1, <1>2 DEF Serve

LEMMA SocketCloseOK == ASSUME ClientInv, SocketClose PROVE ClientInv'
<1>1. /\ Finish /\ socket' = "closed" /\ buffered' = 0 /\ unsent' = <<>> /\ up' = <<>> /\ down' = <<>>
      /\ UNCHANGED <<initialized, seq, flush, made, stolen, wrapped, faults>>
  BY DEF SocketClose
<1>2. /\ BookOK' /\ LessPending /\ Unsent' \subseteq Unsent /\ queuedBytes' <= queuedBytes
      /\ ClosedEmpty' /\ ready' \in {"open", "ok", "failed"} /\ closed' \in BOOLEAN
  BY <1>1, FinishShape
<1>3. Responses' = {} /\ FramesOK' /\ Early'
  BY <1>1 DEF Responses, FramesOK, Early
<1>4. Buffer'
  <2>1. [n \in {0} |-> 0] \in [0 .. Len(unsent') -> Nat] /\ Len(unsent') = 0
    BY <1>1
  <2> DEFINE p == [n \in {0} |-> 0]
  <2>2. p[0] = 0
    OBVIOUS
  <2>3. p \in [0 .. Len(unsent') -> Nat]
    BY <2>1
  <2> HIDE DEF p
  <2> QED BY <1>1, <2>1, <2>2, <2>3 DEF Buffer
<1>5. Limit'
  <2>1. queuedBytes \in Nat /\ buffered \in Nat /\ queuedBytes' \in Nat /\ MaxBuffered \in Nat
    BY <1>2, BytesNat, BytesNatNext, BufferNat, ClientFacts DEF ClientInv
  <2>2. queuedBytes + buffered <= MaxBuffered /\ buffered' \in Nat /\ buffered' <= buffered
    BY <1>1, <2>1 DEF ClientInv, Limit
  <2>3. queuedBytes' + buffered' <= MaxBuffered
    BY <1>2, <2>1, <2>2, LessInAll
  <2> QED BY <2>3 DEF Limit
<1>6. Owned'
  BY <1>1, <1>2, <1>3 DEF ClientInv, Owned, LessPending
<1>7. InWalk'
  BY <1>1, <1>2, WalkStill DEF ClientInv
<1>8. Plain'
  BY <1>1, <1>2 DEF ClientInv, Plain
<1> QED BY <1>2, <1>3, <1>4, <1>5, <1>6, <1>7, <1>8 DEF ClientInv

(* The next id is one that nobody waits for.                               *)
LEMMA NextIdFree ==
  ASSUME BookOK, Cardinality(Waiting(Ids)) < MaxPending
  PROVE  NextId \in Ids /\ pending[NextId] = None
<1> DEFINE free  == {i \in Ids : pending[i] = None}
           later == {i \in free : i > seq}
<1>1. free # {}
  <2> SUFFICES ASSUME free = {} PROVE FALSE
    OBVIOUS
  <2>1. Waiting(Ids) = 1 .. MaxSeq
    BY DEF Waiting, Ids
  <2>2. Cardinality(1 .. MaxSeq) = MaxSeq
    BY ClientFacts, FS_Interval
  <2> QED BY <2>1, <2>2, ClientFacts
<1>2. ASSUME NEW S \in SUBSET free, S # {} PROVE Min(S) \in S
  <2>1. S \in SUBSET Nat
    BY ClientFacts
  <2>2. \E x \in S : \A y \in S : x <= y
    BY <1>2, <2>1, NatMin
  <2> QED BY <2>2 DEF Min
<1>3. NextId = IF later # {} THEN Min(later) ELSE Min(free)
  BY DEF NextId
<1>4. NextId \in free
  BY <1>1, <1>2, <1>3
<1> QED BY <1>4

LEMMA SumSwaps ==
  ASSUME NEW a \in Nat, NEW b \in Nat, NEW c \in Nat
  PROVE  (a + b) + c = (a + c) + b
  OBVIOUS

LEMMA PushedBuffer ==
  ASSUME Buffer, FramesOK, NEW f \in SentFrame,
         buffered' = buffered + f.size, unsent' = Append(unsent, f)
  PROVE  Buffer'
<1>1. /\ Len(unsent') = Len(unsent) + 1 /\ Len(unsent) \in Nat
      /\ unsent'[Len(unsent) + 1] = f /\ DOMAIN unsent = 1 .. Len(unsent)
      /\ \A n \in DOMAIN unsent : unsent'[n] = unsent[n]
  BY AppendIs DEF FramesOK
<1>2. f.size \in Nat
  BY ClientFacts DEF SentFrame
<1>3. PICK p \in [0 .. Len(unsent) -> Nat] :
        /\ p[0] = buffered /\ p[Len(unsent)] = 0
        /\ \A n \in 1 .. Len(unsent) : p[n - 1] = p[n] + unsent[n].size
  BY DEF Buffer
<1> DEFINE l == Len(unsent)
           q == [n \in 0 .. Len(unsent') |-> IF n = l + 1 THEN 0 ELSE p[n] + f.size]
<1>4. q \in [0 .. Len(unsent') -> Nat]
  <2>1. ASSUME NEW n \in 0 .. Len(unsent'), n # l + 1 PROVE p[n] + f.size \in Nat
    <3>1. n \in 0 .. l
      BY <1>1, <2>1
    <3>2. p[n] \in Nat
      BY ONLY <1>3, <3>1
    <3> QED BY ONLY <1>2, <3>2
  <2> QED BY <2>1
<1>5. q[0] = buffered' /\ q[Len(unsent')] = 0
  <2>1. 0 \in 0 .. Len(unsent') /\ 0 # l + 1 /\ Len(unsent') = l + 1 /\ l + 1 \in 0 .. Len(unsent')
    BY <1>1
  <2> QED BY <1>3, <2>1
<1>6. ASSUME NEW n \in 1 .. Len(unsent') PROVE q[n - 1] = q[n] + unsent'[n].size
  <2>1. CASE n = l + 1
    <3>0. n - 1 = l /\ n - 1 # l + 1 /\ n - 1 \in 0 .. Len(unsent') /\ n \in 0 .. Len(unsent')
      <4>1. Len(unsent') = l + 1 /\ l \in Nat /\ n = l + 1
        BY <1>1, <2>1
      <4> HIDE DEF l
      <4> QED BY ONLY <4>1
    <3>1. q[n] = 0 /\ q[n - 1] = p[l] + f.size /\ p[l] = 0 /\ unsent'[n] = f
      BY <1>1, <1>3, <2>1, <3>0
    <3> QED BY <1>2, <3>1
  <2>2. CASE n # l + 1
    <3>1. n \in 1 .. l /\ n - 1 \in 0 .. l /\ n \in 0 .. l /\ n - 1 # l + 1
      BY <1>1, <1>6, <2>2
    <3>2. q[n] = p[n] + f.size /\ q[n - 1] = p[n - 1] + f.size
      BY <1>1, <1>6, <2>2, <3>1
    <3>3. p[n - 1] = p[n] + unsent[n].size /\ unsent'[n] = unsent[n]
      BY <1>1, <1>3, <3>1
    <3>4. p[n] \in Nat /\ p[n - 1] \in Nat
      BY <1>3, <3>1
    <3>5. unsent[n].size \in Nat
      <4>1. unsent[n] \in SentFrame
        BY <1>1, <3>1, FrameFacts
      <4> QED BY <4>1, ClientFacts DEF SentFrame
    <3>6. (p[n] + unsent[n].size) + f.size = (p[n] + f.size) + unsent[n].size
      BY ONLY <1>2, <3>4, <3>5, SumSwaps
    <3> HIDE DEF q, l
    <3> QED BY ONLY <3>2, <3>3, <3>6
  <2> QED BY <2>1, <2>2
<1> HIDE DEF q
<1> QED BY <1>4, <1>5, <1>6 DEF Buffer

LEMMA PushedFrames ==
  ASSUME FramesOK, NEW f \in SentFrame, unsent' = Append(unsent, f), UNCHANGED <<up, down>>
  PROVE  /\ FramesOK' /\ Responses' = Responses
         /\ \A n \in DOMAIN unsent' : unsent'[n] = f \/ (n \in DOMAIN unsent /\ unsent'[n] = unsent[n])
<1>1. /\ unsent' \in Seq(SentFrame) /\ unsent'[Len(unsent) + 1] = f
      /\ \A n \in DOMAIN unsent : unsent'[n] = unsent[n]
      /\ \A n \in DOMAIN unsent' : n \in DOMAIN unsent \/ n = Len(unsent) + 1
  BY AppendIs DEF FramesOK
<1>2. Responses' = Responses
  BY DEF Responses
<1> QED BY <1>1, <1>2 DEF FramesOK

(* A request that waits is sent by the walk.                               *)
LEMMA GoesRest ==
  ASSUME ClientInv, NEW i \in Ids, Goes(i), NEW f \in SentFrame,
         f.id = i, f.call = pending[i].call, f.size = pending[i].size,
         buffered' = buffered + f.size, unsent' = Append(unsent, f),
         UNCHANGED <<up, down, seq, wrapped, stolen, initialized>>, initialized
  PROVE  /\ BookOK' /\ LessPending /\ Unsent' = Unsent \ {i} /\ Waiting(Ids)' = Waiting(Ids)
         /\ Limit' /\ Buffer' /\ FramesOK' /\ Early' /\ Owned'
<1>1. BookOK' /\ Waiting(Ids)' = Waiting(Ids) /\ Unsent' = Unsent \ {i}
  BY GoesOK DEF ClientInv
<1>2. i \in Waiting(Ids) /\ pending[i] \in Item /\ pending[i] # None
  BY WaitingFacts DEF Goes, ClientInv, BookOK, Unsent, Waiting
<1>3. LessPending
  <2>1. pending'[i].call = pending[i].call /\ \A j \in Ids \ {i} : pending'[j] = pending[j]
    BY <1>2 DEF Goes, ClientInv, BookOK, Item
  <2> QED BY <1>1, <2>1 DEF LessPending, Waiting
<1>4. Limit'
  <2>1. /\ queuedBytes \in Nat /\ queuedBytes' \in Nat /\ buffered \in Nat /\ f.size \in Nat
        /\ MaxBuffered \in Nat
    BY <1>1, BytesNat, BytesNatNext, BufferNat, ClientFacts DEF ClientInv, SentFrame
  <2>2. /\ queuedBytes' = queuedBytes - f.size /\ buffered' = buffered + f.size
        /\ queuedBytes + buffered <= MaxBuffered
    BY DEF Goes, ClientInv, Limit
  <2>3. queuedBytes' + buffered' <= MaxBuffered
    BY ONLY <2>1, <2>2
  <2> QED BY <2>3 DEF Limit
<1>5. Buffer'
  BY PushedBuffer DEF ClientInv
<1>6. /\ FramesOK' /\ Responses' = Responses
      /\ \A n \in DOMAIN unsent' : unsent'[n] = f \/ (n \in DOMAIN unsent /\ unsent'[n] = unsent[n])
  BY PushedFrames DEF ClientInv
<1>7. Early'
  BY DEF Early
<1>8. Owned'
  <2> SUFFICES ASSUME ~wrapped' PROVE
        /\ stolen' = {} /\ \A j \in Waiting(Ids)' : j <= seq'
        /\ \A n \in DOMAIN unsent' : Owns(unsent[n])'
        /\ \A n \in DOMAIN up' : Owns(up[n])'
        /\ \A n \in Responses' : Owns(down[n])'
    BY DEF Owned
  <2>1. /\ stolen = {} /\ \A j \in Waiting(Ids) : j <= seq
        /\ \A n \in DOMAIN unsent : Owns(unsent[n])
        /\ \A n \in DOMAIN up : Owns(up[n])
        /\ \A n \in Responses : Owns(down[n])
    BY DEF ClientInv, Owned
  <2>2. Owns(f) /\ f.id \in Ids
    BY <1>2, <2>1 DEF Owns
  <2>3. ASSUME NEW n \in DOMAIN unsent' PROVE Owns(unsent[n])'
    <3>1. unsent'[n].id \in Ids /\ Owns(unsent'[n])
      BY <1>6, <2>1, <2>2, FrameFacts DEF ClientInv
    <3> QED BY <1>1, <1>3, <3>1, OwnsStill DEF Owns, ClientInv
  <2>4. ASSUME NEW n \in DOMAIN up' PROVE Owns(up[n])'
    <3>1. up[n].id \in Ids /\ Owns(up[n])
      BY <2>1, <2>4, FrameFacts DEF ClientInv
    <3> QED BY <1>1, <1>3, <3>1, OwnsStill DEF Owns, ClientInv
  <2>5. ASSUME NEW n \in Responses' PROVE Owns(down[n])'
    <3>1. down[n].id \in Ids /\ Owns(down[n])
      BY <1>6, <2>1, <2>5 DEF ClientInv, FramesOK
    <3> QED BY <1>1, <1>3, <3>1, OwnsStill DEF Owns, ClientInv
  <2> QED BY <1>1, <2>1, <2>3, <2>4, <2>5
<1> QED BY <1>1, <1>3, <1>4, <1>5, <1>6, <1>7, <1>8

(* What sendPending does to a request of the walk.                         *)
LEMMA SendWaiting ==
  ASSUME BookOK, NEW i \in Unsent, Send(i, pending[i], queuedBytes), UNCHANGED made
  PROVE  \/ Ends(i, "refused") /\ UNCHANGED <<buffered, unsent>>
         \/ /\ Goes(i) /\ buffered' = buffered + pending[i].size
            /\ unsent' = Append(unsent, [id |-> i, call |-> pending[i].call, size |-> pending[i].size])
<1>1. i \in Ids /\ i \in Waiting(Ids) /\ pending[i] \in Item /\ ~pending[i].sent /\ pending[i].call \in Calls
  BY WaitingFacts DEF BookOK, Unsent, Waiting
<1>2. outcome[pending[i].call] = "open"
  BY <1>1 DEF BookOK, OneEach
<1>3. "refused" \in Ended
  BY DEF Ended
<1>4. ASSUME pending' = [pending EXCEPT ![i] = None], queuedBytes' = queuedBytes - pending[i].size,
             outcome' = [outcome EXCEPT ![pending[i].call] = "refused"]
      PROVE  Ends(i, "refused")
  BY <1>1, <1>3, <1>4 DEF Ends, Settle, Bytes
<1>5. ASSUME pending' = [pending EXCEPT ![i] = [pending[i] EXCEPT !.sent = TRUE]],
             queuedBytes' = queuedBytes - pending[i].size,
             outcome' = [outcome EXCEPT ![pending[i].call] = "open"]
      PROVE  Goes(i)
  <2>1. outcome' = outcome
    BY <1>2, <1>5 DEF BookOK
  <2> QED BY <1>5, <2>1 DEF Goes
<1> QED BY <1>4, <1>5 DEF Send

LEMMA VisitOK == ASSUME ClientInv, Visit PROVE ClientInv'
<1> DEFINE next == {i \in Waiting(Ids) : pending[i].call > flush}
<1>1. flush # None /\ UNCHANGED <<socket, initialized, closed, ready>> /\ initialized
  BY DEF Visit, ClientInv, InWalk
<1>2. flush \in Nat
  BY <1>1, ClientFacts DEF ClientInv, Plain
<1>3. Unsent \subseteq next
  BY <1>1, WaitingFacts DEF ClientInv, InWalk, BookOK
<1>4. CASE next = {}
  <2>1. flush' = None /\ UNCHANGED <<book, net, faults>>
    BY <1>4 DEF Visit
  <2>2. BookSame
    BY <2>1 DEF book, BookSame
  <2>3. /\ BookOK' /\ LessPending /\ Unsent' = Unsent /\ queuedBytes' <= queuedBytes
        /\ Waiting(Ids)' = Waiting(Ids)
    BY <2>2, SameShape, BookSameOK DEF ClientInv
  <2>4. Limit' /\ Buffer' /\ FramesOK' /\ Early' /\ Owned'
    BY <1>1, <2>1, <2>3, Quiet DEF book, net
  <2>5. InWalk'
    BY <1>3, <1>4, <2>1, <2>3 DEF InWalk
  <2>6. Plain' /\ ClosedEmpty'
    BY <1>1, <2>1, <2>3 DEF ClientInv, Plain, ClosedEmpty, book
  <2> QED BY <2>3, <2>4, <2>5, <2>6 DEF ClientInv
<1>5. CASE next # {}
  <2>1. PICK i \in next :
          /\ \A j \in next : pending[i].call <= pending[j].call
          /\ flush' = pending[i].call
          /\ IF pending[i].sent THEN UNCHANGED <<book, net, faults>>
             ELSE /\ Send(i, pending[i], queuedBytes)
                  /\ UNCHANGED <<seq, up, down, made, stolen, wrapped>>
    BY <1>5 DEF Visit
  <2>2. /\ i \in Ids /\ i \in Waiting(Ids) /\ pending[i] \in Item /\ pending[i].call \in Calls
        /\ pending[i].size \in Sizes
    BY WaitingFacts DEF ClientInv, BookOK
  <2>3. \A j \in next : j # i => pending[j].call > pending[i].call
    <3> SUFFICES ASSUME NEW j \in next, j # i PROVE pending[j].call > pending[i].call
      OBVIOUS
    <3>1. pending[j].call # pending[i].call /\ pending[j].call \in Calls
      BY <2>2, WaitingFacts DEF ClientInv, BookOK, OneEach
    <3>2. pending[i].call <= pending[j].call
      BY <2>1
    <3>3. pending[j].call \in Nat /\ pending[i].call \in Nat
      BY <2>2, <3>1, ClientFacts
    <3> HIDE DEF next
    <3> QED BY ONLY <3>1, <3>2, <3>3
  <2>4. flush' \in 0 .. MaxCalls \cup {None} /\ flush' # None
    BY <2>1, <2>2, ClientFacts DEF Calls
  <2>5. ASSUME LessPending, Unsent' \subseteq Unsent, i \notin Unsent' PROVE InWalk'
    <3>1. \A j \in Unsent' : pending'[j].call > flush'
      <4>1. \A j \in Unsent' : j \in next /\ j # i
        BY <1>3, <2>5
      <4>2. \A j \in Unsent' : pending'[j].call = pending[j].call
        BY <2>5 DEF LessPending, Unsent, Waiting
      <4> QED BY <2>1, <2>3, <4>1, <4>2
    <3> QED BY <1>1, <2>4, <3>1 DEF InWalk
  <2>6. CASE pending[i].sent
    <3>1. UNCHANGED <<book, net, faults>>
      BY <2>1, <2>6
    <3>2. BookSame
      BY <3>1 DEF book, BookSame
    <3>3. /\ BookOK' /\ LessPending /\ Unsent' = Unsent /\ queuedBytes' <= queuedBytes
          /\ Waiting(Ids)' = Waiting(Ids)
      BY <3>2, SameShape, BookSameOK DEF ClientInv
    <3>4. Limit' /\ Buffer' /\ FramesOK' /\ Early' /\ Owned'
      BY <1>1, <3>1, <3>3, Quiet DEF book, net
    <3>5. InWalk'
      <4>1. i \notin Unsent'
        BY <2>6, <3>3 DEF Unsent
      <4> QED BY <2>5, <3>3, <4>1
    <3>6. Plain' /\ ClosedEmpty'
      BY <1>1, <2>4, <3>1, <3>3 DEF ClientInv, Plain, ClosedEmpty, book
    <3> QED BY <3>3, <3>4, <3>5, <3>6 DEF ClientInv
  <2>7. CASE ~pending[i].sent
    <3>1. Send(i, pending[i], queuedBytes) /\ UNCHANGED <<seq, up, down, made, stolen, wrapped>>
      BY <2>1, <2>7
    <3>2. i \in Unsent
      BY <2>2, <2>7 DEF Unsent
    <3>3. faults' \in 0 .. MaxFaults
      BY <3>1, ClientFacts DEF Send, ClientInv, Plain
    <3>4. \/ Ends(i, "refused") /\ UNCHANGED <<buffered, unsent>>
          \/ /\ Goes(i) /\ buffered' = buffered + pending[i].size
             /\ unsent' = Append(unsent, [id |-> i, call |-> pending[i].call, size |-> pending[i].size])
      BY <3>1, <3>2, SendWaiting DEF ClientInv
    <3>5. /\ BookOK' /\ LessPending /\ Unsent' = Unsent \ {i} /\ Waiting(Ids)' \subseteq Waiting(Ids)
          /\ Limit' /\ Buffer' /\ FramesOK' /\ Early' /\ Owned'
      <4>1. CASE Ends(i, "refused") /\ UNCHANGED <<buffered, unsent>>
        <5>1. "refused" \in Ended
          BY DEF Ended
        <5>2. Unsent' = Unsent \ {i}
          BY <2>2, <4>1, <5>1, EndsOK DEF ClientInv
        <5>3. /\ BookOK' /\ LessPending /\ queuedBytes' <= queuedBytes
              /\ Waiting(Ids)' \subseteq Waiting(Ids)
          BY <2>2, <4>1, <5>1, EndsShape DEF ClientInv
        <5> QED BY <1>1, <3>1, <4>1, <5>2, <5>3, Quiet
      <4>2. CASE /\ Goes(i) /\ buffered' = buffered + pending[i].size
                 /\ unsent' = Append(unsent, [id |-> i, call |-> pending[i].call, size |-> pending[i].size])
        <5> DEFINE f == [id |-> i, call |-> pending[i].call, size |-> pending[i].size]
        <5>1. f \in SentFrame /\ f.id = i /\ f.call = pending[i].call /\ f.size = pending[i].size
          BY <2>2 DEF SentFrame
        <5>2. buffered' = buffered + f.size /\ unsent' = Append(unsent, f)
          BY <4>2
        <5> HIDE DEF f
        <5>3. UNCHANGED <<up, down, seq, wrapped, stolen, initialized>>
          BY <1>1, <3>1
        <5>4. /\ BookOK' /\ LessPending /\ Unsent' = Unsent \ {i} /\ Waiting(Ids)' = Waiting(Ids)
              /\ Limit' /\ Buffer' /\ FramesOK' /\ Early' /\ Owned'
          BY ONLY ClientInv, <1>1, <2>2, <4>2, <5>1, <5>2, <5>3, GoesRest
        <5> QED BY <5>4
      <4> QED BY <3>4, <4>1, <4>2
    <3>6. InWalk'
      BY <2>5, <3>5
    <3>7. Plain' /\ ClosedEmpty'
      BY <1>1, <2>4, <3>1, <3>3, <3>5 DEF ClientInv, Plain, ClosedEmpty
    <3> QED BY <3>5, <3>6, <3>7 DEF ClientInv
  <2> QED BY <2>6, <2>7
<1> QED BY <1>4, <1>5

(* A call that is admitted joins under the next id.                        *)
LEMMA JoinsRest ==
  ASSUME ClientInv, NEW item \in Item, Joins(NextId, item), Cardinality(Waiting(Ids)) < MaxPending,
         UNCHANGED <<up, down, stolen, initialized, closed, flush>>, ~closed,
         seq' = NextId, wrapped' = (wrapped \/ NextId <= seq),
         item.sent => initialized, ~item.sent => ~initialized, flush # 0,
         FramesOK', Buffer', Limit',
         \A n \in DOMAIN unsent' :
           \/ n \in DOMAIN unsent /\ unsent'[n] = unsent[n]
           \/ unsent'[n].id = NextId /\ unsent'[n].call = item.call /\ item.sent,
         ~item.sent => unsent' = unsent
  PROVE  BookOK' /\ InWalk' /\ Early' /\ Owned' /\ ClosedEmpty'
<1> DEFINE i == NextId
<1>1. i \in Ids /\ pending[i] = None
  BY NextIdFree DEF ClientInv
<1> HIDE DEF i
<1>2. /\ BookOK' /\ Waiting(Ids)' = Waiting(Ids) \cup {i}
      /\ Unsent' = IF item.sent THEN Unsent ELSE Unsent \cup {i}
      /\ pending'[i] = item /\ \A j \in Ids \ {i} : pending'[j] = pending[j]
  <2>1. Joins(i, item) /\ BookOK
    BY DEF i, ClientInv
  <2> QED BY <1>1, <2>1, JoinsOK
<1>3. InWalk'
  <2>1. CASE initialized
    <3>1. item.sent /\ Unsent' = Unsent
      BY <1>2, <2>1
    <3>2. \A j \in Unsent : pending'[j] = pending[j]
      BY <1>1, <1>2 DEF Unsent, Waiting
    <3> QED BY <2>1, <3>1, <3>2 DEF InWalk, ClientInv
  <2>2. CASE ~initialized
    BY <2>2 DEF InWalk, ClientInv
  <2> QED BY <2>1, <2>2
<1>4. Early'
  BY DEF Early, ClientInv, Responses
<1>5. ClosedEmpty'
  BY DEF ClosedEmpty
<1>6. Owned'
  <2> SUFFICES ASSUME ~wrapped' PROVE
        /\ stolen' = {} /\ \A j \in Waiting(Ids)' : j <= seq'
        /\ \A n \in DOMAIN unsent' : Owns(unsent[n])'
        /\ \A n \in DOMAIN up' : Owns(up[n])'
        /\ \A n \in Responses' : Owns(down[n])'
    BY DEF Owned
  <2>1. ~wrapped /\ ~(i <= seq) /\ seq \in Nat /\ i \in Nat /\ seq' = i
    <3>1. seq \in Nat /\ i \in Nat /\ seq' = i
      BY <1>1, ClientFacts DEF i, ClientInv, Plain
    <3>2. wrapped' = (wrapped \/ i <= seq)
      BY DEF i
    <3> QED BY <3>1, <3>2
  <2>2. /\ stolen = {} /\ \A j \in Waiting(Ids) : j <= seq
        /\ \A n \in DOMAIN unsent : Owns(unsent[n])
        /\ \A n \in DOMAIN up : Owns(up[n])
        /\ \A n \in Responses : Owns(down[n])
    BY <2>1 DEF ClientInv, Owned
  <2>3. ASSUME NEW f, f.id \in Ids, Owns(f)
        PROVE  f.id <= seq' /\ (pending'[f.id] = None \/ pending'[f.id].call = f.call)
    <3>1. f.id # i /\ f.id \in Nat /\ f.id <= seq
      BY <2>1, <2>3, ClientFacts DEF Owns
    <3>2. f.id <= seq'
      BY <2>1, <3>1
    <3> QED BY <1>2, <2>3, <3>1, <3>2 DEF Owns
  <2>4. \A j \in Waiting(Ids)' : j <= seq'
    <3>1. \A j \in Waiting(Ids) : j \in Nat /\ j <= seq
      BY <2>2, ClientFacts DEF Waiting
    <3> QED BY <1>2, <2>1, <3>1
  <2>5. ASSUME NEW n \in DOMAIN unsent' PROVE Owns(unsent[n])'
    <3>1. CASE n \in DOMAIN unsent /\ unsent'[n] = unsent[n]
      <4>1. Owns(unsent'[n]) /\ unsent'[n].id \in Ids
        BY <2>2, <3>1, FrameFacts DEF ClientInv
      <4> QED BY <2>3, <4>1 DEF Owns
    <3>2. CASE unsent'[n].id = NextId /\ unsent'[n].call = item.call
      <4>1. unsent'[n].id = i /\ unsent'[n].call = item.call
        BY <3>2 DEF i
      <4> QED BY <1>2, <2>1, <4>1 DEF Owns
    <3> QED BY <3>1, <3>2
  <2>6. ASSUME NEW n \in DOMAIN up' PROVE Owns(up[n])'
    <3>1. Owns(up[n]) /\ up[n].id \in Ids
      BY <2>2, <2>6, FrameFacts DEF ClientInv
    <3> QED BY <2>3, <3>1 DEF Owns
  <2>7. ASSUME NEW n \in Responses' PROVE Owns(down[n])'
    <3>0. n \in Responses
      BY <2>7 DEF Responses
    <3>1. Owns(down[n]) /\ down[n].id \in Ids
      BY <2>2, <3>0 DEF ClientInv, FramesOK
    <3> QED BY <2>3, <3>1 DEF Owns
  <2> QED BY <2>2, <2>4, <2>5, <2>6, <2>7
<1> QED BY <1>2, <1>3, <1>4, <1>5, <1>6

LEMMA RefusedInv ==
  ASSUME ClientInv, Refused, UNCHANGED <<socket, initialized, closed, ready, flush, stolen, net, faults>>
                             \/ (UNCHANGED <<socket, initialized, closed, ready, flush, stolen, net>>
                                 /\ faults' \in 0 .. MaxFaults),
         \/ UNCHANGED <<seq, wrapped>>
         \/ /\ Cardinality(Waiting(Ids)) < MaxPending
            /\ seq' = NextId /\ wrapped' = (wrapped \/ NextId <= seq)
  PROVE  ClientInv'
<1>1. /\ BookOK' /\ Waiting(Ids)' = Waiting(Ids) /\ Unsent' = Unsent
      /\ pending' = pending /\ queuedBytes' = queuedBytes
  BY RefusedOK DEF Refused, ClientInv
<1>2. Limit' /\ Buffer' /\ FramesOK' /\ Early'
  BY <1>1 DEF ClientInv, Limit, Buffer, FramesOK, Early, Responses, net
<1>3. InWalk' /\ ClosedEmpty'
  BY <1>1 DEF ClientInv, InWalk, ClosedEmpty
<1>4. seq' \in 0 .. MaxSeq /\ wrapped' \in BOOLEAN /\ (~wrapped' => ~wrapped /\ seq <= seq' /\ seq' \in Nat /\ seq \in Nat)
  <2>1. CASE UNCHANGED <<seq, wrapped>>
    BY <2>1, ClientFacts DEF ClientInv, Plain
  <2>2. CASE /\ Cardinality(Waiting(Ids)) < MaxPending
             /\ seq' = NextId /\ wrapped' = (wrapped \/ NextId <= seq)
    <3>1. NextId \in Ids
      BY <2>2, NextIdFree DEF ClientInv
    <3>2. seq' \in 1 .. MaxSeq /\ wrapped \in BOOLEAN /\ seq \in 0 .. MaxSeq
      BY <2>2, <3>1 DEF Ids, ClientInv, Plain
    <3>3. wrapped' \in BOOLEAN /\ (~wrapped' => ~wrapped /\ ~(seq' <= seq))
      BY <2>2
    <3> QED BY <3>2, <3>3, ClientFacts
  <2> QED BY <2>1, <2>2
<1>5. Plain'
  BY <1>4 DEF ClientInv, Plain
<1>6. Owned'
  <2> SUFFICES ASSUME ~wrapped' PROVE
        /\ stolen' = {} /\ \A j \in Waiting(Ids)' : j <= seq'
        /\ \A n \in DOMAIN unsent' : Owns(unsent[n])'
        /\ \A n \in DOMAIN up' : Owns(up[n])'
        /\ \A n \in Responses' : Owns(down[n])'
    BY DEF Owned
  <2>0. ~wrapped /\ seq <= seq' /\ seq' \in Nat /\ seq \in Nat
    BY <1>4
  <2>1. /\ stolen = {} /\ \A j \in Waiting(Ids) : j <= seq
        /\ \A n \in DOMAIN unsent : Owns(unsent[n])
        /\ \A n \in DOMAIN up : Owns(up[n])
        /\ \A n \in Responses : Owns(down[n])
    BY <2>0 DEF ClientInv, Owned
  <2>2. ASSUME NEW f, f.id \in Ids, Owns(f)
        PROVE  f.id <= seq' /\ (pending'[f.id] = None \/ pending'[f.id].call = f.call)
    <3>1. f.id \in Nat /\ f.id <= seq
      BY <2>2, ClientFacts DEF Owns
    <3>2. f.id <= seq'
      BY ONLY <2>0, <3>1
    <3> QED BY <1>1, <2>2, <3>2 DEF Owns
  <2>3. \A j \in Waiting(Ids)' : j <= seq'
    BY <1>1, <2>0, <2>1, ClientFacts DEF Waiting
  <2>4. ASSUME NEW n \in DOMAIN unsent' PROVE Owns(unsent[n])'
    <3>1. unsent' = unsent
      BY DEF net
    <3>2. Owns(unsent[n]) /\ unsent[n].id \in Ids
      BY <2>1, <2>4, <3>1, FrameFacts DEF ClientInv
    <3> QED BY <2>2, <3>1, <3>2 DEF Owns
  <2>5. ASSUME NEW n \in DOMAIN up' PROVE Owns(up[n])'
    <3>1. up' = up
      BY DEF net
    <3>2. Owns(up[n]) /\ up[n].id \in Ids
      BY <2>1, <2>5, <3>1, FrameFacts DEF ClientInv
    <3> QED BY <2>2, <3>1, <3>2 DEF Owns
  <2>6. ASSUME NEW n \in Responses' PROVE Owns(down[n])'
    <3>1. down' = down /\ n \in Responses
      BY <2>6 DEF net, Responses
    <3>2. Owns(down[n]) /\ down[n].id \in Ids
      BY <2>1, <3>1 DEF ClientInv, FramesOK
    <3> QED BY <2>2, <3>1, <3>2 DEF Owns
  <2> QED BY <2>1, <2>3, <2>4, <2>5, <2>6
<1> QED BY <1>1, <1>2, <1>3, <1>5, <1>6 DEF ClientInv

(* What call does: it refuses, sends at once or lets the request wait.     *)
CallShape(size) ==
  \/ /\ Refused /\ UNCHANGED <<buffered, unsent>>
     /\ \/ UNCHANGED <<seq, wrapped>>
        \/ Cardinality(Waiting(Ids)) < MaxPending /\ seq' = NextId /\ wrapped' = (wrapped \/ NextId <= seq)
  \/ /\ Cardinality(Waiting(Ids)) < MaxPending /\ ~closed
     /\ seq' = NextId /\ wrapped' = (wrapped \/ NextId <= seq)
     /\ \/ /\ initialized /\ Joins(NextId, [call |-> made + 1, size |-> size, sent |-> TRUE])
           /\ buffered + size <= MaxBuffered
           /\ queuedBytes + buffered + size <= MaxBuffered
           /\ buffered' = buffered + size
           /\ unsent' = Append(unsent, [id |-> NextId, call |-> made + 1, size |-> size])
        \/ /\ ~initialized /\ Joins(NextId, [call |-> made + 1, size |-> size, sent |-> FALSE])
           /\ queuedBytes + buffered + size <= MaxBuffered
           /\ UNCHANGED <<buffered, unsent>>

LEMMA ItemSent ==
  ASSUME NEW c, NEW s
  PROVE  [[call |-> c, size |-> s, sent |-> FALSE] EXCEPT !.sent = TRUE]
           = [call |-> c, size |-> s, sent |-> TRUE]
<1> DEFINE a == [call |-> c, size |-> s, sent |-> FALSE]
           b == [a EXCEPT !.sent = TRUE]
           d == [call |-> c, size |-> s, sent |-> TRUE]
           FR == [call : {c}, size : {s}, sent : BOOLEAN]
<1>1. a \in FR /\ a.call = c /\ a.size = s
  OBVIOUS
<1>2. b \in FR /\ b.call = c /\ b.size = s /\ b.sent = TRUE
  <2> HIDE DEF a
  <2> QED BY <1>1
<1>3. d \in FR /\ d.call = c /\ d.size = s /\ d.sent = TRUE
  OBVIOUS
<1> HIDE DEF b, d
<1>4. b = d
  BY <1>2, <1>3
<1> QED BY <1>4 DEF a, b, d

LEMMA SendIs ==
  ASSUME NEW i, NEW item, NEW q, Send(i, item, q)
  PROVE  \/ /\ pending' = [pending EXCEPT ![i] = None]
            /\ queuedBytes' = q - item.size
            /\ outcome' = [outcome EXCEPT ![item.call] = "refused"]
            /\ UNCHANGED <<buffered, unsent>>
         \/ /\ buffered + item.size <= MaxBuffered
            /\ pending' = [pending EXCEPT ![i] = [item EXCEPT !.sent = TRUE]]
            /\ queuedBytes' = q - item.size
            /\ buffered' = buffered + item.size
            /\ unsent' = Append(unsent, [id |-> i, call |-> item.call, size |-> item.size])
            /\ outcome' = [outcome EXCEPT ![item.call] = "open"]
<1> USE DEF Send
<1>1. CASE /\ pending' = [pending EXCEPT ![i] = None]
           /\ outcome' = [outcome EXCEPT ![item.call] = "refused"]
           /\ UNCHANGED <<buffered, unsent>>
  <2>1. queuedBytes' = q - item.size
    OBVIOUS
  <2> QED BY ONLY <1>1, <2>1
<1>2. CASE ~(/\ pending' = [pending EXCEPT ![i] = None]
             /\ outcome' = [outcome EXCEPT ![item.call] = "refused"]
             /\ UNCHANGED <<buffered, unsent>>)
  <2>1. buffered + item.size <= MaxBuffered
    BY <1>2
  <2>2. /\ pending' = [pending EXCEPT ![i] = [item EXCEPT !.sent = TRUE]]
        /\ buffered' = buffered + item.size
    BY <1>2, Zenon
  <2>3. /\ queuedBytes' = q - item.size
        /\ outcome' = [outcome EXCEPT ![item.call] = "open"]
    BY <1>2, Zenon
  <2>4. unsent' = Append(unsent, [id |-> i, call |-> item.call, size |-> item.size])
    BY <1>2, Zenon
  <2> QED BY ONLY <2>1, <2>2, <2>3, <2>4
<1> QED BY ONLY <1>1, <1>2

LEMMA CallShapeOK ==
  ASSUME ClientInv, NEW size \in Sizes, Call(size)
  PROVE  /\ CallShape(size) /\ faults' \in 0 .. MaxFaults /\ flush # 0
         /\ made + 1 \in Calls
         /\ UNCHANGED <<socket, initialized, closed, ready, flush, up, down, stolen>>
<1> DEFINE item == [call |-> made + 1, size |-> size, sent |-> FALSE]
<1>1. /\ made < MaxCalls /\ flush # 0 /\ made' = made + 1
      /\ UNCHANGED <<socket, initialized, closed, ready, flush, up, down, stolen>>
  BY DEF Call
<1>2. made + 1 \in Calls /\ size \in Nat /\ queuedBytes \in Nat /\ buffered \in Nat
  BY <1>1, ClientFacts, BytesNat, BufferNat DEF ClientInv, BookOK, Calls
<1>3. ASSUME Refuse PROVE Refused /\ UNCHANGED <<buffered, unsent, faults>>
  BY <1>1, <1>2, <1>3 DEF Refuse, Refused
<1>4. Cardinality(Waiting(Ids)) \in Nat /\ MaxPending \in Nat
  BY WaitingFacts, FS_CardinalityType, ClientFacts DEF ClientInv, BookOK
<1>5. CASE closed \/ Cardinality(Waiting(Ids)) >= MaxPending
  <2>1. Refuse /\ UNCHANGED <<seq, wrapped>>
    BY <1>5 DEF Call
  <2>2. faults' \in 0 .. MaxFaults
    BY <1>3, <2>1 DEF ClientInv, Plain
  <2> QED BY <1>1, <1>2, <1>3, <2>1, <2>2 DEF CallShape
<1>6. CASE ~(closed \/ Cardinality(Waiting(Ids)) >= MaxPending)
  <2>1. ~closed /\ Cardinality(Waiting(Ids)) < MaxPending
    BY <1>4, <1>6
  <2>2. NextId \in Ids /\ pending[NextId] = None
    BY <2>1, NextIdFree DEF ClientInv
  <2>3. /\ seq' = NextId /\ wrapped' = (wrapped \/ NextId <= seq)
        /\ \/ /\ queuedBytes + buffered + size > MaxBuffered
              /\ Refuse
           \/ /\ queuedBytes + buffered + size <= MaxBuffered
              /\ initialized
              /\ Send(NextId, item, queuedBytes + size)
           \/ /\ queuedBytes + buffered + size <= MaxBuffered
              /\ ~initialized
              /\ pending' = [pending EXCEPT ![NextId] = item]
              /\ queuedBytes' = queuedBytes + size
              /\ outcome' = [outcome EXCEPT ![made + 1] = "open"]
              /\ UNCHANGED <<buffered, unsent, faults>>
    BY <1>6 DEF Call
  <2>4. CASE Refuse
    <3>1. faults' \in 0 .. MaxFaults
      BY <1>3, <2>4 DEF ClientInv, Plain
    <3> QED BY <1>1, <1>2, <1>3, <2>1, <2>3, <2>4, <3>1 DEF CallShape
  <2>5. CASE /\ queuedBytes + buffered + size <= MaxBuffered
             /\ ~initialized
             /\ pending' = [pending EXCEPT ![NextId] = item]
             /\ queuedBytes' = queuedBytes + size
             /\ outcome' = [outcome EXCEPT ![made + 1] = "open"]
             /\ UNCHANGED <<buffered, unsent, faults>>
    <3>1. item \in Item
      BY <1>2 DEF Item
    <3>2. item.call = made + 1 /\ item.size = size /\ item.sent = FALSE
      OBVIOUS
    <3> HIDE DEF item
    <3>3. Joins(NextId, item)
      BY <1>1, <2>1, <2>2, <2>5, <3>1, <3>2 DEF Joins
    <3>4. faults' \in 0 .. MaxFaults
      BY <2>5 DEF ClientInv, Plain
    <3>5. CallShape(size)
      BY <2>1, <2>3, <2>5, <3>3 DEF CallShape, item
    <3> QED BY <1>1, <1>2, <3>4, <3>5
  <2>6. CASE /\ queuedBytes + buffered + size <= MaxBuffered
             /\ initialized /\ Send(NextId, item, queuedBytes + size)
    <3>1. item.call = made + 1 /\ item.size = size /\ item.sent = FALSE
      OBVIOUS
    <3>3. [pending EXCEPT ![NextId] = None] = pending
      BY <2>2 DEF ClientInv, BookOK
    <3>4. faults' \in 0 .. MaxFaults
      BY <2>6, ClientFacts DEF Send, ClientInv, Plain
    <3> DEFINE out == [call |-> made + 1, size |-> size, sent |-> TRUE]
    <3>5. [item EXCEPT !.sent = TRUE] = out
      BY ItemSent
    <3>6. out \in Item /\ out.call = made + 1 /\ out.size = size /\ out.sent = TRUE
      BY <1>2 DEF Item
    <3> HIDE DEF item, out
    <3> DEFINE i == NextId
               q == queuedBytes + size
    <3>7. Send(i, item, q)
      BY <2>6
    <3>11. i = NextId /\ q - item.size = queuedBytes
      <4>1. i = NextId
        OBVIOUS
      <4>2. q - item.size = queuedBytes
        BY <1>2, <3>1
      <4> QED BY ONLY <4>1, <4>2
    <3> HIDE DEF i, q
    <3>8. \/ /\ pending' = [pending EXCEPT ![i] = None]
             /\ queuedBytes' = q - item.size
             /\ outcome' = [outcome EXCEPT ![item.call] = "refused"]
             /\ UNCHANGED <<buffered, unsent>>
          \/ /\ buffered + item.size <= MaxBuffered
             /\ pending' = [pending EXCEPT ![i] = [item EXCEPT !.sent = TRUE]]
             /\ queuedBytes' = q - item.size
             /\ buffered' = buffered + item.size
             /\ unsent' = Append(unsent, [id |-> i, call |-> item.call, size |-> item.size])
             /\ outcome' = [outcome EXCEPT ![item.call] = "open"]
      BY ONLY <3>7, SendIs, Zenon
    <3>9. CASE /\ pending' = [pending EXCEPT ![i] = None]
               /\ queuedBytes' = q - item.size
               /\ outcome' = [outcome EXCEPT ![item.call] = "refused"]
               /\ UNCHANGED <<buffered, unsent>>
      <4>1. Refused
        BY <1>1, <1>2, <3>1, <3>3, <3>9, <3>11 DEF Refused
      <4> QED BY <1>1, <1>2, <2>1, <2>3, <3>4, <3>9, <4>1 DEF CallShape
    <3>10. CASE /\ buffered + item.size <= MaxBuffered
                /\ pending' = [pending EXCEPT ![i] = [item EXCEPT !.sent = TRUE]]
                /\ queuedBytes' = q - item.size
                /\ buffered' = buffered + item.size
                /\ unsent' = Append(unsent, [id |-> i, call |-> item.call, size |-> item.size])
                /\ outcome' = [outcome EXCEPT ![item.call] = "open"]
      <4>1. Joins(NextId, out)
        BY <1>1, <2>1, <2>2, <3>1, <3>5, <3>6, <3>10, <3>11 DEF Joins
      <4>2. /\ buffered + size <= MaxBuffered /\ buffered' = buffered + size
            /\ unsent' = Append(unsent, [id |-> NextId, call |-> made + 1, size |-> size])
        BY <3>1, <3>10, <3>11
      <4>3. CallShape(size)
        BY <2>1, <2>3, <2>6, <4>1, <4>2 DEF CallShape, out
      <4> QED BY <1>1, <1>2, <3>4, <4>3
    <3> QED BY <3>8, <3>9, <3>10
  <2> QED BY <2>3, <2>4, <2>5, <2>6
<1> QED BY <1>5, <1>6

LEMMA CallOK == ASSUME ClientInv, NEW size \in Sizes, Call(size) PROVE ClientInv'
<1>1. /\ CallShape(size) /\ faults' \in 0 .. MaxFaults /\ flush # 0 /\ made + 1 \in Calls
      /\ UNCHANGED <<socket, initialized, closed, ready, flush, up, down, stolen>>
  BY CallShapeOK
<1>2. size \in Nat /\ queuedBytes \in Nat /\ buffered \in Nat
  BY ClientFacts, BytesNat, BufferNat DEF ClientInv
<1>3. CASE /\ Refused /\ UNCHANGED <<buffered, unsent>>
           /\ \/ UNCHANGED <<seq, wrapped>>
              \/ /\ Cardinality(Waiting(Ids)) < MaxPending
                 /\ seq' = NextId /\ wrapped' = (wrapped \/ NextId <= seq)
  BY <1>1, <1>3, RefusedInv DEF net
<1>4. CASE /\ Cardinality(Waiting(Ids)) < MaxPending /\ ~closed
           /\ seq' = NextId /\ wrapped' = (wrapped \/ NextId <= seq)
           /\ initialized /\ Joins(NextId, [call |-> made + 1, size |-> size, sent |-> TRUE])
           /\ queuedBytes + buffered + size <= MaxBuffered
           /\ buffered' = buffered + size
           /\ unsent' = Append(unsent, [id |-> NextId, call |-> made + 1, size |-> size])
  <2> DEFINE item == [call |-> made + 1, size |-> size, sent |-> TRUE]
             f    == [id |-> NextId, call |-> made + 1, size |-> size]
  <2>1. item \in Item /\ item.call = made + 1 /\ item.size = size /\ item.sent
    BY <1>1 DEF Item
  <2>2. NextId \in Ids
    BY <1>4, NextIdFree DEF ClientInv
  <2>3. f \in SentFrame /\ f.id = NextId /\ f.call = made + 1 /\ f.size = size
    BY <1>1, <2>2 DEF SentFrame
  <2>4. Joins(NextId, item) /\ buffered' = buffered + f.size /\ unsent' = Append(unsent, f)
    BY <1>4
  <2> HIDE DEF item, f
  <2>5. Buffer'
    BY <2>3, <2>4, PushedBuffer DEF ClientInv
  <2>6. /\ FramesOK'
        /\ \A n \in DOMAIN unsent' : unsent'[n] = f \/ (n \in DOMAIN unsent /\ unsent'[n] = unsent[n])
    BY <1>1, <2>3, <2>4, PushedFrames DEF ClientInv
  <2>7. Limit'
    <3>1. queuedBytes' = queuedBytes /\ buffered' = buffered + size
      BY <1>4, <2>1, <2>4 DEF Joins
    <3>2. queuedBytes' + buffered' <= MaxBuffered
      BY <1>2, <1>4, <3>1, ClientFacts
    <3> QED BY <3>2 DEF Limit
  <2>8. \A n \in DOMAIN unsent' :
           \/ n \in DOMAIN unsent /\ unsent'[n] = unsent[n]
           \/ unsent'[n].id = NextId /\ unsent'[n].call = item.call /\ item.sent
    BY <2>1, <2>3, <2>6
  <2>9. BookOK' /\ InWalk' /\ Early' /\ Owned' /\ ClosedEmpty'
    BY ONLY ClientInv, <1>1, <1>4, <2>1, <2>4, <2>5, <2>6, <2>7, <2>8, JoinsRest
  <2>10. Plain'
    <3>1. seq' \in 0 .. MaxSeq
      BY <1>4, <2>2 DEF Ids
    <3> QED BY <1>1, <1>4, <3>1 DEF ClientInv, Plain
  <2> QED BY <2>5, <2>6, <2>7, <2>9, <2>10 DEF ClientInv
<1>5. CASE /\ Cardinality(Waiting(Ids)) < MaxPending /\ ~closed
           /\ seq' = NextId /\ wrapped' = (wrapped \/ NextId <= seq)
           /\ ~initialized /\ Joins(NextId, [call |-> made + 1, size |-> size, sent |-> FALSE])
           /\ queuedBytes + buffered + size <= MaxBuffered
           /\ UNCHANGED <<buffered, unsent>>
  <2> DEFINE item == [call |-> made + 1, size |-> size, sent |-> FALSE]
  <2>1. item \in Item /\ item.call = made + 1 /\ item.size = size /\ ~item.sent
    BY <1>1 DEF Item
  <2>2. NextId \in Ids
    BY <1>5, NextIdFree DEF ClientInv
  <2>4. Joins(NextId, item)
    BY <1>5
  <2> HIDE DEF item
  <2>5. Buffer' /\ FramesOK'
    BY <1>1, <1>5 DEF ClientInv, Buffer, FramesOK, Responses
  <2>7. Limit'
    <3>1. queuedBytes' = queuedBytes + size /\ buffered' = buffered
      BY <1>5, <2>1, <2>4 DEF Joins
    <3>2. queuedBytes' + buffered' <= MaxBuffered
      BY <1>2, <1>5, <3>1, ClientFacts
    <3> QED BY <3>2 DEF Limit
  <2>8. \A n \in DOMAIN unsent' : n \in DOMAIN unsent /\ unsent'[n] = unsent[n]
    BY <1>5
  <2>9. BookOK' /\ InWalk' /\ Early' /\ Owned' /\ ClosedEmpty'
    BY ONLY ClientInv, <1>1, <1>5, <2>1, <2>4, <2>5, <2>7, <2>8, JoinsRest
  <2>10. Plain'
    <3>1. seq' \in 0 .. MaxSeq
      BY <1>5, <2>2 DEF Ids
    <3> QED BY <1>1, <1>5, <3>1 DEF ClientInv, Plain
  <2> QED BY <2>5, <2>7, <2>9, <2>10 DEF ClientInv
<1> QED BY <1>1, <1>3, <1>4, <1>5 DEF CallShape

LEMMA ClientInitOK == ClientInit => ClientInv
<1> SUFFICES ASSUME ClientInit PROVE ClientInv
  OBVIOUS
<1> USE DEF ClientInit
<1>1. Waiting(Ids) = {} /\ Unsent = {}
  BY DEF Waiting, Unsent
<1>2. Total(pending, {}) = 0 /\ Cardinality({}) = 0
  BY FS_EmptySet, TotalStep
<1>3. BookOK
  <2>1. pending \in [Ids -> Item \cup {None}] /\ outcome \in [Calls -> Outcomes]
    BY DEF Outcomes
  <2>2. made \in 0 .. MaxCalls /\ 0 <= MaxPending
    BY ClientFacts
  <2> QED BY <1>1, <1>2, <2>1, <2>2 DEF BookOK, OneEach, Numbered
<1>4. Plain
  <2>1. flush \in 0 .. MaxCalls \cup {None} /\ seq \in 0 .. MaxSeq /\ faults \in 0 .. MaxFaults
    BY ClientFacts
  <2>2. {initialized, closed, wrapped} \subseteq BOOLEAN /\ stolen \subseteq Calls
    OBVIOUS
  <2> QED BY <2>1, <2>2 DEF Plain
<1>5. FramesOK /\ Responses = {}
  BY DEF FramesOK, Responses
<1>6. Buffer
  <2> DEFINE p == [n \in {0} |-> 0]
  <2>1. p[0] = 0 /\ Len(unsent) = 0
    OBVIOUS
  <2>2. p \in [0 .. Len(unsent) -> Nat]
    BY <2>1
  <2> HIDE DEF p
  <2> QED BY <2>1, <2>2 DEF Buffer
<1>7. Limit
  BY ClientFacts DEF Limit
<1> QED
  BY <1>1, <1>3, <1>4, <1>5, <1>6, <1>7 DEF ClientInv, InWalk, Early, Owned, ClosedEmpty

LEMMA ClientInvNext == ClientInv /\ [ClientNext]_clientVars => ClientInv'
<1> SUFFICES ASSUME ClientInv, [ClientNext]_clientVars PROVE ClientInv'
  OBVIOUS
<1>1. CASE UNCHANGED clientVars
  <2>1. UNCHANGED <<socket, initialized, closed, ready, flush, book, faults>> /\ UNCHANGED net
    BY <1>1 DEF clientVars
  <2>2. UNCHANGED <<buffered, unsent, up, down>>
    BY <2>1 DEF net
  <2>3. FramesOK' /\ Buffer' /\ Early'
    BY <2>1, <2>2 DEF ClientInv, FramesOK, Buffer, Early, Responses
  <2>4. buffered' <= buffered
    BY <2>2, BufferNat DEF ClientInv
  <2>5. faults' \in 0 .. MaxFaults
    BY <2>1 DEF ClientInv, Plain
  <2>6. ~wrapped => /\ \A n \in DOMAIN unsent' : Owns(unsent'[n])
                    /\ \A n \in DOMAIN up' : Owns(up'[n])
                    /\ \A n \in Responses' : Owns(down'[n])
    BY <2>2 DEF ClientInv, Owned, Responses
  <2> QED BY <2>1, <2>3, <2>4, <2>5, <2>6, OutsideOK
<1>2. CASE ClientNext
  <2>1. CASE \E size \in Sizes : Call(size)
    BY <2>1, CallOK
  <2>2. CASE Close \/ ConnectTimeout \/ SocketError
    BY <2>2, FailsOK
  <2>3. CASE Open
    BY <2>3, OpenOK
  <2>4. CASE Ready
    BY <2>4, ReadyOK
  <2>5. CASE Response
    BY <2>5, ResponseOK
  <2>6. CASE Error
    BY <2>6, ErrorOK
  <2>7. CASE Deadline
    BY <2>7, TimeoutOK DEF Deadline
  <2>8. CASE SocketClose
    BY <2>8, SocketCloseOK
  <2>9. CASE Visit
    BY <2>9, VisitOK
  <2>10. CASE Transmit
    BY <2>10, TransmitOK
  <2>11. CASE Serve
    BY <2>11, ServeOK
  <2>12. CASE \E kind \in {"ready", "error"} : Greet(kind)
    BY <2>12, GreetOK
  <2> QED
    BY ONLY <1>2, <2>1, <2>2, <2>3, <2>4, <2>5, <2>6, <2>7, <2>8, <2>9, <2>10, <2>11, <2>12
       DEF ClientNext, Events
<1> QED BY <1>1, <1>2

LEMMA ClientInvSafe == ClientInv => ClientSafe
<1> SUFFICES ASSUME ClientInv PROVE ClientSafe
  OBVIOUS
<1>1. queuedBytes \in Nat /\ buffered \in Nat
  BY BytesNat, BufferNat DEF ClientInv
<1>2. ClientTypeOK
  BY <1>1 DEF ClientInv, BookOK, Plain, FramesOK, ClientTypeOK, Item, SentFrame, DownFrame
<1>3. BytesExact
  BY BytesTotal DEF ClientInv, BookOK, Limit, BytesExact
<1>4. NothingStuck
  BY DEF ClientInv, InWalk, NothingStuck, Idle
<1>5. OpenCalls
  BY DEF ClientInv, BookOK, OneEach, ClosedEmpty, OpenCalls
<1>6. OwnAnswer
  BY DEF ClientInv, Owned, OwnAnswer
<1> QED BY <1>2, <1>3, <1>4, <1>5, <1>6 DEF ClientSafe

(* The book of the socket client agrees with its requests at all times:    *)
(* bytes are counted once and given back once, nobody is left unsent after *)
(* the walk, the open calls are those that wait, and no answer settles the *)
(* call of another (client.js: call, sendPending, settle, finish).         *)
THEOREM ClientIsSafe == ClientSpec => []ClientSafe
<1>1. ClientInit /\ [][ClientNext]_clientVars => []ClientInv
  BY ClientInitOK, ClientInvNext, PTL
<1> QED BY <1>1, ClientInvSafe, PTL DEF ClientSpec

(* What a step appends to the buffer is the frame of an open call or of    *)
(* the one that begins.                                                    *)
LEMMA PushedCall ==
  ASSUME ClientInv, [ClientNext]_clientVars, NEW c \in Calls, ~InBuffer(c), InBuffer(c)'
  PROVE  outcome[c] \in {"none", "open"}
<1>0. PICK n \in DOMAIN unsent' : unsent'[n].call = c
  BY DEF InBuffer
<1>1. ASSUME UNCHANGED unsent PROVE FALSE
  BY <1>1 DEF InBuffer
<1>2. ASSUME NEW f \in SentFrame, unsent' = Append(unsent, f) PROVE f.call = c
  <2>1. unsent'[n] = f \/ (n \in DOMAIN unsent /\ unsent'[n] = unsent[n])
    BY <1>0, <1>2, AppendIs DEF ClientInv, FramesOK
  <2> QED BY <1>0, <2>1 DEF InBuffer
<1>3. ASSUME NEW size \in Sizes, Call(size) PROVE outcome[c] \in {"none", "open"}
  <2>1. CallShape(size) /\ made + 1 \in Calls
    BY <1>3, CallShapeOK
  <2>2. /\ unsent' = Append(unsent, [id |-> NextId, call |-> made + 1, size |-> size])
        /\ Cardinality(Waiting(Ids)) < MaxPending
    BY <1>1, <2>1 DEF CallShape
  <2>3. NextId \in Ids
    BY <2>2, NextIdFree DEF ClientInv
  <2> DEFINE f == [id |-> NextId, call |-> made + 1, size |-> size]
  <2>4. f \in SentFrame /\ f.call = made + 1
    BY <2>1, <2>3 DEF SentFrame
  <2> HIDE DEF f
  <2>5. c = made + 1
    BY <1>2, <2>2, <2>4 DEF f
  <2>6. c > made
    BY <2>1, <2>5, ClientFacts DEF ClientInv, BookOK
  <2> QED BY <2>6 DEF ClientInv, BookOK, Numbered
<1>4. ASSUME Visit PROVE outcome[c] \in {"none", "open"}
  <2>1. PICK i \in Waiting(Ids) :
          IF pending[i].sent THEN UNCHANGED <<book, net, faults>>
          ELSE /\ Send(i, pending[i], queuedBytes)
               /\ UNCHANGED <<seq, up, down, made, stolen, wrapped>>
    <3>1. UNCHANGED unsent \/ {i \in Waiting(Ids) : pending[i].call > flush} # {}
      BY <1>4 DEF Visit, net
    <3> QED BY <1>1, <1>4, <3>1 DEF Visit
  <2>2. ~pending[i].sent
    BY <1>1, <2>1 DEF net
  <2>3. i \in Unsent /\ i \in Ids
    BY <2>2, WaitingFacts DEF ClientInv, BookOK
  <2>4. Goes(i) /\ unsent' = Append(unsent, [id |-> i, call |-> pending[i].call, size |-> pending[i].size])
    <3>1. Send(i, pending[i], queuedBytes) /\ UNCHANGED made
      BY <2>1, <2>2
    <3> QED BY <1>1, <2>3, <3>1, SendWaiting DEF ClientInv
  <2> DEFINE f == [id |-> i, call |-> pending[i].call, size |-> pending[i].size]
  <2>5. /\ f \in SentFrame /\ f.call = pending[i].call
    BY <2>3, WaitingFacts DEF SentFrame, ClientInv, BookOK
  <2> HIDE DEF f
  <2>6. c = pending[i].call
    BY <1>2, <2>4, <2>5 DEF f
  <2> QED BY <2>3, <2>6, WaitingFacts DEF ClientInv, BookOK, OneEach
<1>5. ASSUME unsent' = <<>> PROVE FALSE
  BY <1>0, <1>5
<1>6. ASSUME Transmit PROVE FALSE
  <2>1. unsent # <<>> /\ unsent' = Tail(unsent) /\ unsent \in Seq(SentFrame)
    BY <1>6 DEF Transmit, ClientInv, FramesOK
  <2>2. n + 1 \in DOMAIN unsent /\ unsent'[n] = unsent[n + 1]
    BY <1>0, <2>1, TailIs
  <2> QED BY <1>0, <2>2 DEF InBuffer
<1>7. ASSUME [ClientNext]_clientVars, ~(\E size \in Sizes : Call(size)), ~Visit, ~Transmit
      PROVE  UNCHANGED unsent \/ unsent' = <<>>
  BY <1>7
     DEF ClientNext, clientVars, net, Close, Open, Events, Ready, Response, Error, Receive,
         Deadline, Timeout, ConnectTimeout, SocketError, SocketClose, Fail, Serve, Answer, Greet
<1> QED BY <1>1, <1>3, <1>4, <1>5, <1>6, <1>7

(* A call that has been answered, has timed out or been refused is not     *)
(* sent afterwards (client.js: the walk after "ready" and sendPending).    *)
THEOREM NothingIsSentLate == ClientSpec => NoLateSend
<1> DEFINE Late == \A c \in Calls : ~InBuffer(c) /\ InBuffer(c)' => outcome[c] \in {"none", "open"}
<1>1. ClientInit /\ [][ClientNext]_clientVars => []ClientInv
  BY ClientInitOK, ClientInvNext, PTL
<1>2. ClientInv /\ [ClientNext]_clientVars => [Late]_clientVars
  BY PushedCall
<1>3. NoLateSend <=> [][Late]_clientVars
  BY DEF NoLateSend
<1> HIDE DEF Late
<1> QED BY <1>1, <1>2, <1>3, PTL DEF ClientSpec

-----------------------------------------------------------------------------
(***************************************************************************)
(* The client implements ClientPromise, step by step.                      *)
(***************************************************************************)
Life == IF closed THEN "over" ELSE IF initialized THEN "ready" ELSE "connecting"
Word(o) == CASE o = "none"     -> "none"
             [] o = "open"     -> "asked"
             [] o = "answered" -> "kept"
             [] OTHER          -> "broken"
Words == [c \in Calls |-> Word(outcome[c])]

LEMMA WordOf ==
  /\ Word("none") = "none" /\ Word("open") = "asked" /\ Word("answered") = "kept"
  /\ \A o \in Ended \ {"answered"} : Word(o) = "broken"
  /\ \A o : Word(o) = "asked" <=> o = "open"
  BY DEF Word, Ended

LEMMA WordsOne ==
  ASSUME outcome \in [Calls -> Outcomes], NEW c \in Calls, NEW o,
         outcome' = [outcome EXCEPT ![c] = o]
  PROVE  Words' = [Words EXCEPT ![c] = Word(o)] /\ Words[c] = Word(outcome[c])
<1>1. \A b \in Calls : outcome'[b] = IF b = c THEN o ELSE outcome[b]
  OBVIOUS
<1> QED BY <1>1 DEF Words

PromiseStep == Promise!PromiseNext \/ UNCHANGED Promise!promiseVars

(* How the promise's actions look in the client's variables.               *)
LEMMA EstablishStep ==
  ASSUME Life = "connecting", Life' = "ready", Words' = Words PROVE PromiseStep
<1>1. Promise!Establish
  BY Zenon DEF Promise!Establish, Life, Words, Word
<1> QED BY <1>1 DEF PromiseStep, Promise!PromiseNext

LEMMA OverStep ==
  ASSUME Life # "over", Life' = "over",
         Words' = [c \in Calls |-> IF Words[c] = "asked" THEN "broken" ELSE Words[c]]
  PROVE  PromiseStep
<1>1. Promise!Over
  BY Zenon DEF Promise!Over, Life, Words, Word
<1> QED BY <1>1 DEF PromiseStep, Promise!PromiseNext

LEMMA AskedStep ==
  ASSUME NEW c \in Calls, Life # "over", Words[c] = "none",
         Words' = [Words EXCEPT ![c] = "asked"], Life' = Life
  PROVE  PromiseStep
<1>1. Promise!Asked(c)
  BY Zenon DEF Promise!Asked, Life, Words, Word
<1> QED BY <1>1 DEF PromiseStep, Promise!PromiseNext

LEMMA DeclinedStep ==
  ASSUME NEW c \in Calls, Words[c] = "none",
         Words' = [Words EXCEPT ![c] = "broken"], Life' = Life
  PROVE  PromiseStep
<1>1. Promise!Declined(c)
  BY Zenon DEF Promise!Declined, Life, Words, Word
<1> QED BY <1>1 DEF PromiseStep, Promise!PromiseNext

LEMMA KeptStep ==
  ASSUME NEW c \in Calls, Life = "ready", Words[c] = "asked",
         Words' = [Words EXCEPT ![c] = "kept"], Life' = Life
  PROVE  PromiseStep
<1>1. Promise!Kept(c)
  BY Zenon DEF Promise!Kept, Life, Words, Word
<1> QED BY <1>1 DEF PromiseStep, Promise!PromiseNext

LEMMA BrokenStep ==
  ASSUME NEW c \in Calls, Words[c] = "asked",
         Words' = [Words EXCEPT ![c] = "broken"], Life' = Life
  PROVE  PromiseStep
<1>1. Promise!Broken(c)
  BY Zenon DEF Promise!Broken, Life, Words, Word
<1> QED BY <1>1 DEF PromiseStep, Promise!PromiseNext

LEMMA StillStep == ASSUME Life' = Life, Words' = Words PROVE PromiseStep
<1>1. UNCHANGED Promise!promiseVars
  BY Zenon DEF Promise!promiseVars, Life, Words, Word
<1> QED BY <1>1 DEF PromiseStep

LEMMA SameMaps ==
  ASSUME UNCHANGED <<closed, initialized, outcome>> PROVE PromiseStep
<1>1. Life' = Life /\ Words' = Words
  BY DEF Life, Words
<1> QED BY <1>1, StillStep

LEMMA EndsMaps ==
  ASSUME ClientInv, NEW i \in Ids, NEW how \in Ended, Ends(i, how), UNCHANGED <<closed, initialized>>,
         how = "answered" => initialized
  PROVE  PromiseStep
<1> DEFINE c == pending[i].call
<1>1. c \in Calls /\ outcome[c] = "open" /\ outcome' = [outcome EXCEPT ![c] = how]
  BY WaitingFacts DEF Ends, Settle, ClientInv, BookOK, OneEach
<1>2. ~closed
  BY DEF ClientInv, ClosedEmpty, Ends
<1> HIDE DEF c
<1>3. Life' = Life
  BY DEF Life
<1>4. Words' = [Words EXCEPT ![c] = Word(how)] /\ Words[c] = "asked"
  BY <1>1, WordsOne, WordOf DEF ClientInv, BookOK
<1>5. CASE how = "answered"
  <2>1. Life = "ready"
    BY <1>2, <1>5 DEF Life
  <2>2. Word(how) = "kept"
    BY <1>5, WordOf
  <2> QED BY <1>1, <1>3, <1>4, <2>1, <2>2, KeptStep
<1>6. CASE how # "answered"
  <2>1. Word(how) = "broken"
    BY <1>6, WordOf
  <2> QED BY <1>1, <1>3, <1>4, <2>1, BrokenStep
<1> QED BY <1>5, <1>6

LEMMA FinishMaps ==
  ASSUME ClientInv, Finish, UNCHANGED initialized PROVE PromiseStep
<1>1. CASE closed
  <2>1. UNCHANGED <<closed, outcome>>
    BY <1>1 DEF Finish
  <2> QED BY <2>1, SameMaps
<1>2. CASE ~closed
  <2>1. closed' /\ outcome' = [c \in Calls |-> IF outcome[c] = "open" THEN "closed" ELSE outcome[c]]
    BY <1>2 DEF Finish
  <2>2. Life # "over" /\ Life' = "over"
    BY <1>2, <2>1 DEF Life
  <2>3. Word("closed") = "broken"
    BY WordOf DEF Ended
  <2>4. ASSUME NEW c \in Calls
        PROVE  Word(outcome'[c]) = IF Words[c] = "asked" THEN "broken" ELSE Words[c]
    <3>1. Words[c] = Word(outcome[c]) /\ (Words[c] = "asked" <=> outcome[c] = "open")
      BY WordOf DEF Words
    <3>2. outcome'[c] = IF outcome[c] = "open" THEN "closed" ELSE outcome[c]
      BY <2>1
    <3> QED BY <2>3, <3>1, <3>2
  <2>5. Words' = [c \in Calls |-> IF Words[c] = "asked" THEN "broken" ELSE Words[c]]
    <3>1. Words' = [c \in Calls |-> Word(outcome'[c])]
      BY Zenon DEF Words, Word
    <3> QED BY <2>4, <3>1
  <2> QED BY <2>2, <2>5, OverStep
<1> QED BY <1>1, <1>2

LEMMA CallMaps ==
  ASSUME ClientInv, NEW size \in Sizes, Call(size) PROVE PromiseStep
<1> DEFINE c == made + 1
<1>1. CallShape(size) /\ c \in Calls /\ UNCHANGED <<initialized, closed>>
  BY CallShapeOK
<1>2. outcome[c] = "none"
  BY <1>1, ClientFacts DEF ClientInv, BookOK, Numbered
<1>3. Life' = Life
  BY <1>1 DEF Life
<1>4. \/ outcome' = [outcome EXCEPT ![c] = "refused"]
      \/ ~closed /\ outcome' = [outcome EXCEPT ![c] = "open"]
  BY <1>1 DEF CallShape, Refused, Joins
<1> HIDE DEF c
<1>5. Words[c] = "none" /\ outcome \in [Calls -> Outcomes]
  BY <1>1, <1>2, WordOf DEF Words, ClientInv, BookOK
<1>6. CASE outcome' = [outcome EXCEPT ![c] = "refused"]
  <2>1. Words' = [Words EXCEPT ![c] = Word("refused")] /\ Word("refused") = "broken"
    BY <1>1, <1>5, <1>6, WordsOne, WordOf DEF Ended
  <2> QED BY <1>1, <1>3, <1>5, <2>1, DeclinedStep
<1>7. CASE ~closed /\ outcome' = [outcome EXCEPT ![c] = "open"]
  <2>1. Words' = [Words EXCEPT ![c] = Word("open")] /\ Word("open") = "asked"
    BY <1>1, <1>5, <1>7, WordsOne, WordOf
  <2>2. Life # "over"
    BY <1>7 DEF Life
  <2> QED BY <1>1, <1>3, <1>5, <2>1, <2>2, AskedStep
<1> QED BY <1>4, <1>6, <1>7

LEMMA VisitMaps == ASSUME ClientInv, Visit PROVE PromiseStep
<1>1. UNCHANGED <<closed, initialized>>
  BY DEF Visit
<1>2. CASE UNCHANGED outcome
  BY <1>1, <1>2, SameMaps
<1>3. CASE outcome' # outcome
  <2>1. {i \in Waiting(Ids) : pending[i].call > flush} # {}
    BY <1>3 DEF Visit, book
  <2>2. PICK i \in Waiting(Ids) :
          IF pending[i].sent THEN UNCHANGED <<book, net, faults>>
          ELSE /\ Send(i, pending[i], queuedBytes)
               /\ UNCHANGED <<seq, up, down, made, stolen, wrapped>>
    BY <2>1 DEF Visit
  <2>3. ~pending[i].sent
    BY <1>3, <2>2 DEF book
  <2>4. i \in Unsent /\ i \in Ids
    BY <2>3, WaitingFacts DEF ClientInv, BookOK
  <2>5. Send(i, pending[i], queuedBytes) /\ UNCHANGED made
    BY <2>2, <2>3
  <2>6. Ends(i, "refused") \/ Goes(i)
    BY <2>4, <2>5, SendWaiting DEF ClientInv
  <2>7. Ends(i, "refused") /\ "refused" \in Ended
    BY <1>3, <2>6 DEF Goes, Ended
  <2> QED BY <1>1, <2>4, <2>7, EndsMaps
<1> QED BY <1>2, <1>3

LEMMA ResponseMaps == ASSUME ClientInv, Response PROVE PromiseStep
<1> DEFINE m == Head(down)
<1>1. /\ down # <<>> /\ m.kind = "response"
      /\ UNCHANGED <<initialized, closed>> /\ (UNCHANGED outcome \/
           (pending[m.id] # None /\ Settle(m.id, IF m.ok THEN "answered" ELSE "rejected") /\ UNCHANGED made))
  BY DEF Response, Message, book
<1>2. m.id \in Ids /\ Responses # {}
  <2>1. m = down[1] /\ 1 \in DOMAIN down
    BY <1>1, TailIs DEF ClientInv, FramesOK
  <2> QED BY <1>1, <2>1 DEF Responses, ClientInv, FramesOK
<1>3. initialized
  BY <1>2 DEF ClientInv, Early
<1> HIDE DEF m
<1>4. CASE UNCHANGED outcome
  BY <1>1, <1>4, SameMaps
<1>5. CASE pending[m.id] # None /\ Settle(m.id, IF m.ok THEN "answered" ELSE "rejected") /\ UNCHANGED made
  <2>1. PICK how \in Ended : Ends(m.id, how)
    BY <1>2, <1>5 DEF Ends, Waiting, Ended
  <2> QED BY <1>1, <1>2, <1>3, <2>1, EndsMaps
<1> QED BY <1>1, <1>4, <1>5

LEMMA ClientMaps == ClientInv /\ [ClientNext]_clientVars => PromiseStep
<1> SUFFICES ASSUME ClientInv, [ClientNext]_clientVars PROVE PromiseStep
  OBVIOUS
<1>1. CASE UNCHANGED clientVars
  BY <1>1, SameMaps DEF clientVars, book
<1>2. CASE ClientNext
  <2>1. CASE \E size \in Sizes : Call(size)
    BY <2>1, CallMaps
  <2>2. CASE Close \/ ConnectTimeout \/ SocketError \/ SocketClose
    BY <2>2, FinishMaps DEF Close, ConnectTimeout, SocketError, SocketClose, Fail
  <2>3. CASE Open \/ Transmit \/ Serve \/ \E kind \in {"ready", "error"} : Greet(kind)
    BY <2>3, SameMaps DEF Open, Transmit, Serve, Greet, Answer, book
  <2>4. CASE Ready
    <3>1. CASE closed \/ initialized
      BY <2>4, <3>1, SameMaps DEF Ready, book
    <3>2. CASE ~(closed \/ initialized)
      <4>1. Life = "connecting" /\ Life' = "ready" /\ Words' = Words
        BY <2>4, <3>2 DEF Ready, book, Life, Words
      <4> QED BY <4>1, EstablishStep
    <3> QED BY <3>1, <3>2
  <2>5. CASE Response
    BY <2>5, ResponseMaps
  <2>6. CASE Error
    <3>1. UNCHANGED initialized /\ (Finish \/ UNCHANGED <<closed, outcome>>)
      BY <2>6 DEF Error, book
    <3> QED BY <3>1, FinishMaps, SameMaps
  <2>7. CASE Deadline
    <3>1. PICK i \in Ids : Timeout(i)
      BY <2>7 DEF Deadline
    <3>2. Ends(i, "timeout") /\ "timeout" \in Ended /\ UNCHANGED <<closed, initialized>>
      BY <3>1 DEF Timeout, Ends, Waiting, Ended
    <3> QED BY <3>2, EndsMaps
  <2>8. CASE Visit
    BY <2>8, VisitMaps
  <2> QED
    BY ONLY <1>2, <2>1, <2>2, <2>3, <2>4, <2>5, <2>6, <2>7, <2>8 DEF ClientNext, Events
<1> QED BY <1>1, <1>2

(* Seen from the page, the client is ClientPromise: a session is awaited,  *)
(* there, then over, and every call is declined, or asked and then kept or *)
(* broken, once (client.js; the liveness of KeepsPromise is not part of    *)
(* the theorem).                                                           *)
THEOREM ClientImplementsPromise ==
  ClientSpec => Promise!PromiseInit /\ [][Promise!PromiseNext]_(Promise!promiseVars)
<1>1. ClientInit /\ [][ClientNext]_clientVars => []ClientInv
  BY ClientInitOK, ClientInvNext, PTL
<1>2. ClientInit => Promise!PromiseInit
  BY DEF ClientInit, Promise!PromiseInit
<1>3. ClientInv /\ [ClientNext]_clientVars => [Promise!PromiseNext]_(Promise!promiseVars)
  BY ClientMaps DEF PromiseStep
<1> QED BY <1>1, <1>2, <1>3, PTL DEF ClientSpec

-----------------------------------------------------------------------------

-----------------------------------------------------------------------------
(***************************************************************************)
(* Sequences: the least index that passes a test, and one element less.    *)
(***************************************************************************)
LEMMA LeastOne == ASSUME NEW p \in Nat, NEW I, I = {p} PROVE I # {} /\ Min(I) = p
  BY DEF Min

LEMMA RemoveNone == ASSUME NEW S, NEW s \in Seq(S) PROVE RemoveAt(s, 0) = s
<1>1. SubSeq(s, 1, 0 - 1) = <<>>
  <2>1. 0 - 1 \in Int /\ 0 - 1 < 1
    OBVIOUS
  <2> QED BY <2>1, SubSeqEmpty
<1>2. SubSeq(s, 0 + 1, Len(s)) = s
  <2>1. 0 + 1 = 1
    OBVIOUS
  <2> QED BY <2>1, SubSeqFull
<1>3. <<>> \o s = s
  BY ConcatEmptySeq
<1> QED BY <1>1, <1>2, <1>3 DEF RemoveAt

LEMMA RemoveOne ==
  ASSUME NEW S, NEW s \in Seq(S), NEW d \in DOMAIN s
  PROVE  /\ RemoveAt(s, d) \in Seq(S) /\ Len(RemoveAt(s, d)) = Len(s) - 1
         /\ DOMAIN RemoveAt(s, d) = 1 .. Len(s) - 1
         /\ \A i \in 1 .. Len(s) - 1 : RemoveAt(s, d)[i] = IF i < d THEN s[i] ELSE s[i + 1]
<1> DEFINE r == RemoveAt(s, d)
           a == SubSeq(s, 1, d - 1)
           b == SubSeq(s, d + 1, Len(s))
<1>1. Len(s) \in Nat /\ DOMAIN s = 1 .. Len(s) /\ d \in Nat /\ 1 <= d /\ d <= Len(s)
  OBVIOUS
<1>2. a \in Seq(S) /\ Len(a) = d - 1 /\ \A i \in 1 .. d - 1 : a[i] = s[i]
  BY <1>1
<1>3. b \in Seq(S) /\ Len(b) = Len(s) - d /\ \A i \in 1 .. Len(s) - d : b[i] = s[i + d]
  <2>1. d + 1 \in Int /\ Len(s) \in Int /\ \A i \in d + 1 .. Len(s) : s[i] \in S
    BY <1>1
  <2>2. /\ b \in Seq(S)
        /\ Len(b) = IF d + 1 <= Len(s) THEN Len(s) - (d + 1) + 1 ELSE 0
        /\ \A i \in 1 .. Len(s) - (d + 1) + 1 : b[i] = s[d + 1 + i - 1]
    BY ONLY <2>1, SubSeqProperties
  <2> HIDE DEF b
  <2>3. Len(s) - (d + 1) + 1 = Len(s) - d /\ (d + 1 > Len(s) => Len(s) - d = 0)
    BY ONLY <1>1
  <2>4. ASSUME NEW i \in 1 .. Len(s) - d PROVE b[i] = s[i + d]
    <3>1. d + 1 + i - 1 = i + d
      BY ONLY <1>1, i \in 1 .. Len(s) - d
    <3> QED BY ONLY <2>2, <2>3, <3>1, i \in 1 .. Len(s) - d
  <2> QED BY ONLY <1>1, <2>2, <2>3, <2>4
<1>4. r = a \o b
  BY DEF RemoveAt
<1> HIDE DEF a, b, r
<1>5. /\ r \in Seq(S) /\ Len(r) = Len(a) + Len(b)
      /\ \A i \in 1 .. Len(a) + Len(b) : r[i] = IF i <= Len(a) THEN a[i] ELSE b[i - Len(a)]
  <2>1. a \in Seq(S) /\ b \in Seq(S)
    BY <1>2, <1>3
  <2> QED BY ONLY <1>4, <2>1, ConcatProperties
<1>6. Len(a) + Len(b) = Len(s) - 1
  BY <1>1, <1>2, <1>3
<1>7. Len(r) = Len(s) - 1 /\ DOMAIN r = 1 .. Len(s) - 1
  BY <1>5, <1>6
<1>8. ASSUME NEW i \in 1 .. Len(s) - 1 PROVE r[i] = IF i < d THEN s[i] ELSE s[i + 1]
  <2>0. r[i] = IF i <= d - 1 THEN a[i] ELSE b[i - (d - 1)]
    BY <1>2, <1>5, <1>6
  <2>1. CASE i < d
    <3>1. i <= d - 1 /\ i \in 1 .. d - 1
      BY <1>1, <2>1
    <3> QED BY <1>2, <2>0, <2>1, <3>1
  <2>2. CASE ~(i < d)
    <3>1. i - (d - 1) \in 1 .. Len(s) - d /\ (i - (d - 1)) + d = i + 1 /\ ~(i <= d - 1)
      BY <1>1, <2>2
    <3> QED BY <1>3, <2>0, <2>2, <3>1
  <2> QED BY <2>1, <2>2
<1> QED BY <1>5, <1>7, <1>8 DEF r

(* A list of different elements, what is in it, and how it changes.        *)
Once(s) == \A i, j \in DOMAIN s : s[i] = s[j] => i = j
In(s)   == {s[i] : i \in DOMAIN s}

Swaps(s, i, e, t) ==
  DOMAIN t = DOMAIN s /\ t[i] = e /\ \A j \in DOMAIN s : j # i => t[j] = s[j]

LEMMA OnceSwapped ==
  ASSUME NEW s, Once(s), NEW i \in DOMAIN s, NEW e, e \notin In(s), NEW t, Swaps(s, i, e, t)
  PROVE  Once(t) /\ In(s) \ {s[i]} \subseteq In(t) /\ e \in In(t)
<1>1. Once(t)
  BY DEF Once, In, Swaps
<1>2. e \in In(t) /\ In(s) \ {s[i]} \subseteq In(t)
  BY DEF In, Swaps
<1> QED BY <1>1, <1>2

LEMMA OnceAppended ==
  ASSUME NEW S, NEW s \in Seq(S), Once(s), NEW e \in S \ In(s)
  PROVE  LET t == Append(s, e)
         IN t \in Seq(S) /\ Len(t) = Len(s) + 1 /\ Once(t) /\ In(s) \cup {e} \subseteq In(t)
<1> DEFINE t == Append(s, e)
<1>1. /\ t \in Seq(S) /\ Len(s) \in Nat /\ Len(t) = Len(s) + 1
      /\ DOMAIN s = 1 .. Len(s) /\ DOMAIN t = 1 .. Len(s) + 1
  OBVIOUS
<1>2. t[Len(s) + 1] = e /\ \A j \in 1 .. Len(s) : t[j] = s[j]
  OBVIOUS
<1> HIDE DEF t
<1>3. Once(t)
  <2> SUFFICES ASSUME NEW i \in DOMAIN t, NEW j \in DOMAIN t, t[i] = t[j] PROVE i = j
    BY DEF Once
  <2>1. (i \in DOMAIN s \/ i = Len(s) + 1) /\ (j \in DOMAIN s \/ j = Len(s) + 1)
    BY <1>1
  <2>2. \A k \in DOMAIN s : s[k] # e
    BY DEF In
  <2> QED BY <1>1, <1>2, <2>1, <2>2 DEF Once
<1>4. e \in In(t)
  <2>1. Len(s) + 1 \in DOMAIN t
    BY <1>1
  <2> QED BY <1>2, <2>1 DEF In
<1>5. In(s) \subseteq In(t)
  <2> SUFFICES ASSUME NEW j \in DOMAIN s PROVE s[j] \in In(t)
    BY DEF In
  <2>1. j \in DOMAIN t /\ t[j] = s[j]
    BY <1>1, <1>2
  <2> QED BY <2>1 DEF In
<1> QED BY <1>1, <1>3, <1>4, <1>5 DEF t

LEMMA OnceRemoved ==
  ASSUME NEW S, NEW s \in Seq(S), Once(s), NEW i \in DOMAIN s
  PROVE  LET t == RemoveAt(s, i)
         IN /\ t \in Seq(S) /\ Len(t) = Len(s) - 1 /\ Once(t)
            /\ In(s) \ {s[i]} \subseteq In(t) /\ In(t) \subseteq In(s)
<1> DEFINE t == RemoveAt(s, i)
<1>1. /\ t \in Seq(S) /\ Len(t) = Len(s) - 1 /\ DOMAIN t = 1 .. Len(s) - 1
      /\ \A j \in 1 .. Len(s) - 1 : t[j] = IF j < i THEN s[j] ELSE s[j + 1]
  BY RemoveOne
<1>2. Len(s) \in Nat /\ DOMAIN s = 1 .. Len(s)
  OBVIOUS
<1> HIDE DEF t
<1> DEFINE From(j) == IF j < i THEN j ELSE j + 1
<1>3. ASSUME NEW j \in DOMAIN t PROVE From(j) \in DOMAIN s /\ t[j] = s[From(j)]
  BY <1>1, <1>2
<1>4. Once(t)
  <2> SUFFICES ASSUME NEW j \in DOMAIN t, NEW k \in DOMAIN t, t[j] = t[k] PROVE j = k
    BY DEF Once
  <2>1. From(j) = From(k)
    <3>1. s[From(j)] = s[From(k)] /\ From(j) \in DOMAIN s /\ From(k) \in DOMAIN s
      BY <1>3
    <3> HIDE DEF From
    <3> QED BY <3>1 DEF Once
  <2>2. j \in Int /\ k \in Int /\ i \in Int
    BY <1>1, <1>2
  <2> QED BY <2>1, <2>2
<1>5. In(t) \subseteq In(s)
  <2> HIDE DEF From
  <2> QED BY <1>3 DEF In
<1>6. In(s) \ {s[i]} \subseteq In(t)
  <2> SUFFICES ASSUME NEW j \in DOMAIN s, s[j] # s[i] PROVE s[j] \in In(t)
    BY DEF In
  <2>1. CASE j < i
    <3>1. j \in DOMAIN t /\ t[j] = s[j]
      BY <1>1, <1>2, <2>1
    <3> QED BY <3>1 DEF In
  <2>2. CASE ~(j < i)
    <3>1. j \in Int /\ i \in Int /\ j > i /\ i >= 1 /\ j <= Len(s)
      BY <1>2, <2>2
    <3>2. j - 1 \in DOMAIN t /\ ~(j - 1 < i) /\ (j - 1) + 1 = j
      BY <1>1, <1>2, <3>1
    <3>3. t[j - 1] = s[j]
      BY <1>1, <3>2
    <3> QED BY <3>2, <3>3 DEF In
  <2> QED BY <2>1, <2>2
<1> QED BY <1>1, <1>4, <1>5, <1>6 DEF t

LEMMA OnceBeheaded ==
  ASSUME NEW S, NEW s \in Seq(S), Once(s), s # <<>>
  PROVE  LET t == Tail(s)
         IN /\ t \in Seq(S) /\ Len(t) = Len(s) - 1 /\ Once(t)
            /\ In(s) \ {Head(s)} \subseteq In(t) /\ In(t) \subseteq In(s)
<1>1. Len(s) \in Nat /\ DOMAIN s = 1 .. Len(s) /\ 1 \in DOMAIN s /\ Head(s) = s[1]
  OBVIOUS
<1>2. /\ Tail(s) \in Seq(S) /\ Len(Tail(s)) = Len(s) - 1 /\ DOMAIN Tail(s) = 1 .. Len(s) - 1
      /\ \A j \in 1 .. Len(s) - 1 : Tail(s)[j] = s[j + 1]
  BY <1>1
<1> DEFINE t == Tail(s)
<1> HIDE DEF t
<1>3. /\ t \in Seq(S) /\ Len(t) = Len(s) - 1 /\ DOMAIN t = 1 .. Len(s) - 1
      /\ \A j \in 1 .. Len(s) - 1 : t[j] = s[j + 1]
  BY <1>2 DEF t
<1>4. ASSUME NEW j \in DOMAIN t PROVE j + 1 \in DOMAIN s /\ t[j] = s[j + 1] /\ j \in Int
  BY <1>1, <1>3
<1>5. Once(t)
  <2> SUFFICES ASSUME NEW j \in DOMAIN t, NEW k \in DOMAIN t, t[j] = t[k] PROVE j = k
    BY DEF Once
  <2>1. j + 1 = k + 1
    BY <1>4 DEF Once
  <2> QED BY <1>4, <2>1
<1>6. In(t) \subseteq In(s)
  BY <1>4 DEF In
<1>7. In(s) \ {Head(s)} \subseteq In(t)
  <2> SUFFICES ASSUME NEW j \in DOMAIN s, j # 1 PROVE s[j] \in In(t)
    BY <1>1 DEF In
  <2>1. j - 1 \in DOMAIN t /\ (j - 1) + 1 = j
    BY <1>1, <1>3
  <2>2. t[j - 1] = s[j]
    BY <1>3, <2>1
  <2> QED BY <2>1, <2>2 DEF In
<1> QED BY <1>3, <1>5, <1>6, <1>7 DEF t


-----------------------------------------------------------------------------
(***************************************************************************)
(* The page: what its continuations rely on while other tasks run.         *)
(***************************************************************************)
Ids1 == 1 .. PageSends
Known(e) == Shown(e) \/ e \in taken

PageShape ==
  /\ promise \in [Requests -> {"none", "asked", "kept", "broken"}]
  /\ say \in [Ids1 -> {"none", "waiting", "saying", "over"}]
  /\ handler \in [Deliveries -> {"none", "acking", "handling", "failed", "acked", "done"}]
  /\ view \in Seq({EventOf[d] : d \in Deliveries}) /\ Len(view) <= MaxRows

(* A client whose socket was closed is over, and asks nothing any more.    *)
Silent ==
  /\ closeSeen => life = "over"
  /\ life = "over" => \A p \in Requests : promise[p] # "asked"

(* The subscription was asked for and, once a close event has come, has    *)
(* been refused; the page that goes on past it has it.                     *)
ChainOK ==
  /\ chain = "subscribing" =>
       promise[Subscribe] # "none" /\ (closeSeen => promise[Subscribe] = "broken")
  /\ chain \in {"onReady", "done"} /\ ~gone => promise[Subscribe] = "kept"

SayOK ==
  \A k \in Ids1 : say[k] = "saying" =>
    /\ promise[Say(k)] # "none" /\ (closeSeen => promise[Say(k)] = "broken")
    /\ ~gone => promise[Subscribe] = "kept"

HandledShown ==
  \A d \in Deliveries : handler[d] = "handling" => Known(EventOf[d]) \/ d \in hidden
AcksShown ==
  \A d \in Deliveries :
    promise[Ack(d)] # "none" => d \notin Ephemeral /\ (Known(EventOf[d]) \/ d \in hidden)
NoneTwice == \A i, j \in DOMAIN view : view[i] = view[j] => i = j

PageInv ==
  /\ PageShape /\ Silent /\ ChainOK /\ SayOK /\ EnabledMeans
  /\ HandledShown /\ AcksShown /\ NoneTwice

LEMMA PageInvSafe == PageInv => PageSafe
  BY DEF PageInv, PageShape, PageSafe, AckedShown, AcksShown, NoneTwice, Known

(* Requests are told apart.                                                *)
LEMMA RequestsApart ==
  /\ Subscribe \in Requests /\ \A k \in Ids1 : Say(k) \in Requests
  /\ \A d \in Deliveries : Ack(d) \in Requests
  /\ \A d, e \in Deliveries : Ack(d) = Ack(e) => d = e
  /\ \A d \in Deliveries : Ack(d) # Subscribe /\ \A k \in Ids1 : Ack(d) # Say(k)
  BY DEF Requests, Subscribe, Say, Ack, Ids1

-----------------------------------------------------------------------------
(* What a step does to the client's promises.                              *)
Moves ==
  /\ promise' \in [Requests -> {"none", "asked", "kept", "broken"}]
  /\ life = "over" => life' = "over"
  /\ life' = "over" => \A p \in Requests : promise'[p] # "asked"
  /\ \A p \in Requests :
       /\ promise[p] \in {"kept", "broken"} => promise'[p] = promise[p]
       /\ promise[p] # "none" => promise'[p] # "none"
       /\ promise[p] = "none" /\ promise'[p] # "none" => Asks(p)

LEMMA AsksMoves ==
  ASSUME PageShape, Silent, NEW p \in Requests, Asks(p)
  PROVE  /\ Moves /\ life' = life /\ promise[p] = "none" /\ promise'[p] # "none"
         /\ \A q \in Requests \ {p} : promise'[q] = promise[q]
<1>1. /\ life' = life /\ promise[p] = "none"
      /\ \/ life # "over" /\ promise' = [promise EXCEPT ![p] = "asked"]
         \/ promise' = [promise EXCEPT ![p] = "broken"]
  BY DEF Asks, Client!Asked, Client!Declined
<1>2. /\ promise' \in [Requests -> {"none", "asked", "kept", "broken"}]
      /\ \A q \in Requests : q # p => promise'[q] = promise[q]
      /\ promise'[p] # "none" /\ (life = "over" => promise'[p] = "broken")
  BY <1>1 DEF PageShape
<1> QED BY <1>1, <1>2 DEF Moves, Silent

LEMMA OverMoves ==
  ASSUME PageShape, Silent, Client!Over
  PROVE  /\ Moves /\ life # "over" /\ life' = "over"
         /\ \A p \in Requests : promise[p] = "asked" => promise'[p] = "broken"
         /\ \A p \in Requests : promise[p] = "none" => promise'[p] = "none"
<1>1. /\ life # "over" /\ life' = "over"
      /\ promise' = [p \in Requests |-> IF promise[p] = "asked" THEN "broken" ELSE promise[p]]
  BY DEF Client!Over
<1>2. \A p \in Requests : promise'[p] = IF promise[p] = "asked" THEN "broken" ELSE promise[p]
  BY <1>1
<1>3. promise' \in [Requests -> {"none", "asked", "kept", "broken"}]
  BY <1>1 DEF PageShape
<1> QED BY <1>1, <1>2, <1>3 DEF Moves

LEMMA SettlesMoves ==
  ASSUME PageShape, Silent, NEW p \in Requests, Client!Kept(p) \/ Client!Broken(p)
  PROVE  Moves /\ life' = life /\ \A q \in Requests : promise[q] = "none" => promise'[q] = "none"
<1>1. /\ life' = life /\ promise[p] = "asked"
      /\ \/ promise' = [promise EXCEPT ![p] = "kept"]
         \/ promise' = [promise EXCEPT ![p] = "broken"]
  BY DEF Client!Kept, Client!Broken
<1>2. /\ promise' \in [Requests -> {"none", "asked", "kept", "broken"}]
      /\ \A q \in Requests : q # p => promise'[q] = promise[q]
      /\ promise'[p] \in {"kept", "broken"}
  BY <1>1 DEF PageShape
<1> QED BY <1>1, <1>2 DEF Moves, Silent

LEMMA StillMoves ==
  ASSUME PageShape, Silent, UNCHANGED clientSide PROVE Moves
  BY DEF PageShape, Silent, Moves, clientSide

LEMMA EstablishMoves ==
  ASSUME PageShape, Silent, Client!Establish PROVE Moves /\ UNCHANGED promise
  BY DEF PageShape, Silent, Moves, Client!Establish

(* A task of the client alone.                                             *)
LEMMA ClientMovesOK ==
  ASSUME PageShape, Silent,
         \/ Client!Establish
         \/ \E p \in DOMAIN promise : Client!Kept(p) \/ Client!Broken(p)
         \/ Client!Over
  PROVE  Moves /\ \A q \in Requests : promise[q] = "none" => promise'[q] = "none"
<1>1. DOMAIN promise = Requests
  BY DEF PageShape
<1> QED BY <1>1, EstablishMoves, SettlesMoves, OverMoves

LEMMA PageMoves ==
  ASSUME PageShape, Silent, [PageNext]_pageVars PROVE Moves
<1>1. DOMAIN say = Ids1
  BY DEF PageShape
<1>2. CASE UNCHANGED clientSide
  BY <1>2, StillMoves
<1>3. CASE \E p \in Requests : Asks(p)
  BY <1>3, AsksMoves
<1>4. CASE \/ Client!Establish
           \/ \E p \in DOMAIN promise : Client!Kept(p) \/ Client!Broken(p)
           \/ Client!Over
  BY <1>4, ClientMovesOK
<1>5. \/ UNCHANGED clientSide \/ \E p \in Requests : Asks(p)
      \/ Client!Establish
      \/ \E p \in DOMAIN promise : Client!Kept(p) \/ Client!Broken(p)
      \/ Client!Over
  BY <1>1, RequestsApart
     DEF PageNext, pageVars, Continuations, SessionThere, SessionFailed, Subscribed,
         NotSubscribed, OnReadyEnds, Types, Submits, Says, Accepted, NotAccepted,
         ReportsSend, Deliver, Acks, OnEventEnds, AckEnds, RowsTaken, ClientMoves, ClientFails,
         CloseEvent, DestroyPage
<1> QED BY <1>2, <1>3, <1>4, <1>5

-----------------------------------------------------------------------------
(***************************************************************************)
(* The parts of the invariant after a step.                                *)
(***************************************************************************)
LEMMA ViewGrows ==
  ASSUME [PageNext]_pageVars
  PROVE  \/ UNCHANGED <<view, taken>>
         \/ \E d \in Deliveries : Present(EventOf[d])
         \/ \E i \in DOMAIN view : TakeRow(i)
         \/ TakeAll
<1>1. CASE UNCHANGED pageVars
  BY ONLY <1>1 DEF pageVars, listed
<1>2. CASE Continuations
  BY ONLY <1>2 DEF Continuations, SessionThere, SessionFailed, Subscribed, NotSubscribed,
     Says, Accepted, NotAccepted, ReportsSend, AckEnds, listed
<1>3. CASE OnReadyEnds \/ (\E t \in AnyText : Types(t)) \/ \E k \in DOMAIN say : Submits(k)
  BY ONLY <1>3 DEF OnReadyEnds, Types, Submits, listed
<1>4. ASSUME NEW d \in Deliveries, Deliver(d) \/ OnEventEnds(d)
      PROVE  UNCHANGED <<view, taken>> \/ Present(EventOf[d])
  BY ONLY <1>4 DEF Deliver, OnEventEnds, listed
<1>5. CASE RowsTaken
  BY ONLY <1>5 DEF RowsTaken
<1>6. CASE ClientMoves \/ ClientFails \/ CloseEvent \/ DestroyPage
  BY ONLY <1>6 DEF ClientMoves, ClientFails, CloseEvent, DestroyPage, listed
<1> QED BY ONLY [PageNext]_pageVars, <1>1, <1>2, <1>3, <1>4, <1>5, <1>6 DEF PageNext

Listed ==
  /\ view' \in Seq({EventOf[d] : d \in Deliveries}) /\ Len(view') <= MaxRows /\ NoneTwice'
  /\ \A e : Known(e) => Known(e)'

LEMMA KnownIs ==
  /\ \A e : Shown(e) <=> e \in In(view)
  /\ \A e : Known(e)' <=> e \in In(view') \/ e \in taken'
  /\ (NoneTwice <=> Once(view)) /\ (NoneTwice' <=> Once(view'))
  BY DEF Shown, Known, In, NoneTwice, Once

LEMMA PresentOK ==
  ASSUME PageShape, NoneTwice, NEW d \in Deliveries, Present(EventOf[d])
  PROVE  Listed /\ Known(EventOf[d])'
<1> DEFINE S == {EventOf[c] : c \in Deliveries}
           e == EventOf[d]
<1>1. /\ view \in Seq(S) /\ e \in S /\ Once(view) /\ Len(view) \in Nat /\ Len(view) <= MaxRows
      /\ MaxRows \in Nat \ {0}
  BY KnownIs, PageConstants DEF PageShape
<1> SUFFICES /\ view' \in Seq(S) /\ Len(view') <= MaxRows /\ Once(view')
             /\ In(view) \cup taken \cup {e} \subseteq In(view') \cup taken'
  BY KnownIs DEF Listed, Known
<1> HIDE DEF S, e
<1>2. \/ e \in In(view) /\ UNCHANGED <<view, taken>>
      \/ \E i \in DOMAIN view :
           /\ e \notin In(view)
           /\ view' = [view EXCEPT ![i] = e] /\ taken' = (taken \ {e}) \cup {view[i]}
      \/ e \notin In(view) /\ Len(view) < MaxRows /\ view' = Append(view, e) /\ taken' = taken \ {e}
      \/ /\ e \notin In(view) /\ ~(Len(view) < MaxRows)
         /\ view' = Append(Tail(view), e) /\ taken' = (taken \ {e}) \cup {Head(view)}
  BY KnownIs DEF Present, Shown, e
<1>3. CASE e \in In(view) /\ UNCHANGED <<view, taken>>
  BY ONLY <1>1, <1>3
<1>4. ASSUME NEW i \in DOMAIN view, e \notin In(view),
             view' = [view EXCEPT ![i] = e], taken' = (taken \ {e}) \cup {view[i]}
      PROVE  /\ view' \in Seq(S) /\ Len(view') <= MaxRows /\ Once(view')
             /\ In(view) \cup taken \cup {e} \subseteq In(view') \cup taken'
  <2>1. /\ view' \in Seq(S) /\ Len(view') = Len(view) /\ Once(view')
        /\ In(view) \ {view[i]} \subseteq In(view') /\ e \in In(view')
    <3>1. view' \in Seq(S) /\ Len(view') = Len(view) /\ Swaps(view, i, e, view')
      BY <1>1, <1>4 DEF Swaps
    <3>2. Once(view') /\ In(view) \ {view[i]} \subseteq In(view') /\ e \in In(view')
      BY <1>1, <1>4, <3>1, OnceSwapped
    <3> QED BY ONLY <3>1, <3>2
  <2> QED BY ONLY <1>1, <1>4, <2>1
<1>5. CASE e \notin In(view) /\ Len(view) < MaxRows /\ view' = Append(view, e) /\ taken' = taken \ {e}
  <2>1. /\ view' \in Seq(S) /\ Len(view') = Len(view) + 1 /\ Once(view')
        /\ In(view) \cup {e} \subseteq In(view')
    BY ONLY <1>1, <1>5, OnceAppended
  <2> QED BY ONLY <1>1, <1>5, <2>1
<1>6. CASE /\ e \notin In(view) /\ ~(Len(view) < MaxRows)
           /\ view' = Append(Tail(view), e) /\ taken' = (taken \ {e}) \cup {Head(view)}
  <2>1. view # <<>>
    <3>1. Len(view) # 0
      BY ONLY <1>1, <1>6
    <3> QED BY <3>1
  <2> DEFINE t == Tail(view)
  <2>2. /\ t \in Seq(S) /\ Len(t) = Len(view) - 1 /\ Once(t)
        /\ In(view) \ {Head(view)} \subseteq In(t) /\ In(t) \subseteq In(view)
    BY ONLY <1>1, <2>1, OnceBeheaded
  <2> HIDE DEF t
  <2>3. view' = Append(t, e) /\ e \in S \ In(t)
    BY <1>1, <1>6, <2>2 DEF t
  <2>4. /\ view' \in Seq(S) /\ Len(view') = Len(t) + 1 /\ Once(view')
        /\ In(t) \cup {e} \subseteq In(view')
    BY ONLY <2>2, <2>3, OnceAppended
  <2>5. Len(view') <= MaxRows
    BY ONLY <1>1, <2>2, <2>4
  <2> QED BY ONLY <1>6, <2>2, <2>4, <2>5
<1> QED BY ONLY <1>2, <1>3, <1>4, <1>5, <1>6

LEMMA TakeOK ==
  ASSUME PageShape, NoneTwice, TakeAll \/ \E i \in DOMAIN view : TakeRow(i)
  PROVE  Listed
<1> DEFINE S == {EventOf[c] : c \in Deliveries}
<1>1. view \in Seq(S) /\ Once(view) /\ Len(view) \in Nat /\ Len(view) <= MaxRows /\ MaxRows \in Nat
  BY KnownIs, PageConstants DEF PageShape
<1> SUFFICES /\ view' \in Seq(S) /\ Len(view') <= MaxRows /\ Once(view')
             /\ In(view) \cup taken \subseteq In(view') \cup taken'
  BY KnownIs DEF Listed, Known
<1> HIDE DEF S
<1>2. CASE TakeAll
  <2>1. view' = <<>> /\ taken' = taken \cup In(view)
    BY <1>2 DEF TakeAll, ToSet, In
  <2>2. Len(view') = 0 /\ view' \in Seq(S) /\ Once(view')
    BY <2>1 DEF Once
  <2> QED BY <1>1, <2>1, <2>2
<1>3. ASSUME NEW i \in DOMAIN view, TakeRow(i)
      PROVE  /\ view' \in Seq(S) /\ Len(view') <= MaxRows /\ Once(view')
             /\ In(view) \cup taken \subseteq In(view') \cup taken'
  <2>1. view' = RemoveAt(view, i) /\ taken' = taken \cup {view[i]}
    BY <1>3 DEF TakeRow
  <2>2. /\ view' \in Seq(S) /\ Len(view') = Len(view) - 1 /\ Once(view')
        /\ In(view) \ {view[i]} \subseteq In(view')
    BY ONLY <1>1, <2>1, OnceRemoved, i \in DOMAIN view
  <2>3. Len(view') <= MaxRows
    BY ONLY <1>1, <2>2
  <2> QED BY ONLY <2>1, <2>2, <2>3
<1> QED BY <1>2, <1>3

LEMMA ViewNext == ASSUME PageInv, [PageNext]_pageVars PROVE Listed
<1>1. CASE UNCHANGED <<view, taken>>
  BY <1>1 DEF PageInv, PageShape, Listed, NoneTwice, Known, Shown
<1> QED BY <1>1, ViewGrows, PresentOK, TakeOK DEF PageInv

LEMMA SayGoes ==
  ASSUME [PageNext]_pageVars
  PROVE  say' = say \/ \E k \in DOMAIN say, s \in {"waiting", "saying", "over"} :
                          say' = [say EXCEPT ![k] = s]
<1>1. CASE UNCHANGED pageVars
  BY ONLY <1>1 DEF pageVars
<1>2. CASE Continuations
  <2>1. ASSUME NEW k \in DOMAIN say, Says(k) \/ Accepted(k) \/ NotAccepted(k)
        PROVE  \E s \in {"waiting", "saying", "over"} : say' = [say EXCEPT ![k] = s]
    BY ONLY <2>1 DEF Says, Accepted, NotAccepted
  <2>2. CASE ~\E k \in DOMAIN say : Says(k) \/ Accepted(k) \/ NotAccepted(k)
    BY ONLY <1>2, <2>2 DEF Continuations, SessionThere, SessionFailed, Subscribed,
       NotSubscribed, ReportsSend, AckEnds
  <2> QED BY <2>1, <2>2
<1>3. ASSUME NEW k \in DOMAIN say, Submits(k)
      PROVE  \E s \in {"waiting", "saying", "over"} : say' = [say EXCEPT ![k] = s]
  BY ONLY <1>3 DEF Submits
<1>4. CASE OnReadyEnds \/ (\E t \in AnyText : Types(t))
             \/ \E d \in Deliveries : Deliver(d) \/ OnEventEnds(d)
  BY ONLY <1>4 DEF OnReadyEnds, Types, Deliver, OnEventEnds
<1>5. CASE RowsTaken \/ ClientMoves \/ ClientFails \/ CloseEvent \/ DestroyPage
  BY ONLY <1>5 DEF RowsTaken, ClientMoves, ClientFails, CloseEvent, DestroyPage
<1> QED BY ONLY [PageNext]_pageVars, <1>1, <1>2, <1>3, <1>4, <1>5 DEF PageNext

LEMMA HandlerMoves ==
  ASSUME [PageNext]_pageVars
  PROVE  handler' = handler \/ \E d \in Deliveries : Deliver(d) \/ OnEventEnds(d) \/ AckEnds(d)
<1>1. CASE UNCHANGED pageVars
  BY ONLY <1>1 DEF pageVars
<1>2. CASE Continuations /\ ~\E d \in Deliveries : AckEnds(d)
  BY ONLY <1>2 DEF Continuations, SessionThere, SessionFailed, Subscribed, NotSubscribed,
     Says, Accepted, NotAccepted, ReportsSend
<1>3. CASE OnReadyEnds \/ (\E t \in AnyText : Types(t)) \/ \E k \in DOMAIN say : Submits(k)
  BY ONLY <1>3 DEF OnReadyEnds, Types, Submits
<1>4. CASE RowsTaken \/ ClientMoves \/ ClientFails \/ CloseEvent \/ DestroyPage
  BY ONLY <1>4 DEF RowsTaken, ClientMoves, ClientFails, CloseEvent, DestroyPage
<1> QED BY ONLY [PageNext]_pageVars, <1>1, <1>2, <1>3, <1>4 DEF PageNext

LEMMA HandlerGoes ==
  ASSUME [PageNext]_pageVars
  PROVE  handler' = handler
           \/ \E d \in Deliveries, s \in {"acking", "handling", "failed", "acked", "done"} :
                handler' = [handler EXCEPT ![d] = s]
<1>1. ASSUME NEW d \in Deliveries, Deliver(d) \/ OnEventEnds(d) \/ AckEnds(d)
      PROVE  \E s \in {"acking", "handling", "failed", "acked", "done"} :
               handler' = [handler EXCEPT ![d] = s]
  BY ONLY <1>1 DEF Deliver, Acks, OnEventEnds, AckEnds
<1> QED BY ONLY [PageNext]_pageVars, <1>1, HandlerMoves

(* A step that begins to handle a delivery has given its event a row.      *)
LEMMA HandlingBegins ==
  ASSUME PageShape, [PageNext]_pageVars, NEW d \in Deliveries,
         handler[d] # "handling", handler'[d] = "handling"
  PROVE  Present(EventOf[d]) \/ d \in hidden'
<1>1. handler \in [Deliveries -> {"none", "acking", "handling", "failed", "acked", "done"}]
  BY DEF PageShape
<1>2. PICK e \in Deliveries : Deliver(e) \/ OnEventEnds(e) \/ AckEnds(e)
  BY ONLY [PageNext]_pageVars, HandlerMoves, handler[d] # "handling", handler'[d] = "handling"
<1>3. \E s \in {"acking", "handling", "failed", "acked", "done"} :
        /\ handler' = [handler EXCEPT ![e] = s]
        /\ s = "handling" => Present(EventOf[e]) \/ e \in hidden'
  BY ONLY <1>2 DEF Deliver, Acks, OnEventEnds, AckEnds
<1>4. PICK s \in {"acking", "handling", "failed", "acked", "done"} :
        /\ handler' = [handler EXCEPT ![e] = s]
        /\ s = "handling" => Present(EventOf[e]) \/ e \in hidden'
  BY ONLY <1>3
<1>5. e = d /\ s = "handling"
  BY ONLY <1>1, <1>4, handler[d] # "handling", handler'[d] = "handling"
<1> QED BY ONLY <1>4, <1>5

LEMMA ShapeNext ==
  ASSUME PageInv, [PageNext]_pageVars PROVE PageShape'
<1> USE DEF PageInv
<1>1. DOMAIN say = Ids1 /\ promise' \in [Requests -> {"none", "asked", "kept", "broken"}]
  BY PageMoves DEF PageShape, Moves
<1>2. say' \in [Ids1 -> {"none", "waiting", "saying", "over"}]
  <2>1. say \in [Ids1 -> {"none", "waiting", "saying", "over"}]
    BY DEF PageShape
  <2>2. CASE say' = say
    BY ONLY <2>1, <2>2
  <2>3. ASSUME NEW k \in DOMAIN say, NEW s \in {"waiting", "saying", "over"},
               say' = [say EXCEPT ![k] = s]
        PROVE  say' \in [Ids1 -> {"none", "waiting", "saying", "over"}]
    BY ONLY <2>1, <2>3
  <2> QED BY ONLY <2>2, <2>3, [PageNext]_pageVars, SayGoes
<1>3. handler' \in [Deliveries -> {"none", "acking", "handling", "failed", "acked", "done"}]
  <2>1. handler \in [Deliveries -> {"none", "acking", "handling", "failed", "acked", "done"}]
    BY DEF PageShape
  <2>2. CASE handler' = handler
    BY ONLY <2>1, <2>2
  <2>3. ASSUME NEW d \in Deliveries, NEW s \in {"acking", "handling", "failed", "acked", "done"},
               handler' = [handler EXCEPT ![d] = s]
        PROVE  handler' \in [Deliveries -> {"none", "acking", "handling", "failed", "acked", "done"}]
    BY ONLY <2>1, <2>3
  <2> QED BY ONLY <2>2, <2>3, [PageNext]_pageVars, HandlerGoes
<1>4. view' \in Seq({EventOf[d] : d \in Deliveries}) /\ Len(view') <= MaxRows
  BY ViewNext DEF Listed
<1> QED BY <1>1, <1>2, <1>3, <1>4 DEF PageShape

LEMMA SilentNext ==
  ASSUME PageInv, [PageNext]_pageVars PROVE Silent'
<1> USE DEF PageInv
<1>1. Moves
  BY PageMoves
<1>2. closeSeen' => closeSeen \/ life' = "over"
  BY DEF PageNext, pageVars, Continuations, SessionThere, SessionFailed, Subscribed,
         NotSubscribed, OnReadyEnds, Types, Submits, Says, Accepted, NotAccepted,
         ReportsSend, Deliver, Acks, OnEventEnds, AckEnds, RowsTaken, ClientMoves, ClientFails,
         CloseEvent, Client!Over, clientSide, DestroyPage
<1> QED BY <1>1, <1>2 DEF Silent, Moves

(* What was promised before the close event came is settled by it.         *)
LEMMA CloseSettles ==
  ASSUME PageInv, [PageNext]_pageVars, ~closeSeen, closeSeen', NEW p \in Requests,
         promise[p] # "none", ~Settled(p)
  PROVE  promise'[p] = "broken"
<1> USE DEF PageInv
<1>1. CloseEvent
  BY DEF PageNext, pageVars, Continuations, SessionThere, SessionFailed, Subscribed,
         NotSubscribed, OnReadyEnds, Types, Submits, Says, Accepted, NotAccepted,
         ReportsSend, Deliver, Acks, OnEventEnds, AckEnds, RowsTaken, ClientMoves, ClientFails,
         DestroyPage
<1>2. promise[p] = "asked"
  BY DEF Settled, PageShape
<1>3. Client!Over
  BY <1>1, <1>2 DEF CloseEvent, Silent
<1> QED BY <1>2, <1>3, OverMoves

LEMMA CloseIsTask ==
  ASSUME PageInv, [PageNext]_pageVars, ~closeSeen, closeSeen'
  PROVE  Task /\ UNCHANGED <<chain, say, gone>>
  BY DEF PageNext, pageVars, Continuations, SessionThere, SessionFailed, Subscribed,
         NotSubscribed, OnReadyEnds, Types, Submits, Says, Accepted, NotAccepted,
         ReportsSend, Deliver, Acks, OnEventEnds, AckEnds, RowsTaken, ClientMoves, ClientFails,
         CloseEvent, DestroyPage

LEMMA GoneStays == [PageNext]_pageVars => (gone => gone') /\ (closeSeen => closeSeen')
<1> SUFFICES ASSUME [PageNext]_pageVars PROVE (gone => gone') /\ (closeSeen => closeSeen')
  OBVIOUS
<1>1. gone' = gone \/ gone' = TRUE
  BY DEF PageNext, pageVars, Continuations, SessionThere, SessionFailed, Subscribed,
         NotSubscribed, OnReadyEnds, Types, Submits, Says, Accepted, NotAccepted,
         ReportsSend, Deliver, Acks, OnEventEnds, AckEnds, RowsTaken, ClientMoves, ClientFails,
         CloseEvent, DestroyPage
<1>2. closeSeen' = closeSeen \/ closeSeen' = TRUE
  BY DEF PageNext, pageVars, Continuations, SessionThere, SessionFailed, Subscribed,
         NotSubscribed, OnReadyEnds, Types, Submits, Says, Accepted, NotAccepted,
         ReportsSend, Deliver, Acks, OnEventEnds, AckEnds, RowsTaken, ClientMoves, ClientFails,
         CloseEvent, DestroyPage
<1> QED BY <1>1, <1>2

LEMMA ChainNext ==
  ASSUME PageInv, [PageNext]_pageVars PROVE ChainOK'
<1> USE DEF PageInv
<1>1. Moves /\ Subscribe \in Requests /\ (gone => gone') /\ (closeSeen => closeSeen')
  BY PageMoves, RequestsApart, GoneStays
<1>2. \/ chain' = chain
      \/ SessionThere
      \/ chain' \in {"onReady", "done"} /\ promise[Subscribe] = "kept" /\ UNCHANGED promise
      \/ chain' = "done" /\ gone
      \/ chain' = "failed"
      \/ chain' = "done" /\ chain = "onReady" /\ UNCHANGED <<promise, gone>>
  BY DEF PageNext, pageVars, Continuations, SessionFailed, Subscribed, clientSide,
         NotSubscribed, OnReadyEnds, Types, Submits, Says, Accepted, NotAccepted,
         ReportsSend, Deliver, Acks, OnEventEnds, AckEnds, RowsTaken, ClientMoves, ClientFails,
         CloseEvent, DestroyPage
<1>3. CASE chain' = chain
  <2>1. ASSUME chain' = "subscribing" PROVE promise'[Subscribe] # "none"
    BY <1>1, <1>3, <2>1 DEF ChainOK, Moves
  <2>2. ASSUME chain' = "subscribing", closeSeen' PROVE promise'[Subscribe] = "broken"
    <3>1. CASE closeSeen
      BY <1>1, <1>3, <2>2, <3>1 DEF ChainOK, Moves
    <3>2. CASE ~closeSeen
      <4>1. Task
        BY <2>2, <3>2, CloseIsTask
      <4>2. ~Settled(Subscribe) /\ promise[Subscribe] # "none"
        BY <1>3, <2>2, <4>1 DEF Task, Due, ChainOK
      <4> QED BY <1>1, <2>2, <3>2, <4>2, CloseSettles
    <3> QED BY <3>1, <3>2
  <2>3. ASSUME chain' \in {"onReady", "done"}, ~gone' PROVE promise'[Subscribe] = "kept"
    BY <1>1, <1>3, <2>3 DEF ChainOK, Moves
  <2> QED BY <2>1, <2>2, <2>3 DEF ChainOK
<1>4. CASE SessionThere
  <2>1. CASE gone
    BY <1>1, <1>4, <2>1 DEF SessionThere, ChainOK
  <2>2. CASE ~gone
    <3>1. chain' = "subscribing" /\ Asks(Subscribe) /\ UNCHANGED closeSeen /\ life = "ready"
      BY <1>4, <2>2 DEF SessionThere
    <3>2. promise'[Subscribe] # "none" /\ ~closeSeen
      BY <1>1, <3>1, AsksMoves DEF Silent
    <3> QED BY <3>1, <3>2 DEF ChainOK
  <2> QED BY <2>1, <2>2
<1>5. CASE chain' \in {"onReady", "done"} /\ promise[Subscribe] = "kept" /\ UNCHANGED promise
  BY <1>5 DEF ChainOK
<1>6. CASE chain' = "done" /\ gone
  BY <1>1, <1>6 DEF ChainOK
<1>7. CASE chain' = "failed"
  BY <1>7 DEF ChainOK
<1>8. CASE chain' = "done" /\ chain = "onReady" /\ UNCHANGED <<promise, gone>>
  BY <1>8 DEF ChainOK
<1> QED BY <1>2, <1>3, <1>4, <1>5, <1>6, <1>7, <1>8

LEMMA SayNext ==
  ASSUME PageInv, [PageNext]_pageVars PROVE SayOK'
<1> USE DEF PageInv
<1>1. Moves /\ Subscribe \in Requests /\ (gone => gone') /\ (closeSeen => closeSeen')
  BY PageMoves, RequestsApart, GoneStays
<1> SUFFICES ASSUME NEW k \in Ids1, say'[k] = "saying"
             PROVE  /\ promise'[Say(k)] # "none" /\ (closeSeen' => promise'[Say(k)] = "broken")
                    /\ ~gone' => promise'[Subscribe] = "kept"
  BY DEF SayOK, Say
<1>2. Say(k) \in Requests /\ DOMAIN say = Ids1
  BY RequestsApart DEF PageShape
<1>3. say[k] = "saying" \/ Says(k)
  BY <1>2 DEF PageShape, PageNext, pageVars, Continuations, SessionThere, SessionFailed,
         Subscribed, NotSubscribed, OnReadyEnds, Types, Submits, Says, Accepted, NotAccepted,
         ReportsSend, Deliver, Acks, OnEventEnds, AckEnds, RowsTaken, ClientMoves, ClientFails,
         CloseEvent, DestroyPage
<1>4. CASE say[k] = "saying"
  <2>1. promise'[Say(k)] # "none" /\ (~gone' => promise'[Subscribe] = "kept")
    BY <1>1, <1>2, <1>4 DEF SayOK, Moves
  <2>2. ASSUME closeSeen' PROVE promise'[Say(k)] = "broken"
    <3>1. CASE closeSeen
      BY <1>1, <1>2, <1>4, <3>1 DEF SayOK, Moves
    <3>2. CASE ~closeSeen
      <4>1. Task
        BY <2>2, <3>2, CloseIsTask
      <4>2. ~Settled(Say(k)) /\ promise[Say(k)] # "none"
        BY <1>2, <1>4, <4>1 DEF Task, Due, SayOK
      <4> QED BY <1>2, <2>2, <3>2, <4>2, CloseSettles
    <3> QED BY <3>1, <3>2
  <2> QED BY <2>1, <2>2
<1>5. CASE Says(k)
  <2>1. chain = "done" /\ Asks(Say(k)) /\ UNCHANGED <<closeSeen, gone>>
    BY <1>5 DEF Says
  <2>2. promise'[Say(k)] # "none" /\ Moves /\ life' = life
    BY <1>2, <2>1, AsksMoves
  <2>3. ~gone' => promise'[Subscribe] = "kept"
    BY <1>1, <2>1 DEF ChainOK, Moves
  <2>4. ASSUME closeSeen' PROVE promise'[Say(k)] = "broken"
    <3>1. promise'[Say(k)] # "kept" /\ promise'[Say(k)] # "asked"
      <4>1. life = "over"
        BY <2>1, <2>4 DEF Silent
      <4>2. promise'[Say(k)] # "asked"
        BY <1>2, <2>2, <4>1 DEF Moves
      <4>3. promise'[Say(k)] # "kept"
        BY <1>2, <2>1 DEF Asks, Client!Asked, Client!Declined, PageShape
      <4> QED BY <4>2, <4>3
    <3>2. promise'[Say(k)] \in {"none", "asked", "kept", "broken"}
      BY <1>2, <2>2 DEF Moves
    <3> QED BY <2>2, <3>1, <3>2
  <2> QED BY <2>2, <2>3, <2>4
<1> QED BY <1>3, <1>4, <1>5

LEMMA EnabledNext ==
  ASSUME PageInv, [PageNext]_pageVars PROVE EnabledMeans'
<1> USE DEF PageInv
<1>1. Moves /\ Subscribe \in Requests /\ (gone => gone') /\ (closeSeen => closeSeen')
  BY PageMoves, RequestsApart, GoneStays
<1> SUFFICES ASSUME ~gone'
             PROVE  /\ enabled' => promise'[Subscribe] = "kept" /\ ~closeSeen'
                    /\ banner' = "online" => enabled'
  BY DEF EnabledMeans
<1>2. DOMAIN say = Ids1 /\ ~gone
  BY <1>1 DEF PageShape
<1>3. \/ CloseEvent
      \/ UNCHANGED <<panel, closeSeen>>
      \/ Report /\ UNCHANGED <<closeSeen>>
      \/ Connected(TRUE) /\ Subscribed
      \/ Connected(TRUE) /\ \E k \in Ids1 : Accepted(k)
  BY <1>2
     DEF PageNext, pageVars, Continuations, SessionThere, SessionFailed, Subscribed,
         NotSubscribed, OnReadyEnds, Types, Submits, Says, Accepted, NotAccepted,
         ReportsSend, Deliver, Acks, OnEventEnds, AckEnds, RowsTaken, ClientMoves, ClientFails,
         DestroyPage
<1>4. CASE CloseEvent
  BY <1>2, <1>4 DEF CloseEvent, Connected
<1>5. CASE UNCHANGED <<panel, closeSeen>>
  BY <1>1, <1>2, <1>5 DEF EnabledMeans, Moves, panel
<1>6. CASE Report /\ UNCHANGED <<closeSeen>>
  BY <1>1, <1>2, <1>6 DEF EnabledMeans, Moves, Report
<1>7. CASE Connected(TRUE) /\ Subscribed
  <2>1. promise[Subscribe] = "kept" /\ chain = "subscribing" /\ UNCHANGED closeSeen
    BY <1>7 DEF Subscribed
  <2> QED BY <1>1, <1>7, <2>1 DEF ChainOK, Connected, Moves
<1>8. CASE Connected(TRUE) /\ \E k \in Ids1 : Accepted(k)
  <2>1. PICK k \in Ids1 : Accepted(k)
    BY <1>8
  <2>2. say[k] = "saying" /\ promise[Say(k)] = "kept" /\ UNCHANGED closeSeen
    BY <2>1 DEF Accepted
  <2> QED BY <1>1, <1>2, <1>8, <2>2 DEF SayOK, Connected, Moves
<1> QED BY <1>3, <1>4, <1>5, <1>6, <1>7, <1>8

(* A step that asks for an acknowledgement has handled that delivery.      *)
LEMMA AckAsked ==
  ASSUME PageInv, [PageNext]_pageVars, NEW d \in Deliveries,
         promise[Ack(d)] = "none", promise'[Ack(d)] # "none"
  PROVE  d \notin Ephemeral /\ (handler[d] = "handling" \/ d \in hidden')
<1> USE DEF PageInv
<1>1. Ack(d) \in Requests
  BY RequestsApart
<1>2. ASSUME NEW p \in Requests, Asks(p) PROVE p = Ack(d)
  BY <1>1, <1>2, AsksMoves
<1>3. ~UNCHANGED promise /\ ~\A q \in Requests : promise[q] = "none" => promise'[q] = "none"
  BY <1>1
<1>4. \/ \E e \in Deliveries : Deliver(e) \/ OnEventEnds(e)
      \/ \E p \in Requests : Asks(p) /\ \A e \in Deliveries : Ack(e) # p
  <2>1. DOMAIN say = Ids1
    BY DEF PageShape
  <2>2. ~ClientMoves
    BY <1>3, ClientMovesOK DEF ClientMoves
  <2>3. ~ClientFails /\ ~CloseEvent /\ ~DestroyPage
    BY <1>3, OverMoves DEF ClientFails, CloseEvent, DestroyPage, clientSide
  <2>4. \/ \E e \in Deliveries : Deliver(e) \/ OnEventEnds(e)
        \/ Asks(Subscribe)
        \/ \E k \in Ids1 : Asks(Say(k))
    BY <1>3, <2>1, <2>2, <2>3
       DEF PageNext, pageVars, clientSide, Continuations, SessionThere, SessionFailed,
           Subscribed, NotSubscribed, OnReadyEnds, Types, Submits, Says, Accepted,
           NotAccepted, ReportsSend, AckEnds, RowsTaken
  <2> QED BY <2>4, RequestsApart
<1>5. PICK e \in Deliveries : Deliver(e) \/ OnEventEnds(e)
  BY <1>2, <1>4
<1>6. (e \notin Ephemeral /\ Asks(Ack(e))) \/ UNCHANGED promise
  BY <1>5 DEF Deliver, OnEventEnds, Acks, clientSide
<1>7. e = d /\ d \notin Ephemeral
  BY <1>2, <1>3, <1>6, RequestsApart
<1> QED BY <1>3, <1>5, <1>7 DEF Deliver, OnEventEnds, clientSide

LEMMA HiddenStays == ASSUME [PageNext]_pageVars PROVE hidden \subseteq hidden'
<1>1. hidden' = hidden \/ \E d \in Deliveries : hidden' = hidden \cup {d}
  BY DEF PageNext, pageVars, listed, Continuations, SessionThere, SessionFailed, Subscribed,
         NotSubscribed, OnReadyEnds, Types, Submits, Says, Accepted, NotAccepted,
         ReportsSend, Deliver, OnEventEnds, AckEnds, RowsTaken, ClientMoves, ClientFails,
         CloseEvent, DestroyPage
<1> QED BY <1>1

LEMMA AcksNext ==
  ASSUME PageInv, [PageNext]_pageVars PROVE HandledShown' /\ AcksShown'
<1> USE DEF PageInv
<1>1. Moves /\ (\A e : Known(e) => Known(e)') /\ hidden \subseteq hidden'
  BY PageMoves, ViewNext, HiddenStays DEF Listed
<1>2. ASSUME NEW d \in Deliveries, handler'[d] = "handling"
      PROVE  Known(EventOf[d])' \/ d \in hidden'
  <2>1. handler[d] = "handling" \/ Present(EventOf[d]) \/ d \in hidden'
    BY <1>2, HandlingBegins
  <2>2. CASE Present(EventOf[d])
    BY <2>2, PresentOK
  <2>3. CASE handler[d] = "handling"
    BY <1>1, <2>3 DEF HandledShown
  <2> QED BY <2>1, <2>2, <2>3
<1>3. ASSUME NEW d \in Deliveries, promise'[Ack(d)] # "none"
      PROVE  d \notin Ephemeral /\ (Known(EventOf[d])' \/ d \in hidden')
  <2>1. CASE promise[Ack(d)] # "none"
    BY <1>1, <2>1 DEF AcksShown
  <2>2. CASE promise[Ack(d)] = "none"
    BY <1>1, <1>3, <2>2, AckAsked DEF HandledShown
  <2> QED BY <2>1, <2>2
<1>4. HandledShown'
  BY <1>2 DEF HandledShown, Known, Shown
<1>5. AcksShown'
  BY <1>3 DEF AcksShown, Known, Shown, Ack
<1> QED BY <1>4, <1>5

LEMMA PageInvNext == PageInv /\ [PageNext]_pageVars => PageInv'
  BY ShapeNext, SilentNext, ChainNext, SayNext, EnabledNext, ViewNext, AcksNext DEF PageInv, Listed

LEMMA PageInitOK == PageInit => PageInv
<1> SUFFICES ASSUME PageInit PROVE PageInv
  OBVIOUS
<1>1. /\ life = "connecting" /\ promise = [p \in Requests |-> "none"]
      /\ \A d \in Deliveries : Ack(d) \in Requests
  BY RequestsApart DEF PageInit, Client!PromiseInit
<1>2. PageShape
  BY <1>1, PageConstants DEF PageInit, PageShape, Ids1
<1>3. Silent /\ AcksShown
  BY <1>1 DEF PageInit, Silent, AcksShown
<1> QED
  BY <1>2, <1>3 DEF PageInit, PageInv, ChainOK, SayOK, EnabledMeans, HandledShown, NoneTwice, Ids1

(* A page can be written in only while its subscription is accepted and no *)
(* close event has come, and shows "online" only then.  It acknowledges a  *)
(* delivery that brings a message only after it gave that event its one    *)
(* row, which then stays until another row needs the room or the           *)
(* application removes it (mount.js, timeline.js).                         *)
THEOREM PageIsSafe == PageSpec => []PageSafe
<1>1. PageInit /\ [][PageNext]_pageVars => []PageInv
  BY PageInitOK, PageInvNext, PTL
<1> QED BY <1>1, PageInvSafe, PTL DEF PageSpec

-----------------------------------------------------------------------------
(* The page binds one composer and drives it by its own events only.       *)
LEMMA PageComposes == PageInv /\ [PageNext]_pageVars /\ ComposerInv => [ComposerNext]_composerVars
<1> SUFFICES ASSUME PageInv, [PageNext]_pageVars, ComposerInv PROVE [ComposerNext]_composerVars
  OBVIOUS
<1>1. DOMAIN say = Ids1 /\ Ids1 \subseteq DOMAIN sends
  <2>1. DOMAIN sends = 1 .. MaxSends /\ DOMAIN say = Ids1
    BY DEF ComposerInv, ComposerTypeOK, PageInv, PageShape
  <2> QED BY <2>1, PageConstants, ComposerConstants DEF Ids1
<1>2. \/ UNCHANGED composerVars
      \/ \E t \in AnyText : Input(t) \/ Assign(t)
      \/ \E k \in Ids1 : Submit(k) \/ Reject(k) \/ Reported(k) \/ Resolve(k, TRUE)
      \/ Destroy
  BY <1>1
     DEF PageNext, pageVars, Continuations, SessionThere, SessionFailed, Subscribed,
         NotSubscribed, OnReadyEnds, Types, Submits, Says, Accepted, NotAccepted,
         ReportsSend, Deliver, Acks, OnEventEnds, AckEnds, RowsTaken, ClientMoves, ClientFails,
         CloseEvent, DestroyPage
<1> QED BY <1>1, <1>2 DEF ComposerNext

(* In a panel, too, where answers come whenever the socket brings them and *)
(* the page may be destroyed meanwhile, the form waits for one call at     *)
(* most and a draft is cleared only as accepted (mount.js:47-62).          *)
THEOREM PageKeepsItsForm == PageSpec => []OneSend /\ DraftKept
<1>1. PageInit => PageInv /\ ComposerInv
  BY PageInitOK, ComposerInitOK DEF PageInit
<1>2. /\ PageInv /\ ComposerInv /\ [PageNext]_pageVars => PageInv' /\ ComposerInv'
      /\ PageInv /\ ComposerInv /\ [PageNext]_pageVars => [DraftLeaves]_composerVars
  BY PageInvNext, PageComposes, ComposerInvNext, DraftStep
<1>3. PageInit /\ [][PageNext]_pageVars => [](PageInv /\ ComposerInv)
  BY <1>1, <1>2, PTL
<1> QED BY <1>2, <1>3, OneUnder, DraftIs, PTL DEF PageSpec

-----------------------------------------------------------------------------
-----------------------------------------------------------------------------
(***************************************************************************)
(* The indexed message list: three copies of one list of rows.             *)
(***************************************************************************)
Row0     == [id : RowIds, nonce : Nonces \cup {NoNonce}]
Index(d) == [i \in DOMAIN d |-> Entry(d[i])]
On(d)    == {d[i] : i \in DOMAIN d}
OneId(d) == \A i, j \in DOMAIN d : d[i].id = d[j].id => i = j

(* The nonces that lead to the rows of D.                                  *)
Linked(n, D) ==
  /\ n \in [Nonces -> RowIds \cup {NoNonce}]
  /\ \A x \in Nonces, id \in RowIds : n[x] = id <=> R!Row(id, x) \in D

Exact(l) ==
  /\ l.dom \in Seq(Row0) /\ l.messages = Index(l.dom)
  /\ OneId(l.dom) /\ Linked(l.nonces, On(l.dom))

LEMMA RowIs ==
  ASSUME NEW r \in Row0
  PROVE  /\ r.id \in RowIds /\ (r.nonce = NoNonce \/ r.nonce \in Nonces)
         /\ r = R!Row(r.id, r.nonce)
  BY DEF Row0, R!Row

LEMMA RowFields ==
  ASSUME NEW id \in RowIds, NEW x \in Nonces \cup {NoNonce}
  PROVE  R!Row(id, x) \in Row0 /\ R!Row(id, x).id = id /\ R!Row(id, x).nonce = x
  BY DEF Row0, R!Row

LEMMA RowsAre ==
  ASSUME NEW d \in Seq(Row0)
  PROVE  /\ Len(d) \in Nat /\ DOMAIN d = 1 .. Len(d) /\ On(d) \subseteq Row0
         /\ \A i \in DOMAIN d : d[i] \in Row0 /\ d[i].id \in RowIds
<1>1. Len(d) \in Nat /\ DOMAIN d = 1 .. Len(d) /\ \A i \in DOMAIN d : d[i] \in Row0
  OBVIOUS
<1>2. \A i \in DOMAIN d : d[i].id \in RowIds
  BY <1>1, RowIs
<1>3. On(d) \subseteq Row0
  BY <1>1 DEF On
<1> QED BY <1>1, <1>2, <1>3

LEMMA OneRow ==
  ASSUME NEW d, OneId(d), NEW r \in On(d), NEW q \in On(d), r.id = q.id
  PROVE  r = q
  BY DEF OneId, On

LEMMA IndexIs ==
  ASSUME NEW d \in Seq(Row0)
  PROVE  /\ Len(Index(d)) = Len(d) /\ DOMAIN Index(d) = DOMAIN d
         /\ Index(d) \in Seq([key : RowIds, node : Row0])
         /\ \A i \in DOMAIN d : /\ Index(d)[i] = Entry(d[i])
                                /\ Index(d)[i].key = d[i].id /\ Index(d)[i].node = d[i]
<1>1. Len(d) \in Nat /\ DOMAIN d = 1 .. Len(d) /\ \A i \in DOMAIN d : d[i] \in Row0 /\ d[i].id \in RowIds
  BY RowsAre
<1>2. /\ DOMAIN Index(d) = 1 .. Len(d)
      /\ \A i \in DOMAIN d : /\ Index(d)[i] = Entry(d[i]) /\ Entry(d[i]) \in [key : RowIds, node : Row0]
                             /\ Index(d)[i].key = d[i].id /\ Index(d)[i].node = d[i]
  BY <1>1 DEF Index, Entry
<1>3. Index(d) = [i \in 1 .. Len(d) |-> Entry(d[i])]
  BY <1>1 DEF Index
<1> QED BY <1>1, <1>2, <1>3

(* Where a message is found.                                               *)
LEMMA SlotIs ==
  ASSUME NEW d \in Seq(Row0), OneId(d), NEW p \in DOMAIN d
  PROVE  Slot(Index(d), d[p].id) = p /\ Value(Index(d), d[p].id) = d[p]
<1> DEFINE I == {i \in 1 .. Len(Index(d)) : Index(d)[i].key = d[p].id}
<1>1. Slot(Index(d), d[p].id) = IF I # {} THEN Min(I) ELSE 0
  BY Zenon DEF Slot, SelectInSeq
<1>2. I = {p} /\ p \in Nat
  BY IndexIs, RowsAre DEF OneId
<1>3. Slot(Index(d), d[p].id) = p
  BY <1>1, <1>2, LeastOne
<1> QED BY <1>3, IndexIs DEF Value

LEMMA ChildIs ==
  ASSUME NEW d \in Seq(Row0), OneId(d), NEW p \in DOMAIN d PROVE Child(d, d[p]) = p
<1> DEFINE I == {i \in 1 .. Len(d) : d[i] = d[p]}
<1>1. Child(d, d[p]) = IF I # {} THEN Min(I) ELSE 0
  BY Zenon DEF Child, SelectInSeq
<1>2. I = {p} /\ p \in Nat
  BY RowsAre DEF OneId
<1> QED BY <1>1, <1>2, LeastOne

(* What the rows are after one has gone, come or been replaced.            *)
LEMMA RowsLess ==
  ASSUME NEW d \in Seq(Row0), OneId(d), NEW p \in DOMAIN d
  PROVE  /\ RemoveAt(d, p) \in Seq(Row0) /\ OneId(RemoveAt(d, p))
         /\ Len(RemoveAt(d, p)) = Len(d) - 1
         /\ On(RemoveAt(d, p)) = On(d) \ {d[p]}
         /\ RemoveAt(Index(d), p) = Index(RemoveAt(d, p))
<1> DEFINE r == RemoveAt(d, p)
           E == [key : RowIds, node : Row0]
<1>1. /\ r \in Seq(Row0) /\ Len(r) = Len(d) - 1 /\ DOMAIN r = 1 .. Len(d) - 1
      /\ \A i \in 1 .. Len(d) - 1 : r[i] = IF i < p THEN d[i] ELSE d[i + 1]
  BY RemoveOne
<1>2. Len(d) \in Nat /\ DOMAIN d = 1 .. Len(d) /\ p \in Nat /\ 1 <= p /\ p <= Len(d)
  BY RowsAre
<1> HIDE DEF r
<1>3. OneId(r)
  <2> SUFFICES ASSUME NEW i \in DOMAIN r, NEW j \in DOMAIN r, r[i].id = r[j].id PROVE i = j
    BY DEF OneId
  <2> DEFINE a == IF i < p THEN i ELSE i + 1
             b == IF j < p THEN j ELSE j + 1
  <2>1. a \in DOMAIN d /\ b \in DOMAIN d /\ r[i] = d[a] /\ r[j] = d[b]
    BY <1>1, <1>2
  <2>2. a = b
    BY <2>1 DEF OneId
  <2> QED BY <1>1, <1>2, <2>2
<1>4. On(r) = On(d) \ {d[p]}
  <2>1. ASSUME NEW x \in On(r) PROVE x \in On(d) /\ x # d[p]
    <3>1. PICK i \in DOMAIN r : x = r[i]
      BY DEF On
    <3> DEFINE a == IF i < p THEN i ELSE i + 1
    <3>2. a \in DOMAIN d /\ x = d[a] /\ a # p
      BY <1>1, <1>2, <3>1
    <3> QED BY <3>2 DEF On, OneId
  <2>2. ASSUME NEW x \in On(d), x # d[p] PROVE x \in On(r)
    <3>1. PICK a \in DOMAIN d : x = d[a]
      BY DEF On
    <3>2. a # p
      BY <2>2, <3>1
    <3> DEFINE i == IF a < p THEN a ELSE a - 1
    <3>3. i \in DOMAIN r /\ r[i] = d[a]
      BY <1>1, <1>2, <3>2
    <3> QED BY <3>1, <3>3 DEF On
  <2> QED BY <2>1, <2>2
<1>5. RemoveAt(Index(d), p) = Index(r)
  <2>1. /\ Index(d) \in Seq(E) /\ p \in DOMAIN Index(d) /\ Len(Index(d)) = Len(d)
        /\ \A i \in DOMAIN d : Index(d)[i] = Entry(d[i])
    BY IndexIs
  <2>2. /\ RemoveAt(Index(d), p) \in Seq(E) /\ DOMAIN RemoveAt(Index(d), p) = 1 .. Len(d) - 1
        /\ \A i \in 1 .. Len(d) - 1 :
             RemoveAt(Index(d), p)[i] = IF i < p THEN Index(d)[i] ELSE Index(d)[i + 1]
    BY <2>1, RemoveOne
  <2>3. /\ Index(r) \in Seq(E) /\ DOMAIN Index(r) = 1 .. Len(d) - 1
        /\ \A i \in 1 .. Len(d) - 1 : Index(r)[i] = Entry(r[i])
    BY <1>1, IndexIs
  <2>4. ASSUME NEW i \in 1 .. Len(d) - 1 PROVE RemoveAt(Index(d), p)[i] = Index(r)[i]
    <3>1. CASE i < p
      <4>1. i \in DOMAIN d
        BY <1>2
      <4> QED BY <1>1, <2>1, <2>2, <2>3, <3>1, <4>1
    <3>2. CASE ~(i < p)
      <4>1. i + 1 \in DOMAIN d
        BY <1>2
      <4> QED BY <1>1, <2>1, <2>2, <2>3, <3>2, <4>1
    <3> QED BY <3>1, <3>2
  <2> DEFINE u == RemoveAt(Index(d), p)
             v == Index(r)
  <2>5. u \in Seq(E) /\ v \in Seq(E) /\ DOMAIN u = DOMAIN v /\ \A i \in DOMAIN u : u[i] = v[i]
    BY <2>2, <2>3, <2>4
  <2> HIDE DEF u, v, E
  <2>6. u = v
    <3>1. u = [i \in 1 .. Len(u) |-> u[i]] /\ v = [i \in 1 .. Len(v) |-> v[i]]
          /\ DOMAIN u = 1 .. Len(u) /\ DOMAIN v = 1 .. Len(v)
      BY <2>5
    <3> QED BY <2>5, <3>1
  <2> QED BY <2>6 DEF u, v
<1> QED BY <1>1, <1>3, <1>4, <1>5 DEF r

LEMMA RowsMore ==
  ASSUME NEW d \in Seq(Row0), OneId(d), NEW r \in Row0, \A q \in On(d) : q.id # r.id
  PROVE  /\ Append(d, r) \in Seq(Row0) /\ OneId(Append(d, r)) /\ Len(Append(d, r)) = Len(d) + 1
         /\ On(Append(d, r)) = On(d) \cup {r}
         /\ Append(Index(d), Entry(r)) = Index(Append(d, r))
<1> DEFINE a == Append(d, r)
<1>1. /\ Len(d) \in Nat /\ DOMAIN d = 1 .. Len(d) /\ a \in Seq(Row0) /\ Len(a) = Len(d) + 1
      /\ DOMAIN a = 1 .. Len(d) + 1 /\ a[Len(d) + 1] = r /\ \A i \in 1 .. Len(d) : a[i] = d[i]
  BY RowsAre
<1> HIDE DEF a
<1>2. \A i \in DOMAIN d : d[i].id # r.id
  BY DEF On
<1>3. OneId(a)
  <2> SUFFICES ASSUME NEW i \in DOMAIN a, NEW j \in DOMAIN a, a[i].id = a[j].id PROVE i = j
    BY DEF OneId
  <2>1. (i \in DOMAIN d \/ i = Len(d) + 1) /\ (j \in DOMAIN d \/ j = Len(d) + 1)
    BY <1>1
  <2> QED BY <1>1, <1>2, <2>1 DEF OneId
<1>4. On(a) = On(d) \cup {r}
  <2>1. ASSUME NEW x \in On(a) PROVE x \in On(d) \cup {r}
    <3>1. PICK i \in DOMAIN a : x = a[i]
      BY DEF On
    <3>2. i \in DOMAIN d \/ i = Len(d) + 1
      BY <1>1
    <3> QED BY <1>1, <3>1, <3>2 DEF On
  <2>2. ASSUME NEW x \in On(d) PROVE x \in On(a)
    <3>1. PICK i \in DOMAIN d : x = d[i]
      BY DEF On
    <3>2. i \in DOMAIN a /\ a[i] = x
      BY <1>1, <3>1
    <3> QED BY <3>2 DEF On
  <2>3. r \in On(a)
    <3>1. Len(d) + 1 \in DOMAIN a
      BY <1>1
    <3> QED BY <1>1, <3>1 DEF On
  <2> QED BY <2>1, <2>2, <2>3
<1>5. Append(Index(d), Entry(r)) = Index(a)
  <2> DEFINE u == Append(Index(d), Entry(r))
             v == Index(a)
             E == [key : RowIds, node : Row0]
  <2>1. /\ Index(d) \in Seq(E) /\ Len(Index(d)) = Len(d)
        /\ \A i \in DOMAIN d : Index(d)[i] = Entry(d[i])
    BY IndexIs
  <2>2. Entry(r) \in E
    BY RowIs DEF Entry
  <2>3. /\ u \in Seq(E) /\ Len(u) = Len(d) + 1 /\ DOMAIN u = 1 .. Len(d) + 1
        /\ u[Len(d) + 1] = Entry(r) /\ \A i \in 1 .. Len(d) : u[i] = Index(d)[i]
    <3> HIDE DEF E
    <3> QED BY <1>1, <2>1, <2>2
  <2>4. v \in Seq(E) /\ DOMAIN v = 1 .. Len(d) + 1 /\ \A i \in DOMAIN v : v[i] = Entry(a[i])
    BY <1>1, IndexIs
  <2>5. \A i \in 1 .. Len(d) + 1 : u[i] = v[i]
    <3> SUFFICES ASSUME NEW i \in 1 .. Len(d) + 1 PROVE u[i] = v[i]
      OBVIOUS
    <3>1. i \in DOMAIN d \/ i = Len(d) + 1
      BY <1>1
    <3> HIDE DEF u, v
    <3> QED BY <1>1, <2>1, <2>3, <2>4, <3>1
  <2> HIDE DEF u, v, E
  <2>6. u = v
    <3>1. u = [i \in 1 .. Len(u) |-> u[i]] /\ v = [i \in 1 .. Len(v) |-> v[i]]
          /\ DOMAIN u = 1 .. Len(u) /\ DOMAIN v = 1 .. Len(v)
      BY <2>3, <2>4
    <3> QED BY <2>3, <2>4, <2>5, <3>1
  <2> QED BY <2>6 DEF u, v
<1> QED BY <1>1, <1>3, <1>4, <1>5 DEF a

LEMMA RowsSwap ==
  ASSUME NEW d \in Seq(Row0), OneId(d), NEW p \in DOMAIN d, NEW r \in Row0,
         \A q \in On(d) \ {d[p]} : q.id # r.id
  PROVE  /\ [d EXCEPT ![p] = r] \in Seq(Row0) /\ OneId([d EXCEPT ![p] = r])
         /\ Len([d EXCEPT ![p] = r]) = Len(d)
         /\ On([d EXCEPT ![p] = r]) = (On(d) \ {d[p]}) \cup {r}
         /\ [Index(d) EXCEPT ![p] = Entry(r)] = Index([d EXCEPT ![p] = r])
<1> DEFINE a == [d EXCEPT ![p] = r]
<1>1. /\ Len(d) \in Nat /\ DOMAIN d = 1 .. Len(d) /\ a \in Seq(Row0) /\ Len(a) = Len(d)
      /\ DOMAIN a = DOMAIN d /\ a[p] = r /\ \A i \in DOMAIN d : i # p => a[i] = d[i]
  BY RowsAre
<1>2. [Index(d) EXCEPT ![p] = Entry(r)] = Index(a)
  BY DEF Index
<1> HIDE DEF a
<1>3. \A i \in DOMAIN d : i # p => d[i].id # r.id /\ d[i] # d[p]
  BY DEF On, OneId
<1>4. OneId(a)
  <2> SUFFICES ASSUME NEW i \in DOMAIN a, NEW j \in DOMAIN a, a[i].id = a[j].id PROVE i = j
    BY DEF OneId
  <2> QED BY <1>1, <1>3 DEF OneId
<1>5. On(a) = (On(d) \ {d[p]}) \cup {r}
  <2>1. ASSUME NEW x \in On(a) PROVE x \in (On(d) \ {d[p]}) \cup {r}
    <3>1. PICK i \in DOMAIN a : x = a[i]
      BY DEF On
    <3> QED BY <1>1, <1>3, <3>1 DEF On
  <2>2. ASSUME NEW x \in On(d), x # d[p] PROVE x \in On(a)
    <3>1. PICK i \in DOMAIN d : x = d[i] /\ i # p
      BY <2>2 DEF On
    <3> QED BY <1>1, <3>1 DEF On
  <2>3. r \in On(a)
    BY <1>1 DEF On
  <2> QED BY <2>1, <2>2, <2>3
<1> QED BY <1>1, <1>2, <1>4, <1>5 DEF a

-----------------------------------------------------------------------------
(* What the nonces lead to when a row goes and when one comes.             *)
LEMMA LinkLost ==
  ASSUME NEW n, NEW D, D \subseteq Row0, Linked(n, D), NEW r \in D,
         \A q \in D : q.id = r.id => q = r
  PROVE  Linked(Forget(n, r.id, r), D \ {r})
<1>1. r.id \in RowIds /\ (r.nonce = NoNonce \/ r.nonce \in Nonces) /\ r = R!Row(r.id, r.nonce)
  BY RowIs
<1>2. /\ n \in [Nonces -> RowIds \cup {NoNonce}]
      /\ \A x \in Nonces, id \in RowIds : n[x] = id <=> R!Row(id, x) \in D
  BY DEF Linked
<1>3. CASE r.nonce = NoNonce
  <2>1. Forget(n, r.id, r) = n
    BY <1>3 DEF Forget
  <2>2. \A x \in Nonces, id \in RowIds : R!Row(id, x) # r
    BY <1>3, RowFields, TimelineConstants
  <2> QED BY <1>2, <2>1, <2>2 DEF Linked
<1>4. CASE r.nonce # NoNonce
  <2>1. n[r.nonce] = r.id /\ r.nonce \in Nonces
    BY <1>1, <1>2, <1>4
  <2>2. Forget(n, r.id, r) = [n EXCEPT ![r.nonce] = NoNonce]
    BY <1>4, <2>1 DEF Forget
  <2> DEFINE m == [n EXCEPT ![r.nonce] = NoNonce]
  <2>3. m \in [Nonces -> RowIds \cup {NoNonce}]
    BY <1>2
  <2>4. ASSUME NEW x \in Nonces, NEW id \in RowIds
        PROVE  m[x] = id <=> R!Row(id, x) \in D \ {r}
    <3>1. R!Row(id, x).id = id /\ R!Row(id, x).nonce = x
      BY RowFields
    <3>2. CASE x = r.nonce
      <4>1. m[x] = NoNonce /\ id # NoNonce
        BY <1>2, <3>2, TimelineConstants
      <4>2. R!Row(id, x) \in D => id = r.id
        BY <1>2, <2>1, <3>2
      <4>3. id = r.id => R!Row(id, x) = r
        BY <1>1, <3>2
      <4> QED BY <4>1, <4>2, <4>3
    <3>3. CASE x # r.nonce
      <4>1. m[x] = n[x]
        BY <1>2, <3>3
      <4> QED BY <1>2, <3>1, <3>3, <4>1
    <3> QED BY <3>2, <3>3
  <2> HIDE DEF m
  <2> QED BY <2>2, <2>3, <2>4 DEF Linked, m
<1> QED BY <1>3, <1>4

LEMMA LinkMade ==
  ASSUME NEW n, NEW D, Linked(n, D), NEW r \in Row0,
         r.nonce = NoNonce \/ n[r.nonce] = NoNonce
  PROVE  Linked(Remember(n, r.nonce, r.id), D \cup {r})
<1>1. r.id \in RowIds /\ (r.nonce = NoNonce \/ r.nonce \in Nonces) /\ r = R!Row(r.id, r.nonce)
  BY RowIs
<1>2. /\ n \in [Nonces -> RowIds \cup {NoNonce}]
      /\ \A x \in Nonces, id \in RowIds : n[x] = id <=> R!Row(id, x) \in D
  BY DEF Linked
<1>3. CASE r.nonce = NoNonce
  <2>1. Remember(n, r.nonce, r.id) = n
    BY <1>3 DEF Remember
  <2>2. \A x \in Nonces, id \in RowIds : R!Row(id, x) # r
    BY <1>3, RowFields, TimelineConstants
  <2> QED BY <1>2, <2>1, <2>2 DEF Linked
<1>4. CASE r.nonce # NoNonce
  <2> DEFINE m == [n EXCEPT ![r.nonce] = r.id]
  <2>1. Remember(n, r.nonce, r.id) = m /\ r.nonce \in Nonces /\ n[r.nonce] = NoNonce
    BY <1>1, <1>4 DEF Remember
  <2>2. m \in [Nonces -> RowIds \cup {NoNonce}]
    BY <1>1, <1>2
  <2>3. ASSUME NEW x \in Nonces, NEW id \in RowIds
        PROVE  m[x] = id <=> R!Row(id, x) \in D \cup {r}
    <3>1. R!Row(id, x).id = id /\ R!Row(id, x).nonce = x
      BY RowFields
    <3>2. CASE x = r.nonce
      <4>1. m[x] = r.id /\ id # NoNonce
        BY <1>2, <3>2, TimelineConstants
      <4>2. R!Row(id, x) \notin D
        BY <1>2, <2>1, <3>2, <4>1
      <4>3. R!Row(id, x) = r <=> id = r.id
        BY <1>1, <3>1, <3>2
      <4> QED BY <4>1, <4>2, <4>3
    <3>3. CASE x # r.nonce
      <4>1. m[x] = n[x]
        BY <1>2, <3>3
      <4>2. R!Row(id, x) # r
        BY <3>1, <3>3
      <4> QED BY <1>2, <4>1, <4>2
    <3> QED BY <3>2, <3>3
  <2> HIDE DEF m
  <2> QED BY <2>1, <2>2, <2>3 DEF Linked
<1> QED BY <1>3, <1>4

(* A nonce leads to the one row that has it.                               *)
LEMMA LinkIs ==
  ASSUME NEW d \in Seq(Row0), NEW n, Linked(n, On(d)), NEW x \in Nonces
  PROVE  \/ n[x] = NoNonce /\ \A i \in DOMAIN d : d[i].nonce # x
         \/ \E p \in DOMAIN d : /\ n[x] = d[p].id /\ d[p].nonce = x
                                /\ \A i \in DOMAIN d : d[i].nonce = x => d[i].id = d[p].id
<1>1. /\ n[x] \in RowIds \cup {NoNonce}
      /\ \A id \in RowIds : n[x] = id <=> R!Row(id, x) \in On(d)
  BY DEF Linked
<1>2. \A i \in DOMAIN d : d[i] \in Row0 /\ d[i].id \in RowIds /\ d[i] \in On(d)
  BY RowsAre DEF On
<1>3. ASSUME NEW i \in DOMAIN d, d[i].nonce = x PROVE n[x] = d[i].id
  BY <1>1, <1>2, <1>3, RowIs
<1>4. CASE n[x] = NoNonce
  BY <1>2, <1>3, <1>4, TimelineConstants
<1>5. CASE n[x] # NoNonce
  <2>1. n[x] \in RowIds /\ R!Row(n[x], x) \in On(d)
    BY <1>1, <1>5
  <2>2. PICK p \in DOMAIN d : d[p] = R!Row(n[x], x)
    BY <2>1 DEF On
  <2>3. d[p].id = n[x] /\ d[p].nonce = x
    BY <2>1, <2>2, RowFields
  <2> QED BY <1>3, <2>3
<1> QED BY <1>4, <1>5

-----------------------------------------------------------------------------
(* The operations on the three copies.                                     *)
LEMMA ListIs ==
  ASSUME NEW m, NEW n, NEW d
  PROVE  LET l == [messages |-> m, nonces |-> n, dom |-> d]
         IN /\ l.messages = m /\ l.nonces = n /\ l.dom = d
            /\ Exact(l) <=> /\ d \in Seq(Row0) /\ m = Index(d)
                            /\ OneId(d) /\ Linked(n, On(d))
  BY DEF Exact

LEMMA ExactOne ==
  ASSUME NEW l, Exact(l), NEW p \in DOMAIN l.dom
  PROVE  /\ l.dom[p] \in On(l.dom) /\ l.dom[p] \in Row0 /\ On(l.dom) \subseteq Row0
         /\ \A q \in On(l.dom) : q.id = l.dom[p].id => q = l.dom[p]
  BY OneRow, RowsAre DEF Exact, On

LEMMA EvictOK ==
  ASSUME NEW l, Exact(l), NEW p \in DOMAIN l.dom
  PROVE  LET e == Evict(l, l.dom[p].id)
         IN /\ Exact(e) /\ e.dom = RemoveAt(l.dom, p)
            /\ e.nonces = Forget(l.nonces, l.dom[p].id, l.dom[p])
            /\ On(e.dom) = On(l.dom) \ {l.dom[p]} /\ Len(e.dom) = Len(l.dom) - 1
<1> DEFINE d == l.dom
           r == l.dom[p]
           e == [messages |-> RemoveAt(Index(d), p), nonces |-> Forget(l.nonces, r.id, r),
                 dom |-> RemoveAt(d, p)]
<1>1. d \in Seq(Row0) /\ OneId(d) /\ l.messages = Index(d) /\ Linked(l.nonces, On(d))
  BY DEF Exact
<1>2. Slot(l.messages, r.id) = p /\ Value(l.messages, r.id) = r /\ Child(d, r) = p
  BY <1>1, SlotIs, ChildIs
<1>3. Evict(l, r.id) = e
  BY <1>1, <1>2 DEF Evict, Hide
<1>4. /\ RemoveAt(d, p) \in Seq(Row0) /\ OneId(RemoveAt(d, p))
      /\ Len(RemoveAt(d, p)) = Len(d) - 1 /\ On(RemoveAt(d, p)) = On(d) \ {r}
      /\ RemoveAt(Index(d), p) = Index(RemoveAt(d, p))
  BY <1>1, RowsLess
<1>5. Linked(Forget(l.nonces, r.id, r), On(d) \ {r})
  BY <1>1, ExactOne, LinkLost
<1>6. e.dom = RemoveAt(d, p) /\ e.messages = RemoveAt(Index(d), p) /\ e.nonces = Forget(l.nonces, r.id, r)
  OBVIOUS
<1>7. Exact(e)
  <2> HIDE DEF e, d, r
  <2> QED BY ONLY <1>4, <1>5, <1>6 DEF Exact
<1> HIDE DEF e
<1> QED BY <1>3, <1>4, <1>6, <1>7

LEMMA AddOK ==
  ASSUME NEW l, Exact(l), NEW r \in Row0, \A q \in On(l.dom) : q.id # r.id,
         r.nonce = NoNonce \/ l.nonces[r.nonce] = NoNonce
  PROVE  Exact(Added(l, r)) /\ Added(l, r).dom = Append(l.dom, r)
<1> DEFINE d == l.dom
           e == Added(l, r)
<1>1. d \in Seq(Row0) /\ OneId(d) /\ l.messages = Index(d) /\ Linked(l.nonces, On(d))
  BY DEF Exact
<1>2. /\ Append(d, r) \in Seq(Row0) /\ OneId(Append(d, r)) /\ On(Append(d, r)) = On(d) \cup {r}
      /\ Append(Index(d), Entry(r)) = Index(Append(d, r))
  BY <1>1, RowsMore
<1>3. Linked(Remember(l.nonces, r.nonce, r.id), On(d) \cup {r})
  BY <1>1, LinkMade
<1>4. /\ e.dom = Append(d, r) /\ e.messages = Append(Index(d), Entry(r))
      /\ e.nonces = Remember(l.nonces, r.nonce, r.id)
  BY <1>1 DEF Added
<1> HIDE DEF e, d
<1>5. Exact(e)
  BY ONLY <1>2, <1>3, <1>4 DEF Exact
<1> QED BY <1>4, <1>5 DEF e, d

LEMMA ReplaceOK ==
  ASSUME NEW l, Exact(l), NEW p \in DOMAIN l.dom, NEW r \in Row0,
         \A q \in On(l.dom) \ {l.dom[p]} : q.id # r.id,
         r.nonce # NoNonce => \A q \in On(l.dom) \ {l.dom[p]} : q.nonce # r.nonce
  PROVE  LET old == l.dom[p]
             e   == Replaced(l, old.id, r, Unlinked(l.nonces, old.id, old, r.id))
         IN Exact(e) /\ e.dom = [l.dom EXCEPT ![p] = r]
<1> DEFINE d   == l.dom
           old == l.dom[p]
           n   == Forget(l.nonces, old.id, old)
           e   == Replaced(l, old.id, r, n)
<1>1. d \in Seq(Row0) /\ OneId(d) /\ l.messages = Index(d) /\ Linked(l.nonces, On(d))
  BY DEF Exact
<1>2. Slot(l.messages, old.id) = p /\ Value(l.messages, old.id) = old /\ Child(d, old) = p
  BY <1>1, SlotIs, ChildIs
<1>3. Unlinked(l.nonces, old.id, old, r.id) = n
  <2>1. old \in On(d) /\ old \in Row0
    BY ExactOne
  <2>2. old.nonce # NoNonce => l.nonces[old.nonce] = old.id
    BY <1>1, <2>1, RowIs DEF Linked
  <2> QED BY <2>2 DEF Unlinked, Forget
<1>4. /\ [d EXCEPT ![p] = r] \in Seq(Row0) /\ OneId([d EXCEPT ![p] = r])
      /\ On([d EXCEPT ![p] = r]) = (On(d) \ {old}) \cup {r}
      /\ [Index(d) EXCEPT ![p] = Entry(r)] = Index([d EXCEPT ![p] = r])
  BY <1>1, RowsSwap
<1>5. Linked(n, On(d) \ {old})
  BY <1>1, ExactOne, LinkLost
<1>6. r.nonce = NoNonce \/ n[r.nonce] = NoNonce
  <2> SUFFICES ASSUME r.nonce # NoNonce, n[r.nonce] # NoNonce PROVE FALSE
    OBVIOUS
  <2>1. r.nonce \in Nonces
    BY RowIs
  <2>2. n[r.nonce] \in RowIds
    BY <1>5, <2>1 DEF Linked
  <2>3. R!Row(n[r.nonce], r.nonce) \in On(d) \ {old}
    BY <1>5, <2>1, <2>2 DEF Linked
  <2>4. R!Row(n[r.nonce], r.nonce).nonce = r.nonce
    BY <2>1, <2>2, RowFields
  <2> QED BY <2>3, <2>4
<1>7. Linked(Remember(n, r.nonce, r.id), (On(d) \ {old}) \cup {r})
  BY <1>5, <1>6, LinkMade
<1>8. /\ e.dom = [d EXCEPT ![p] = r] /\ e.messages = [Index(d) EXCEPT ![p] = Entry(r)]
      /\ e.nonces = Remember(n, r.nonce, r.id)
  BY <1>1, <1>2 DEF Replaced
<1>9. Exact(e)
  <2> HIDE DEF e, d, old, n
  <2> QED BY ONLY <1>4, <1>7, <1>8 DEF Exact
<1> HIDE DEF n
<1> QED BY <1>3, <1>8, <1>9

(* trim, after one message more at most, as the list without an index.     *)
Evictions(f, l, over) ==
  f = [k \in 0 .. over |-> IF k = 0 THEN l ELSE Evict(f[k - 1], f[k - 1].messages[1].key)]

LEMMA TrimOK ==
  ASSUME NEW l, Exact(l), Len(l.dom) <= MaxMessages + 1
  PROVE  /\ Exact(Trim(l)) /\ Trim(l).dom = R!TrimRows(l.dom)
         /\ Len(Trim(l).dom) <= MaxMessages
<1> DEFINE over == IF Len(l.messages) > MaxMessages THEN Len(l.messages) - MaxMessages ELSE 0
           left == CHOOSE f : Evictions(f, l, over)
<1>1. Trim(l) = left[over]
  BY DEF Trim, Evictions
<1>2. /\ MaxMessages \in Nat \ {0} /\ Len(l.dom) \in Nat /\ Len(l.messages) = Len(l.dom)
      /\ l.dom \in Seq(Row0) /\ l.messages = Index(l.dom) /\ DOMAIN l.dom = 1 .. Len(l.dom)
  BY RowsAre, IndexIs, TimelineConstants DEF Exact
<1> HIDE DEF left
<1>3. CASE over = 0
  <2> DEFINE g == [k \in 0 .. 0 |-> l]
  <2>1. Evictions(g, l, 0)
    BY DEF Evictions
  <2>2. Evictions(left, l, over)
    <3> HIDE DEF g, over
    <3> QED BY <1>3, <2>1 DEF left
  <2>3. left[0] = l
    <3> HIDE DEF over
    <3> QED BY <1>3, <2>2 DEF Evictions
  <2>4. Len(l.dom) <= MaxMessages
    BY <1>2, <1>3
  <2>5. R!TrimRows(l.dom) = l.dom
    BY <1>2, <2>4 DEF R!TrimRows
  <2> QED
    BY <1>1, <1>3, <2>3, <2>4, <2>5
<1>4. CASE over # 0
  <2>1. over = 1 /\ Len(l.dom) = MaxMessages + 1 /\ 1 \in DOMAIN l.dom
    BY <1>2, <1>4
  <2>2. l.messages[1].key = l.dom[1].id
    BY <1>2, <2>1, IndexIs
  <2> DEFINE e == Evict(l, l.messages[1].key)
             g == [k \in 0 .. 1 |-> IF k = 0 THEN l ELSE e]
  <2>3. Evictions(g, l, 1)
    <3>1. g[0] = l
      OBVIOUS
    <3>2. \A k \in 0 .. 1 : g[k] = IF k = 0 THEN l ELSE Evict(g[k - 1], g[k - 1].messages[1].key)
      <4>1. g[1] = e /\ e = Evict(g[1 - 1], g[1 - 1].messages[1].key)
        BY <3>1
      <4> HIDE DEF g, e
      <4> QED BY <3>1, <4>1
    <3>3. g = [k \in 0 .. 1 |-> g[k]]
      OBVIOUS
    <3> HIDE DEF g, e
    <3> QED BY <3>2, <3>3 DEF Evictions
  <2>4. Evictions(left, l, over)
    <3> HIDE DEF g, e, over
    <3> QED BY <2>1, <2>3 DEF left
  <2>5. left[1] = e
    <3>1. left = [k \in 0 .. 1 |-> IF k = 0 THEN l ELSE Evict(left[k - 1], left[k - 1].messages[1].key)]
      BY <2>1, <2>4 DEF Evictions
    <3> HIDE DEF e, over
    <3>2. left[0] = l
      BY <3>1
    <3>3. left[1] = Evict(left[1 - 1], left[1 - 1].messages[1].key)
      BY <3>1
    <3>4. 1 - 1 = 0
      OBVIOUS
    <3> QED BY <3>2, <3>3, <3>4 DEF e
  <2>6. Exact(e) /\ e.dom = RemoveAt(l.dom, 1) /\ Len(e.dom) = Len(l.dom) - 1
    BY <2>1, <2>2, EvictOK
  <2>7. R!TrimRows(l.dom) = RemoveAt(l.dom, 1)
    <3>1. R!TrimRows(l.dom) = SubSeq(l.dom, 2, Len(l.dom))
      <4>1. Len(l.dom) > MaxMessages /\ Len(l.dom) - MaxMessages + 1 = 2
        BY <1>2, <2>1
      <4> QED BY <4>1 DEF R!TrimRows
    <3>2. SubSeq(l.dom, 1, 1 - 1) = <<>> /\ 1 + 1 = 2
      <4>1. 1 - 1 \in Int /\ 1 - 1 < 1
        OBVIOUS
      <4> QED BY <4>1, SubSeqEmpty
    <3>3. SubSeq(l.dom, 2, Len(l.dom)) \in Seq(Row0)
      BY <1>2, <2>1
    <3>4. <<>> \o SubSeq(l.dom, 2, Len(l.dom)) = SubSeq(l.dom, 2, Len(l.dom))
      BY <3>3, ConcatEmptySeq
    <3> QED BY <3>1, <3>2, <3>4 DEF RemoveAt
  <2> HIDE DEF e, over
  <2>8. Len(e.dom) <= MaxMessages
    BY <1>2, <2>1, <2>6
  <2> QED BY <1>1, <2>1, <2>5, <2>6, <2>7, <2>8
<1> QED BY <1>3, <1>4

-----------------------------------------------------------------------------
(* How the list without an index finds a row.                              *)
FirstId(d, id)     == SelectInSeq(d, LAMBDA r : r.id = id)
FirstTwin(d, row)  == SelectInSeq(d, LAMBDA r : r.id # row.id /\ r.nonce # NoNonce /\ r.nonce = row.nonce)
FirstNonce(d, row) == SelectInSeq(d, LAMBDA r : r.nonce # NoNonce /\ r.nonce = row.nonce)

LEMMA FirstIdIs ==
  ASSUME NEW d \in Seq(Row0), OneId(d), NEW p \in DOMAIN d, NEW id, d[p].id = id
  PROVE  FirstId(d, id) = p
<1> DEFINE I == {i \in 1 .. Len(d) : d[i].id = id}
<1>1. FirstId(d, id) = IF I # {} THEN Min(I) ELSE 0
  BY Zenon DEF FirstId, SelectInSeq
<1>2. I = {p} /\ p \in Nat
  BY RowsAre DEF OneId
<1> QED BY <1>1, <1>2, LeastOne

LEMMA FirstTwinIs ==
  ASSUME NEW d \in Seq(Row0), OneId(d), NEW row
  PROVE  /\ (\A i \in DOMAIN d : d[i].id = row.id \/ d[i].nonce = NoNonce \/ d[i].nonce # row.nonce)
              => FirstTwin(d, row) = 0
         /\ \A p \in DOMAIN d :
              /\ d[p].id # row.id /\ d[p].nonce # NoNonce /\ d[p].nonce = row.nonce
              /\ \A i \in DOMAIN d : d[i].nonce = row.nonce => d[i].id = d[p].id
              => FirstTwin(d, row) = p
<1> DEFINE I == {i \in 1 .. Len(d) : d[i].id # row.id /\ d[i].nonce # NoNonce /\ d[i].nonce = row.nonce}
<1>1. FirstTwin(d, row) = IF I # {} THEN Min(I) ELSE 0
  BY Zenon DEF FirstTwin, SelectInSeq
<1>2. DOMAIN d = 1 .. Len(d) /\ Len(d) \in Nat
  BY RowsAre
<1>3. ASSUME \A i \in DOMAIN d : d[i].id = row.id \/ d[i].nonce = NoNonce \/ d[i].nonce # row.nonce
      PROVE  FirstTwin(d, row) = 0
  <2>1. I = {}
    BY <1>2, <1>3
  <2> QED BY <1>1, <2>1
<1>4. ASSUME NEW p \in DOMAIN d,
             d[p].id # row.id /\ d[p].nonce # NoNonce /\ d[p].nonce = row.nonce,
             \A i \in DOMAIN d : d[i].nonce = row.nonce => d[i].id = d[p].id
      PROVE  FirstTwin(d, row) = p
  <2>1. I = {p} /\ p \in Nat
    BY <1>2, <1>4 DEF OneId
  <2> QED BY <1>1, <2>1, LeastOne
<1> QED BY <1>3, <1>4

LEMMA FirstNonceIs ==
  ASSUME NEW d \in Seq(Row0), OneId(d), NEW row
  PROVE  /\ (\A i \in DOMAIN d : d[i].nonce = NoNonce \/ d[i].nonce # row.nonce)
              => FirstNonce(d, row) = 0
         /\ \A p \in DOMAIN d :
              /\ d[p].nonce # NoNonce /\ d[p].nonce = row.nonce
              /\ \A i \in DOMAIN d : d[i].nonce = row.nonce => d[i].id = d[p].id
              => FirstNonce(d, row) = p
<1> DEFINE I == {i \in 1 .. Len(d) : d[i].nonce # NoNonce /\ d[i].nonce = row.nonce}
<1>1. FirstNonce(d, row) = IF I # {} THEN Min(I) ELSE 0
  BY Zenon DEF FirstNonce, SelectInSeq
<1>2. DOMAIN d = 1 .. Len(d) /\ Len(d) \in Nat
  BY RowsAre
<1>3. ASSUME \A i \in DOMAIN d : d[i].nonce = NoNonce \/ d[i].nonce # row.nonce
      PROVE  FirstNonce(d, row) = 0
  <2>1. I = {}
    BY <1>2, <1>3
  <2> QED BY <1>1, <2>1
<1>4. ASSUME NEW p \in DOMAIN d, d[p].nonce # NoNonce /\ d[p].nonce = row.nonce,
             \A i \in DOMAIN d : d[i].nonce = row.nonce => d[i].id = d[p].id
      PROVE  FirstNonce(d, row) = p
  <2>1. I = {p} /\ p \in Nat
    BY <1>2, <1>4 DEF OneId
  <2> QED BY <1>1, <2>1, LeastOne
<1> QED BY <1>3, <1>4

LEMMA FindsBy ==
  ASSUME NEW s, NEW row
  PROVE  /\ R!UpsertRow(s, row) = R!TrimRows(R!Place(s, FirstId(s, row.id), row))
         /\ R!ReconcileRow(s, row) = R!TrimRows(R!Place(s, FirstNonce(s, row), row))
         /\ (\E i \in DOMAIN s : s[i].id = row.id) =>
              R!Show(s, row) = R!UpsertRow(RemoveAt(s, FirstTwin(s, row)), row)
         /\ (~\E i \in DOMAIN s : s[i].id = row.id) =>
              R!Show(s, row) = IF row.nonce = NoNonce THEN R!AppendRow(s, row)
                                                      ELSE R!ReconcileRow(s, row)
<1>1. R!UpsertRow(s, row) = R!TrimRows(R!Place(s, FirstId(s, row.id), row))
  BY Zenon DEF R!UpsertRow, FirstId, SelectInSeq, Min, R!SelectInSeq, R!Min
<1>2. R!ReconcileRow(s, row) = R!TrimRows(R!Place(s, FirstNonce(s, row), row))
  BY Zenon DEF R!ReconcileRow, FirstNonce, SelectInSeq, Min, R!SelectInSeq, R!Min
<1>3. ASSUME \E i \in DOMAIN s : s[i].id = row.id
      PROVE  R!Show(s, row) = R!UpsertRow(RemoveAt(s, FirstTwin(s, row)), row)
  BY <1>3, Zenon DEF R!Show, R!RemoveAt, RemoveAt, FirstTwin, SelectInSeq, Min, R!SelectInSeq, R!Min
<1>4. ASSUME ~\E i \in DOMAIN s : s[i].id = row.id
      PROVE  R!Show(s, row) = IF row.nonce = NoNonce THEN R!AppendRow(s, row)
                                                     ELSE R!ReconcileRow(s, row)
  BY <1>4, Zenon DEF R!Show
<1> QED BY <1>1, <1>2, <1>3, <1>4

-----------------------------------------------------------------------------
(* The invariant, and what a step makes of the list.                       *)
TimelineInv ==
  /\ removed \in BOOLEAN
  /\ ~removed => Exact(List) /\ Len(dom) <= MaxMessages
  /\ removed => messages = <<>>

LEMMA ListFields == List.messages = messages /\ List.nonces = nonces /\ List.dom = dom
  BY DEF List

LEMMA BecomesExact ==
  ASSUME NEW t, Becomes(t), Exact(t)
  PROVE  Exact(List)' /\ dom' = t.dom
<1>1. messages' = t.messages /\ nonces' = t.nonces /\ dom' = t.dom
  BY DEF Becomes
<1>2. List' = [messages |-> messages', nonces |-> nonces', dom |-> dom']
  BY DEF List
<1>3. Exact(List') <=> /\ dom' \in Seq(Row0) /\ messages' = Index(dom')
                       /\ OneId(dom') /\ Linked(nonces', On(dom'))
  BY ONLY <1>2, ListIs
<1>4. Exact(List')
  BY <1>1, <1>3 DEF Exact
<1> QED BY <1>1, <1>4 DEF Exact

LEMMA KeyIs ==
  ASSUME Exact(List)
  PROVE  /\ dom \in Seq(Row0) /\ OneId(dom) /\ messages = Index(dom) /\ Linked(nonces, On(dom))
         /\ \A id : id \in Keys(messages) <=> \E p \in DOMAIN dom : dom[p].id = id
         /\ \A p \in DOMAIN dom : Value(messages, dom[p].id) = dom[p]
<1>1. dom \in Seq(Row0) /\ OneId(dom) /\ messages = Index(dom) /\ Linked(nonces, On(dom))
  BY ListFields DEF Exact
<1>2. DOMAIN messages = DOMAIN dom /\ \A i \in DOMAIN dom : messages[i].key = dom[i].id
  BY <1>1, IndexIs
<1> QED BY <1>1, <1>2, SlotIs DEF Keys

(* The list before it is trimmed: a message in the place of an old one ... *)
LEMMA SwapMaps ==
  ASSUME NEW l, Exact(l), Len(l.dom) <= MaxMessages, NEW p \in DOMAIN l.dom, NEW row \in Row0,
         \A q \in On(l.dom) \ {l.dom[p]} : q.id # row.id,
         row.nonce # NoNonce => \A q \in On(l.dom) \ {l.dom[p]} : q.nonce # row.nonce
  PROVE  LET old == l.dom[p]
             e   == Replaced(l, old.id, row, Unlinked(l.nonces, old.id, old, row.id))
         IN /\ Exact(e) /\ Len(e.dom) <= MaxMessages + 1
            /\ R!TrimRows(e.dom) = R!TrimRows(R!Place(l.dom, p, row))
<1> DEFINE old == l.dom[p]
           e   == Replaced(l, old.id, row, Unlinked(l.nonces, old.id, old, row.id))
<1>1. Exact(e) /\ e.dom = [l.dom EXCEPT ![p] = row]
  BY ReplaceOK
<1>2. l.dom \in Seq(Row0) /\ OneId(l.dom)
  BY DEF Exact
<1>3. Len(e.dom) = Len(l.dom) /\ Len(l.dom) \in Nat /\ p \in Nat \ {0}
  BY <1>1, <1>2, RowsSwap, RowsAre
<1>4. R!Place(l.dom, p, row) = e.dom
  BY <1>1, <1>3 DEF R!Place
<1> HIDE DEF e
<1>5. Len(e.dom) <= MaxMessages + 1
  <2>1. MaxMessages \in Nat /\ Len(l.dom) <= MaxMessages
    BY TimelineConstants
  <2> QED BY ONLY <1>3, <2>1
<1>6. R!TrimRows(e.dom) = R!TrimRows(R!Place(l.dom, p, row))
  BY ONLY <1>4
<1> QED BY ONLY <1>1, <1>5, <1>6 DEF e

(* ... or at the end.                                                      *)
LEMMA EndMaps ==
  ASSUME NEW l, Exact(l), Len(l.dom) <= MaxMessages, NEW row \in Row0,
         \A q \in On(l.dom) : q.id # row.id,
         row.nonce = NoNonce \/ l.nonces[row.nonce] = NoNonce
  PROVE  LET e == Added(l, row)
         IN /\ Exact(e) /\ Len(e.dom) <= MaxMessages + 1
            /\ R!TrimRows(e.dom) = R!TrimRows(Append(l.dom, row))
<1>1. Exact(Added(l, row)) /\ Added(l, row).dom = Append(l.dom, row)
  BY AddOK
<1>2. Len(Append(l.dom, row)) = Len(l.dom) + 1 /\ Len(l.dom) \in Nat
  BY RowsMore, RowsAre DEF Exact
<1> QED BY <1>1, <1>2, TimelineConstants

Untrimmed(l, oldId, row) ==
  IF oldId = NoNonce THEN Added(l, row)
  ELSE Replaced(l, oldId, row, Unlinked(l.nonces, oldId, Value(messages, oldId), row.id))

(* A message whose row is there: an optimistic twin of it goes.            *)
LEMMA KnownMaps ==
  ASSUME Exact(List), Len(dom) <= MaxMessages, NEW id \in RowIds,
         NEW x \in Nonces \cup {NoNonce}, NEW p \in DOMAIN dom, dom[p].id = id
  PROVE  LET l == IF Lookup(x) # NoNonce /\ Lookup(x) # id THEN Evict(List, Lookup(x)) ELSE List
             t == Untrimmed(l, id, R!Row(id, x))
         IN /\ Exact(t) /\ Len(t.dom) <= MaxMessages + 1
            /\ R!TrimRows(t.dom) = R!Show(dom, R!Row(id, x))
<1> DEFINE row == R!Row(id, x)
<1>1. row \in Row0 /\ row.id = id /\ row.nonce = x /\ id # NoNonce
  BY RowFields, TimelineConstants
<1>2. /\ dom \in Seq(Row0) /\ OneId(dom) /\ messages = Index(dom) /\ Linked(nonces, On(dom))
      /\ Value(messages, id) = dom[p]
  BY KeyIs
<1>3. Len(dom) \in Nat /\ DOMAIN dom = 1 .. Len(dom) /\ MaxMessages \in Nat
      /\ dom[p] \in On(dom) /\ \A q \in On(dom) : q.id = id => q = dom[p]
  BY <1>2, RowsAre, OneRow, TimelineConstants DEF On
<1> HIDE DEF row
<1>4. R!Show(dom, row) = R!TrimRows(R!Place(RemoveAt(dom, FirstTwin(dom, row)),
                           FirstId(RemoveAt(dom, FirstTwin(dom, row)), id), row))
  <2>1. \E i \in DOMAIN dom : dom[i].id = row.id
    BY ONLY <1>1, dom[p].id = id, p \in DOMAIN dom
  <2>2. R!Show(dom, row) = R!UpsertRow(RemoveAt(dom, FirstTwin(dom, row)), row)
    BY ONLY <2>1, FindsBy
  <2>3. R!UpsertRow(RemoveAt(dom, FirstTwin(dom, row)), row)
          = R!TrimRows(R!Place(RemoveAt(dom, FirstTwin(dom, row)),
                               FirstId(RemoveAt(dom, FirstTwin(dom, row)), row.id), row))
    BY ONLY FindsBy
  <2> QED BY ONLY <1>1, <2>2, <2>3
<1>5. CASE ~(Lookup(x) # NoNonce /\ Lookup(x) # id)
  <2>1. \A i \in DOMAIN dom : dom[i].nonce = x => x = NoNonce \/ dom[i].id = id
    BY <1>2, <1>5, LinkIs, RowsAre, TimelineConstants DEF Lookup
  <2>2. FirstTwin(dom, row) = 0 /\ RemoveAt(dom, 0) = dom
    BY <1>1, <1>2, <2>1, FirstTwinIs, RemoveNone
  <2>3. FirstId(dom, id) = p
    BY <1>2, FirstIdIs
  <2>4. \A q \in On(dom) \ {dom[p]} : q.id # id /\ (x # NoNonce => q.nonce # x)
    <3> SUFFICES ASSUME NEW q \in On(dom), q # dom[p] PROVE q.id # id /\ (x # NoNonce => q.nonce # x)
      OBVIOUS
    <3>1. q.id # id
      BY <1>3
    <3>2. PICK i \in DOMAIN dom : q = dom[i]
      BY DEF On
    <3> QED BY <2>1, <3>1, <3>2
  <2> DEFINE t == Replaced(List, dom[p].id, row, Unlinked(List.nonces, dom[p].id, dom[p], row.id))
  <2>5. /\ Exact(t) /\ Len(t.dom) <= MaxMessages + 1
        /\ R!TrimRows(t.dom) = R!TrimRows(R!Place(List.dom, p, row))
    BY <1>1, <2>4, ListFields, SwapMaps
  <2>6. Untrimmed(List, id, row) = t
    BY <1>1, <1>2 DEF Untrimmed
  <2> HIDE DEF t
  <2> QED BY <1>4, <1>5, <2>2, <2>3, <2>5, <2>6, ListFields DEF row
<1>6. CASE Lookup(x) # NoNonce /\ Lookup(x) # id
  <2>1. PICK q \in DOMAIN dom : /\ Lookup(x) = dom[q].id /\ dom[q].nonce = x /\ x # NoNonce
                                /\ \A i \in DOMAIN dom : dom[i].nonce = x => dom[i].id = dom[q].id
    <3>1. x # NoNonce /\ Lookup(x) = nonces[x] /\ x \in Nonces
      BY <1>6 DEF Lookup
    <3> QED BY <1>2, <1>6, <3>1, LinkIs
  <2>2. FirstTwin(dom, row) = q
    BY <1>1, <1>2, <1>6, <2>1, FirstTwinIs
  <2> DEFINE l == Evict(List, dom[q].id)
  <2>3. /\ Exact(l) /\ l.dom = RemoveAt(dom, q) /\ On(l.dom) = On(dom) \ {dom[q]}
        /\ Len(l.dom) = Len(dom) - 1
    BY ListFields, EvictOK
  <2> HIDE DEF l
  <2>4. PICK k \in DOMAIN l.dom : l.dom[k] = dom[p]
    <3>1. dom[p] # dom[q]
      BY <1>6, <2>1
    <3> QED BY <1>3, <2>3, <3>1 DEF On
  <2>5. \A r \in On(l.dom) \ {l.dom[k]} : r.id # id /\ r.nonce # x
    <3> SUFFICES ASSUME NEW r \in On(dom), r # dom[q], r # dom[p] PROVE r.id # id /\ r.nonce # x
      BY <2>3, <2>4
    <3>1. PICK i \in DOMAIN dom : r = dom[i]
      BY DEF On
    <3>2. dom[i].id # dom[q].id
      BY <1>2, <3>1 DEF OneId
    <3> QED BY <1>3, <2>1, <3>1, <3>2
  <2>6. FirstId(l.dom, id) = k /\ l.dom \in Seq(Row0)
    BY <2>3, <2>4, FirstIdIs DEF Exact
  <2> DEFINE t == Replaced(l, l.dom[k].id, row, Unlinked(l.nonces, l.dom[k].id, l.dom[k], row.id))
  <2>7. /\ Exact(t) /\ Len(t.dom) <= MaxMessages + 1
        /\ R!TrimRows(t.dom) = R!TrimRows(R!Place(l.dom, k, row))
    <3>1. Len(l.dom) <= MaxMessages
      BY <1>3, <2>3
    <3>2. /\ \A r \in On(l.dom) \ {l.dom[k]} : r.id # row.id
          /\ row.nonce # NoNonce => \A r \in On(l.dom) \ {l.dom[k]} : r.nonce # row.nonce
      BY ONLY <1>1, <2>5
    <3>3. Exact(l) /\ row \in Row0 /\ k \in DOMAIN l.dom
      BY <1>1, <2>3
    <3> HIDE DEF t
    <3> QED BY ONLY <3>1, <3>2, <3>3, SwapMaps DEF t
  <2>8. Untrimmed(l, id, row) = t
    BY <1>1, <1>2, <2>4 DEF Untrimmed
  <2> HIDE DEF t
  <2> QED BY <1>4, <1>6, <2>1, <2>2, <2>3, <2>6, <2>7, <2>8 DEF row, l
<1> QED BY <1>5, <1>6

(* A message whose row is not there takes the place of its optimistic row, *)
(* or comes at the end.                                                    *)
LEMMA NewMaps ==
  ASSUME Exact(List), Len(dom) <= MaxMessages, NEW id \in RowIds,
         NEW x \in Nonces \cup {NoNonce}, \A p \in DOMAIN dom : dom[p].id # id
  PROVE  LET t == Untrimmed(List, Lookup(x), R!Row(id, x))
         IN /\ Exact(t) /\ Len(t.dom) <= MaxMessages + 1
            /\ R!TrimRows(t.dom) = R!Show(dom, R!Row(id, x))
<1> DEFINE row == R!Row(id, x)
<1>1. row \in Row0 /\ row.id = id /\ row.nonce = x
  BY RowFields
<1>2. dom \in Seq(Row0) /\ OneId(dom) /\ messages = Index(dom) /\ Linked(nonces, On(dom))
  BY KeyIs
<1>3. Len(dom) \in Nat /\ DOMAIN dom = 1 .. Len(dom) /\ \A q \in On(dom) : q.id # id
  BY <1>2, RowsAre DEF On
<1> HIDE DEF row
<1>4. R!Show(dom, row) = IF x = NoNonce THEN R!TrimRows(Append(dom, row))
                         ELSE R!TrimRows(R!Place(dom, FirstNonce(dom, row), row))
  <2>1. ~\E i \in DOMAIN dom : dom[i].id = row.id
    BY <1>1
  <2> QED BY <1>1, <2>1, FindsBy DEF R!AppendRow
<1>5. CASE Lookup(x) = NoNonce
  <2>1. x = NoNonce \/ nonces[x] = NoNonce
    BY <1>5 DEF Lookup
  <2>2. /\ Exact(Added(List, row)) /\ Len(Added(List, row).dom) <= MaxMessages + 1
        /\ R!TrimRows(Added(List, row).dom) = R!TrimRows(Append(dom, row))
    BY <1>1, <1>3, <2>1, ListFields, EndMaps
  <2>3. x # NoNonce => R!Place(dom, FirstNonce(dom, row), row) = Append(dom, row)
    <3> SUFFICES ASSUME x # NoNonce PROVE FirstNonce(dom, row) = 0
      BY DEF R!Place
    <3>1. \A i \in DOMAIN dom : dom[i].nonce # x
      BY <1>2, <2>1, LinkIs, RowsAre, TimelineConstants
    <3> QED BY <1>1, <1>2, <3>1, FirstNonceIs
  <2> QED BY <1>4, <1>5, <2>2, <2>3 DEF Untrimmed, row
<1>6. CASE Lookup(x) # NoNonce
  <2>1. PICK q \in DOMAIN dom : /\ Lookup(x) = dom[q].id /\ dom[q].nonce = x /\ x # NoNonce
                                /\ \A i \in DOMAIN dom : dom[i].nonce = x => dom[i].id = dom[q].id
    <3>1. x # NoNonce /\ Lookup(x) = nonces[x] /\ x \in Nonces
      BY <1>6 DEF Lookup
    <3> QED BY <1>2, <1>6, <3>1, LinkIs
  <2>2. FirstNonce(dom, row) = q
    BY <1>1, <1>2, <2>1, FirstNonceIs
  <2>3. \A r \in On(dom) \ {dom[q]} : r.id # id /\ r.nonce # x
    <3> SUFFICES ASSUME NEW r \in On(dom), r # dom[q] PROVE r.nonce # x
      BY <1>3
    <3>1. PICK i \in DOMAIN dom : r = dom[i]
      BY DEF On
    <3>2. dom[i].id # dom[q].id
      BY <1>2, <3>1 DEF OneId
    <3> QED BY <2>1, <3>1, <3>2
  <2> DEFINE t == Replaced(List, dom[q].id, row, Unlinked(List.nonces, dom[q].id, dom[q], row.id))
  <2>4. /\ Exact(t) /\ Len(t.dom) <= MaxMessages + 1
        /\ R!TrimRows(t.dom) = R!TrimRows(R!Place(dom, q, row))
    BY <1>1, <2>3, ListFields, SwapMaps
  <2>5. Untrimmed(List, Lookup(x), row) = t
    <3>1. Value(messages, dom[q].id) = dom[q]
      BY KeyIs
    <3> QED BY <1>1, <1>6, <2>1, <3>1 DEF Untrimmed
  <2> HIDE DEF t
  <2> QED BY <1>4, <2>1, <2>2, <2>4, <2>5 DEF row
<1> QED BY <1>5, <1>6

LEMMA UpsertMaps ==
  ASSUME TimelineInv, NEW id \in RowIds, NEW x \in Nonces \cup {NoNonce}, NEW named,
         Upsert(id, x, named)
  PROVE  TimelineInv' /\ ~removed /\ ~removed' /\ dom' = R!Show(dom, R!Row(id, x))
<1>1. ~removed /\ removed' = removed /\ Exact(List) /\ Len(dom) <= MaxMessages
  BY DEF Upsert, TimelineInv
<1> DEFINE oldId == IF id \in Keys(messages) THEN id ELSE Lookup(x)
           l     == IF Lookup(x) # NoNonce /\ Lookup(x) # oldId THEN Evict(List, Lookup(x)) ELSE List
           t     == Untrimmed(l, oldId, R!Row(id, x))
<1>2. Becomes(Trim(t))
  BY RowFields DEF Upsert, Untrimmed
<1>3. /\ Exact(t) /\ Len(t.dom) <= MaxMessages + 1
      /\ R!TrimRows(t.dom) = R!Show(dom, R!Row(id, x))
  <2>1. CASE id \in Keys(messages)
    <3>1. PICK p \in DOMAIN dom : dom[p].id = id
      BY <1>1, <2>1, KeyIs
    <3> QED BY <1>1, <2>1, <3>1, KnownMaps
  <2>2. CASE id \notin Keys(messages)
    <3>1. \A p \in DOMAIN dom : dom[p].id # id
      BY <1>1, <2>2, KeyIs
    <3> QED BY <1>1, <2>2, <3>1, NewMaps
  <2> QED BY <2>1, <2>2
<1> HIDE DEF t
<1>4. Exact(Trim(t)) /\ Trim(t).dom = R!Show(dom, R!Row(id, x)) /\ Len(Trim(t).dom) <= MaxMessages
  BY <1>3, TrimOK
<1>5. Exact(List)' /\ dom' = Trim(t).dom
  BY <1>2, <1>4, BecomesExact
<1> QED BY <1>1, <1>4, <1>5 DEF TimelineInv

LEMMA RemoveMaps ==
  ASSUME TimelineInv, NEW id \in RowIds, RemoveMessage(id)
  PROVE  /\ TimelineInv' /\ ~removed /\ ~removed'
         /\ dom' = RemoveAt(dom, SelectInSeq(dom, LAMBDA r : r.id = id))
<1>1. id \in Keys(messages) /\ removed' = removed /\ Becomes(Evict(List, id))
  BY DEF RemoveMessage
<1>2. ~removed /\ Exact(List) /\ Len(dom) <= MaxMessages
  <2>1. messages # <<>>
    BY <1>1 DEF Keys
  <2> QED BY <2>1 DEF TimelineInv
<1>3. PICK p \in DOMAIN dom : dom[p].id = id
  BY <1>1, <1>2, KeyIs
<1>4. /\ Exact(Evict(List, id)) /\ Evict(List, id).dom = RemoveAt(dom, p)
      /\ Len(Evict(List, id).dom) = Len(dom) - 1
  BY <1>2, <1>3, ListFields, EvictOK
<1>5. Exact(List)' /\ dom' = RemoveAt(dom, p)
  BY <1>1, <1>4, BecomesExact
<1>6. FirstId(dom, id) = p
  BY <1>2, <1>3, KeyIs, FirstIdIs
<1>7. Len(dom') <= MaxMessages
  <2>1. Len(dom) \in Nat /\ MaxMessages \in Nat
    BY <1>2, KeyIs, RowsAre, TimelineConstants
  <2> QED BY <1>2, <1>4, <1>5, <2>1
<1> QED BY <1>1, <1>2, <1>5, <1>6, <1>7 DEF TimelineInv, FirstId

-----------------------------------------------------------------------------
(* clear() takes the rows away one after another.                          *)
LEMMA HideFirst ==
  ASSUME NEW d \in Seq(Row0), OneId(d), NEW k \in 1 .. Len(d)
  PROVE  Hide(SubSeq(d, k, Len(d)), d[k]) = SubSeq(d, k + 1, Len(d))
<1> DEFINE n == Len(d)
           s == SubSeq(d, k, n)
           t == SubSeq(d, k + 1, n)
<1>1. n \in Nat /\ DOMAIN d = 1 .. n /\ \A i \in 1 .. n : d[i] \in Row0
  BY RowsAre
<1>2. k \in Int /\ k + 1 \in Int /\ n \in Int /\ 1 <= k /\ k <= n
  BY <1>1
<1>3. s \in Seq(Row0) /\ Len(s) = n - k + 1 /\ \A i \in 1 .. n - k + 1 : s[i] = d[k + i - 1]
  <2>1. \A i \in k .. n : d[i] \in Row0
    BY <1>1, <1>2
  <2>2. /\ s \in Seq(Row0) /\ Len(s) = (IF k <= n THEN n - k + 1 ELSE 0)
        /\ \A i \in 1 .. n - k + 1 : s[i] = d[k + i - 1]
    BY ONLY <1>2, <2>1, SubSeqProperties
  <2> QED BY <1>2, <2>2
<1>4. t \in Seq(Row0) /\ Len(t) = n - k /\ \A i \in 1 .. n - k : t[i] = d[k + i]
  <2>1. \A i \in k + 1 .. n : d[i] \in Row0
    BY <1>1, <1>2
  <2>2. /\ t \in Seq(Row0) /\ Len(t) = (IF k + 1 <= n THEN n - (k + 1) + 1 ELSE 0)
        /\ \A i \in 1 .. n - (k + 1) + 1 : t[i] = d[(k + 1) + i - 1]
    BY ONLY <1>2, <2>1, SubSeqProperties
  <2>3. n - (k + 1) + 1 = n - k /\ (IF k + 1 <= n THEN n - (k + 1) + 1 ELSE 0) = n - k
    <3> HIDE DEF n
    <3>1. n - (k + 1) + 1 = n - k
      BY ONLY <1>2
    <3>2. ~(k + 1 <= n) => n - k = 0
      BY ONLY <1>2
    <3> QED BY ONLY <3>1, <3>2
  <2>4. \A i \in 1 .. n - k : (k + 1) + i - 1 = k + i
    BY <1>1, <1>2
  <2> HIDE DEF t, n
  <2> QED BY ONLY <2>2, <2>3, <2>4
<1> HIDE DEF s, t, n
<1>5. OneId(s)
  <2> SUFFICES ASSUME NEW i \in DOMAIN s, NEW j \in DOMAIN s, s[i].id = s[j].id PROVE i = j
    BY DEF OneId
  <2>1. DOMAIN s = 1 .. n - k + 1
    BY <1>3
  <2>2. k + i - 1 \in 1 .. n /\ k + j - 1 \in 1 .. n /\ i \in Int /\ j \in Int
    BY <1>1, <1>2, <2>1
  <2>3. k + i - 1 = k + j - 1
    BY <1>1, <1>3, <2>1, <2>2 DEF OneId
  <2> QED BY <1>2, <2>2, <2>3
<1>6. 1 \in DOMAIN s /\ s[1] = d[k]
  <2>1. 1 \in 1 .. n - k + 1 /\ k + 1 - 1 = k
    BY <1>1, <1>2
  <2>2. DOMAIN s = 1 .. n - k + 1
    BY <1>3
  <2> QED BY <1>3, <2>1, <2>2
<1>7. Child(s, d[k]) = 1
  BY <1>3, <1>5, <1>6, ChildIs
<1>8. RemoveAt(s, 1) = t
  <2>1. /\ RemoveAt(s, 1) \in Seq(Row0) /\ Len(RemoveAt(s, 1)) = Len(s) - 1
        /\ \A i \in 1 .. Len(s) - 1 : RemoveAt(s, 1)[i] = IF i < 1 THEN s[i] ELSE s[i + 1]
    BY ONLY <1>3, <1>6, RemoveOne
  <2>2. Len(s) - 1 = n - k
    BY <1>1, <1>2, <1>3
  <2>3. ASSUME NEW i \in 1 .. n - k PROVE RemoveAt(s, 1)[i] = t[i]
    <3>1. ~(i < 1) /\ i + 1 \in 1 .. n - k + 1 /\ k + (i + 1) - 1 = k + i
      BY <1>1, <1>2
    <3>2. RemoveAt(s, 1)[i] = s[i + 1] /\ s[i + 1] = d[k + i]
      BY ONLY <1>3, <2>1, <2>2, <3>1, i \in 1 .. n - k
    <3> QED BY <1>4, <3>2
  <2>4. Len(RemoveAt(s, 1)) = n - k
    BY ONLY <2>1, <2>2
  <2>5. RemoveAt(s, 1) \in Seq(Row0)
    BY <2>1
  <2> QED BY ONLY <1>4, <2>3, <2>4, <2>5, SeqEqual
<1> QED BY <1>7, <1>8 DEF Hide, s, t, n

Hides(f, n) == f = [k \in 0 .. n |-> IF k = 0 THEN dom ELSE Hide(f[k - 1], messages[k].node)]

LEMMA HidesAll ==
  ASSUME dom \in Seq(Row0), OneId(dom), messages = Index(dom), NEW f, Hides(f, Len(dom))
  PROVE  f[Len(dom)] = <<>>
<1> DEFINE n == Len(dom)
           T == {k \in 0 .. n : f[k] # SubSeq(dom, k + 1, n)}
<1>1. n \in Nat /\ DOMAIN dom = 1 .. n /\ \A k \in 1 .. n : messages[k].node = dom[k]
  BY RowsAre, IndexIs
<1>2. \A k \in 0 .. n : f[k] = IF k = 0 THEN dom ELSE Hide(f[k - 1], messages[k].node)
  BY DEF Hides
<1>3. T = {}
  <2> SUFFICES ASSUME T # {} PROVE FALSE
    OBVIOUS
  <2>1. T \in SUBSET Nat
    OBVIOUS
  <2>2. PICK k \in T : \A m \in T : k <= m
    <3> HIDE DEF T
    <3> QED BY <2>1, NatMin
  <2>3. k \in 0 .. n /\ f[k] # SubSeq(dom, k + 1, n)
    BY <2>2
  <2>4. CASE k = 0
    <3>1. f[0] = dom
      BY <1>1, <1>2
    <3>2. SubSeq(dom, 1, Len(dom)) = dom
      BY SubSeqFull
    <3>3. 0 + 1 = 1
      OBVIOUS
    <3> QED BY <2>3, <2>4, <3>1, <3>2, <3>3
  <2>5. CASE k # 0
    <3>1. k \in 1 .. n /\ k - 1 \in 0 .. n /\ ~(k <= k - 1) /\ (k - 1) + 1 = k
      BY <1>1, <2>3, <2>5
    <3>2. k - 1 \notin T
      BY <2>2, <3>1
    <3>3. f[k - 1] = SubSeq(dom, k, n)
      BY <3>1, <3>2
    <3>4. f[k] = Hide(f[k - 1], dom[k])
      BY <1>1, <1>2, <2>3, <2>5, <3>1
    <3>5. Hide(SubSeq(dom, k, Len(dom)), dom[k]) = SubSeq(dom, k + 1, Len(dom))
      BY <3>1, HideFirst
    <3> QED BY <2>3, <3>3, <3>4, <3>5
  <2> QED BY <2>4, <2>5
<1>4. n \in 0 .. n
  BY <1>1
<1>5. f[n] = SubSeq(dom, n + 1, n)
  BY <1>3, <1>4
<1>6. SubSeq(dom, n + 1, n) = <<>>
  <2>1. n + 1 \in Int /\ n \in Int /\ n < n + 1
    BY <1>1
  <2> QED BY ONLY <2>1, SubSeqEmpty
<1> QED BY <1>5, <1>6

LEMMA HidesExist ==
  ASSUME dom \in Seq(Row0), OneId(dom), messages = Index(dom)
  PROVE  Hides(CHOOSE f : Hides(f, Len(dom)), Len(dom))
<1> DEFINE n == Len(dom)
           g == [k \in 0 .. n |-> SubSeq(dom, k + 1, n)]
<1>1. n \in Nat /\ DOMAIN dom = 1 .. n /\ \A k \in 1 .. n : messages[k].node = dom[k]
  BY RowsAre, IndexIs
<1>2. ASSUME NEW k \in 0 .. n PROVE g[k] = IF k = 0 THEN dom ELSE Hide(g[k - 1], messages[k].node)
  <2>1. CASE k = 0
    <3>1. SubSeq(dom, 1, Len(dom)) = dom
      BY SubSeqFull
    <3>2. 0 + 1 = 1
      OBVIOUS
    <3> QED BY <2>1, <3>1, <3>2
  <2>2. CASE k # 0
    <3>1. k \in 1 .. n /\ k - 1 \in 0 .. n /\ (k - 1) + 1 = k
      BY <1>1, <2>2
    <3>2. g[k - 1] = SubSeq(dom, k, n) /\ g[k] = SubSeq(dom, k + 1, n)
      BY <3>1
    <3>3. Hide(SubSeq(dom, k, Len(dom)), dom[k]) = SubSeq(dom, k + 1, Len(dom))
      BY <3>1, HideFirst
    <3> HIDE DEF g
    <3> QED BY <1>1, <2>2, <3>1, <3>2, <3>3
  <2> QED BY <2>1, <2>2
<1>3. g = [k \in 0 .. n |-> g[k]]
  OBVIOUS
<1> HIDE DEF g
<1>4. Hides(g, n)
  <2> DEFINE F(k) == IF k = 0 THEN dom ELSE Hide(g[k - 1], messages[k].node)
  <2>1. \A k \in 0 .. n : g[k] = F(k)
    BY <1>2
  <2> HIDE DEF F
  <2>2. g = [k \in 0 .. n |-> F(k)]
    BY <1>3, <2>1
  <2> QED BY <2>2 DEF Hides, F
<1> QED BY <1>4

LEMMA ListOf ==
  ASSUME NEW d \in Seq(Row0), OneId(d), Linked(nonces', On(d)), dom' = d, messages' = Index(d)
  PROVE  Exact(List)'
<1>1. List' = [messages |-> messages', nonces |-> nonces', dom |-> dom']
  BY DEF List
<1>2. Exact(List') <=> /\ dom' \in Seq(Row0) /\ messages' = Index(dom')
                       /\ OneId(dom') /\ Linked(nonces', On(dom'))
  BY ONLY <1>1, ListIs
<1>3. Exact(List')
  BY <1>2
<1> QED BY <1>3 DEF Exact

LEMMA ClearMaps ==
  ASSUME TimelineInv, Clear
  PROVE  /\ TimelineInv' /\ removed' = removed
         /\ dom' = IF removed THEN dom ELSE <<>>
<1> DEFINE left == CHOOSE f : Hides(f, Len(messages))
<1>1. /\ dom' = left[Len(messages)] /\ messages' = <<>> /\ nonces' = [x \in Nonces |-> NoNonce]
      /\ removed' = removed
  BY DEF Clear, Hides
<1> HIDE DEF left
<1>2. CASE removed
  <2>1. messages = <<>> /\ Len(messages) = 0
    BY <1>2 DEF TimelineInv
  <2> DEFINE g == [k \in 0 .. 0 |-> dom]
  <2>2. Hides(g, 0)
    BY DEF Hides
  <2>3. Hides(left, 0)
    <3> HIDE DEF g
    <3> QED BY <2>1, <2>2 DEF left
  <2>4. left[0] = dom
    BY <2>3 DEF Hides
  <2> QED BY <1>1, <1>2, <2>1, <2>4 DEF TimelineInv
<1>3. CASE ~removed
  <2>1. dom \in Seq(Row0) /\ OneId(dom) /\ messages = Index(dom) /\ Len(messages) = Len(dom)
    <3>1. Exact(List)
      BY <1>3 DEF TimelineInv
    <3> QED BY <3>1, KeyIs, IndexIs
  <2>2. left[Len(messages)] = <<>>
    BY <2>1, HidesExist, HidesAll DEF left
  <2>3. Exact(List)'
    <3> DEFINE e == <<>>
    <3>1. e \in Seq(Row0) /\ DOMAIN e = {} /\ Index(e) = <<>>
      BY DEF Index
    <3>2. OneId(e) /\ On(e) = {}
      BY <3>1 DEF OneId, On
    <3>3. Linked(nonces', {})
      BY <1>1, TimelineConstants DEF Linked
    <3>4. dom' = e /\ messages' = Index(e)
      BY <1>1, <2>2, <3>1
    <3> HIDE DEF e
    <3> QED BY <3>1, <3>2, <3>3, <3>4, ListOf
  <2>4. Len(dom') <= MaxMessages
    <3>1. dom' = <<>> /\ Len(<<>>) = 0
      BY <1>1, <2>2
    <3> QED BY <3>1, TimelineConstants
  <2> QED BY <1>1, <1>3, <2>2, <2>3, <2>4 DEF TimelineInv
<1> QED BY <1>2, <1>3

LEMMA ReleaseMaps ==
  ASSUME TimelineInv, Release
  PROVE  TimelineInv' /\ removed' = TRUE /\ dom' = dom
  BY DEF TimelineInv, Release

-----------------------------------------------------------------------------
(* What the constructor takes over.                                        *)
LEMMA CutIs ==
  ASSUME NEW u \in Seq(Row0), OneId(u),
         \A i, j \in DOMAIN u : u[i].nonce = u[j].nonce => u[i].nonce = NoNonce \/ i = j
  PROVE  LET v == R!TrimRows(u)
         IN /\ v \in Seq(Row0) /\ OneId(v) /\ Len(v) <= MaxMessages
            /\ \A i, j \in DOMAIN v : v[i].nonce = v[j].nonce => v[i].nonce = NoNonce \/ i = j
<1> DEFINE v == R!TrimRows(u)
<1>1. Len(u) \in Nat /\ DOMAIN u = 1 .. Len(u) /\ MaxMessages \in Nat \ {0} /\ \A i \in 1 .. Len(u) : u[i] \in Row0
  BY RowsAre, TimelineConstants
<1>2. CASE Len(u) > MaxMessages
  <2> DEFINE c == Len(u) - MaxMessages
  <2>1. v = SubSeq(u, c + 1, Len(u)) /\ c \in Nat /\ c + 1 \in Int /\ Len(u) \in Int
    BY <1>1, <1>2 DEF R!TrimRows
  <2>2. Len(u) - (c + 1) + 1 = MaxMessages /\ c + 1 <= Len(u)
    BY <1>1
  <2>3. \A i \in c + 1 .. Len(u) : u[i] \in Row0
    BY <1>1, <2>1
  <2>4. c + MaxMessages = Len(u)
    BY <1>1
  <2> HIDE DEF c, v
  <2>5. /\ v \in Seq(Row0) /\ Len(v) = (IF c + 1 <= Len(u) THEN Len(u) - (c + 1) + 1 ELSE 0)
        /\ \A i \in 1 .. Len(u) - (c + 1) + 1 : v[i] = u[(c + 1) + i - 1]
    BY ONLY <2>1, <2>3, SubSeqProperties
  <2>6. v \in Seq(Row0) /\ Len(v) = MaxMessages /\ DOMAIN v = 1 .. MaxMessages
    BY <2>2, <2>5
  <2>7. ASSUME NEW i \in DOMAIN v PROVE v[i] = u[c + i] /\ c + i \in DOMAIN u
    <3>1. i \in 1 .. Len(u) - (c + 1) + 1
      BY <2>2, <2>6
    <3>2. (c + 1) + i - 1 = c + i
      BY <2>1, <2>6
    <3>3. c + i \in 1 .. Len(u)
      <4>1. i \in Int /\ 1 <= i /\ i <= MaxMessages
        BY <1>1, <2>6
      <4>2. c \in Int /\ 0 <= c /\ MaxMessages \in Int /\ Len(u) \in Int
        BY <1>1, <2>1
      <4> QED BY ONLY <2>4, <4>1, <4>2
    <3> QED BY <1>1, <2>5, <3>1, <3>2, <3>3
  <2>8. ASSUME NEW i \in DOMAIN v, NEW j \in DOMAIN v, c + i = c + j PROVE i = j
    <3>1. i \in Int /\ j \in Int
      BY <1>1, <2>6
    <3>2. c \in Int
      BY <2>1
    <3> QED BY ONLY <2>8, <3>1, <3>2
  <2>9. OneId(v)
    BY <2>7, <2>8 DEF OneId
  <2>10. \A i, j \in DOMAIN v : v[i].nonce = v[j].nonce => v[i].nonce = NoNonce \/ i = j
    BY <2>7, <2>8
  <2>11. Len(v) <= MaxMessages
    BY <1>1, <2>6
  <2> QED BY <2>6, <2>9, <2>10, <2>11 DEF v
<1>3. CASE ~(Len(u) > MaxMessages)
  BY <1>1, <1>3 DEF R!TrimRows
<1> QED BY <1>2, <1>3

LEMMA TimelineStarts ==
  ASSUME TimelineInit
  PROVE  TimelineInv /\ R!RowsInit
<1>0. PICK len \in 0 .. MaxRendered :
        \E s \in [1 .. len -> [id : RowIds, nonce : Nonces \cup {NoNonce}]] :
          /\ \A i, j \in DOMAIN s : s[i].nonce = s[j].nonce => s[i].nonce = NoNonce \/ s[i].id = s[j].id
          /\ LET last == {i \in 1 .. len : \A j \in 1 .. len : s[j].id = s[i].id => j <= i}
                 n    == Cardinality(last)
             IN \E at \in [1 .. n -> last] :
                  /\ \A i, j \in 1 .. n : i < j => at[i] < at[j]
                  /\ Rendered(R!TrimRows([i \in 1 .. n |-> s[at[i]]]))
  BY Zenon DEF TimelineInit
<1>1. PICK s \in [1 .. len -> [id : RowIds, nonce : Nonces \cup {NoNonce}]] :
        /\ \A i, j \in DOMAIN s : s[i].nonce = s[j].nonce => s[i].nonce = NoNonce \/ s[i].id = s[j].id
        /\ LET last == {i \in 1 .. len : \A j \in 1 .. len : s[j].id = s[i].id => j <= i}
               n    == Cardinality(last)
           IN \E at \in [1 .. n -> last] :
                /\ \A i, j \in 1 .. n : i < j => at[i] < at[j]
                /\ Rendered(R!TrimRows([i \in 1 .. n |-> s[at[i]]]))
  BY ONLY <1>0, Zenon
<1> DEFINE last == {i \in 1 .. len : \A j \in 1 .. len : s[j].id = s[i].id => j <= i}
           n    == Cardinality(last)
<1>2. PICK at \in [1 .. n -> last] :
        /\ \A i, j \in 1 .. n : i < j => at[i] < at[j]
        /\ Rendered(R!TrimRows([i \in 1 .. n |-> s[at[i]]]))
  BY <1>1, Zenon
<1>3. n \in Nat /\ last \subseteq 1 .. len /\ len \in Nat
  <2>1. len \in Nat /\ 1 \in Int /\ len \in Int
    BY TimelineConstants
  <2>2. IsFiniteSet(1 .. len)
    BY <2>1, FS_Interval
  <2>3. last \subseteq 1 .. len
    OBVIOUS
  <2> HIDE DEF last
  <2>4. IsFiniteSet(last)
    BY <2>2, <2>3, FS_Subset
  <2> QED BY <2>1, <2>3, <2>4, FS_CardinalityType
<1> HIDE DEF n
<1> DEFINE u == [i \in 1 .. n |-> s[at[i]]]
           v == R!TrimRows(u)
<1>4. /\ u \in Seq(Row0) /\ DOMAIN u = 1 .. n
      /\ \A i \in 1 .. n : u[i] = s[at[i]] /\ at[i] \in last
  <2> HIDE DEF last
  <2>1. \A i \in 1 .. n : at[i] \in last /\ at[i] \in 1 .. len
    BY <1>2, <1>3
  <2>2. \A i \in 1 .. n : s[at[i]] \in Row0
    BY <2>1 DEF Row0
  <2>3. u \in Seq(Row0)
    BY <1>3, <2>2
  <2> QED BY <2>1, <2>3
<1>5. ASSUME NEW i \in 1 .. n, NEW j \in 1 .. n, u[i].id = u[j].id PROVE i = j
  <2>1. at[i] \in 1 .. len /\ at[j] \in 1 .. len /\ s[at[i]].id = s[at[j]].id
    BY <1>3, <1>4, <1>5
  <2>2. at[j] <= at[i] /\ at[i] <= at[j]
    BY <1>4, <2>1
  <2>3. ~(i < j) /\ ~(j < i)
    <3>1. ~(at[i] < at[j]) /\ ~(at[j] < at[i])
      BY <1>3, <2>1, <2>2
    <3> QED BY <1>2, <3>1
  <2> QED BY <1>3, <2>3
<1>6. OneId(u)
  BY <1>4, <1>5 DEF OneId
<1>7. \A i, j \in DOMAIN u : u[i].nonce = u[j].nonce => u[i].nonce = NoNonce \/ i = j
  <2> SUFFICES ASSUME NEW i \in 1 .. n, NEW j \in 1 .. n, u[i].nonce = u[j].nonce
               PROVE  u[i].nonce = NoNonce \/ i = j
    BY <1>4
  <2>1. at[i] \in DOMAIN s /\ at[j] \in DOMAIN s
    BY <1>3, <1>4
  <2>2. u[i].nonce = NoNonce \/ u[i].id = u[j].id
    BY <1>1, <1>4, <2>1
  <2> QED BY <1>5, <2>2
<1> HIDE DEF u
<1>8. /\ v \in Seq(Row0) /\ OneId(v) /\ Len(v) <= MaxMessages
      /\ \A i, j \in DOMAIN v : v[i].nonce = v[j].nonce => v[i].nonce = NoNonce \/ i = j
  BY <1>4, <1>6, <1>7, CutIs
<1>9. Rendered(v)
  BY <1>2 DEF u
<1> HIDE DEF v
<1>10. /\ messages = Index(v) /\ dom = v
       /\ nonces = [x \in Nonces |-> LET k == SelectInSeq(v, LAMBDA r : r.nonce = x)
                                     IN IF k = 0 THEN NoNonce ELSE v[k].id]
  BY <1>9, Zenon DEF Rendered, Index
<1>11. Linked(nonces, On(v))
  <2>1. ASSUME NEW x \in Nonces
        PROVE  \/ nonces[x] = NoNonce /\ \A i \in DOMAIN v : v[i].nonce # x
               \/ \E p \in DOMAIN v : /\ nonces[x] = v[p].id /\ v[p].nonce = x
                                      /\ \A i \in DOMAIN v : v[i].nonce = x => i = p
    <3> DEFINE I == {i \in 1 .. Len(v) : v[i].nonce = x}
               k == SelectInSeq(v, LAMBDA r : r.nonce = x)
    <3>1. nonces[x] = IF k = 0 THEN NoNonce ELSE v[k].id
      BY <1>10
    <3>2. k = IF I # {} THEN Min(I) ELSE 0
      BY Zenon DEF SelectInSeq
    <3>3. DOMAIN v = 1 .. Len(v) /\ Len(v) \in Nat /\ x # NoNonce
      BY <1>8, RowsAre, TimelineConstants
    <3> HIDE DEF k
    <3>4. CASE I = {}
      BY <3>1, <3>2, <3>3, <3>4
    <3>5. CASE I # {}
      <4>1. PICK p \in I : TRUE
        BY <3>5
      <4>2. p \in DOMAIN v /\ v[p].nonce = x /\ \A i \in DOMAIN v : v[i].nonce = x => i = p
        BY <1>8, <3>3, <4>1
      <4>3. I = {p} /\ p \in Nat /\ p # 0
        BY <3>3, <4>2
      <4>4. k = p
        BY <3>2, <4>3, LeastOne
      <4> QED BY <3>1, <4>2, <4>3, <4>4
    <3> QED BY <3>4, <3>5
  <2>2. \A i \in DOMAIN v : v[i].id \in RowIds /\ v[i] \in Row0
    BY <1>8, RowsAre
  <2>3. nonces \in [Nonces -> RowIds \cup {NoNonce}]
    <3>1. nonces = [x \in Nonces |-> nonces[x]]
      BY <1>10
    <3>2. \A x \in Nonces : nonces[x] \in RowIds \cup {NoNonce}
      BY <2>1, <2>2
    <3> QED BY <3>1, <3>2
  <2>4. ASSUME NEW x \in Nonces, NEW id \in RowIds
        PROVE  nonces[x] = id <=> R!Row(id, x) \in On(v)
    <3>1. R!Row(id, x).id = id /\ R!Row(id, x).nonce = x /\ id # NoNonce
      BY RowFields, TimelineConstants
    <3>2. CASE nonces[x] = NoNonce /\ \A i \in DOMAIN v : v[i].nonce # x
      <4>1. R!Row(id, x) \notin On(v)
        BY <3>1, <3>2 DEF On
      <4> QED BY <3>1, <3>2, <4>1
    <3>3. ASSUME NEW p \in DOMAIN v, nonces[x] = v[p].id, v[p].nonce = x,
                 \A i \in DOMAIN v : v[i].nonce = x => i = p
          PROVE  nonces[x] = id <=> R!Row(id, x) \in On(v)
      <4>1. v[p] = R!Row(v[p].id, x)
        BY <2>2, <3>3, RowIs
      <4>2. ASSUME nonces[x] = id PROVE R!Row(id, x) \in On(v)
        BY <3>3, <4>1, <4>2 DEF On
      <4>3. ASSUME R!Row(id, x) \in On(v) PROVE nonces[x] = id
        <5>1. PICK i \in DOMAIN v : v[i] = R!Row(id, x)
          BY <4>3 DEF On
        <5> QED BY <3>1, <3>3, <5>1
      <4> QED BY <4>2, <4>3
    <3> QED BY <2>1, <3>2, <3>3
  <2> QED BY <2>3, <2>4 DEF Linked
<1>12. removed = FALSE
  BY DEF TimelineInit
<1>13. TimelineInv
  <2>1. Exact(List)
    BY <1>8, <1>10, <1>11, ListFields DEF Exact
  <2> QED BY <1>8, <1>10, <1>12, <2>1 DEF TimelineInv
<1>14. R!RowsInit
  <2>1. \A i, j \in DOMAIN dom : i # j =>
          dom[i].id # dom[j].id /\ (dom[i].nonce = NoNonce \/ dom[i].nonce # dom[j].nonce)
    BY <1>8, <1>10 DEF OneId
  <2> QED BY <1>8, <1>10, <1>12, <2>1, Zenon DEF R!RowsInit
<1> QED BY <1>13, <1>14

LEMMA TimelineStep ==
  ASSUME TimelineInv, [TimelineNext]_timelineVars
  PROVE  TimelineInv' /\ [R!RowsNext]_(R!rowVars)
<1>1. ASSUME NEW id \in RowIds, NEW x \in Nonces \cup {NoNonce}, NEW named \in BOOLEAN,
             Upsert(id, x, named)
      PROVE  TimelineInv' /\ R!RowsNext
  <2>1. TimelineInv' /\ ~removed /\ ~removed' /\ dom' = R!Show(dom, R!Row(id, x))
    BY <1>1, UpsertMaps
  <2>2. R!Shown
    BY <2>1, Zenon DEF R!Shown
  <2> QED BY <2>1, <2>2, Zenon DEF R!RowsNext
<1>2. ASSUME NEW id \in RowIds, RemoveMessage(id)
      PROVE  TimelineInv' /\ R!RowsNext
  <2>1. /\ TimelineInv' /\ ~removed /\ ~removed'
        /\ dom' = RemoveAt(dom, SelectInSeq(dom, LAMBDA r : r.id = id))
    BY <1>2, RemoveMaps
  <2>2. R!Taken
    BY <2>1, Zenon DEF R!Taken, R!RemoveAt, RemoveAt, SelectInSeq, Min, R!SelectInSeq, R!Min
  <2> QED BY <2>1, <2>2, Zenon DEF R!RowsNext
<1>3. ASSUME Clear PROVE TimelineInv' /\ [R!RowsNext]_(R!rowVars)
  <2>1. TimelineInv' /\ removed' = removed /\ dom' = IF removed THEN dom ELSE <<>>
    BY <1>3, ClearMaps
  <2>2. CASE removed
    BY <2>1, <2>2, Zenon DEF R!rowVars
  <2>3. CASE ~removed
    BY <2>1, <2>3, Zenon DEF R!RowsNext
  <2> QED BY <2>1, <2>2, <2>3
<1>4. ASSUME Release PROVE TimelineInv' /\ [R!RowsNext]_(R!rowVars)
  <2>1. TimelineInv' /\ removed' = TRUE /\ dom' = dom
    BY <1>4, ReleaseMaps
  <2>2. CASE removed
    BY <2>1, <2>2, Zenon DEF R!rowVars
  <2>3. CASE ~removed
    BY <2>1, <2>3, Zenon DEF R!RowsNext
  <2> QED BY <2>1, <2>2, <2>3
<1>5. ASSUME UNCHANGED timelineVars PROVE TimelineInv' /\ UNCHANGED R!rowVars
  <2>1. messages' = messages /\ nonces' = nonces /\ dom' = dom /\ removed' = removed
    BY <1>5 DEF timelineVars
  <2>2. TimelineInv'
    BY <2>1 DEF TimelineInv, List
  <2> QED BY <2>1, <2>2, Zenon DEF R!rowVars
<1> QED BY <1>1, <1>2, <1>3, <1>4, <1>5, Zenon DEF TimelineNext

LEMMA TimelineExact == ASSUME TimelineInv PROVE IndexExact
<1> SUFFICES ASSUME ~removed
             PROVE  /\ messages = [i \in DOMAIN dom |-> Entry(dom[i])]
                    /\ \A i, j \in DOMAIN dom : dom[i].id = dom[j].id => i = j
                    /\ \A x \in Nonces, id \in RowIds :
                         nonces[x] = id <=> \E i \in DOMAIN dom : dom[i] = R!Row(id, x)
                    /\ Len(dom) <= MaxMessages
  BY DEF IndexExact
<1>1. Exact(List) /\ Len(dom) <= MaxMessages
  BY DEF TimelineInv
<1>2. OneId(dom) /\ messages = Index(dom) /\ Linked(nonces, On(dom))
  BY <1>1, KeyIs
<1> QED BY <1>1, <1>2 DEF Index, OneId, On, Linked

(* The list, the index of ids and the index of nonces of timeline.js agree *)
(* until destroy, with no row twice, none that a nonce loses and none over *)
(* maxMessages, whatever is upserted, removed and cleared.                 *)
THEOREM IndicesAgree == TimelineInit /\ [][TimelineNext]_timelineVars => []IndexExact
<1>1. TimelineInit => TimelineInv
  BY TimelineStarts
<1>2. TimelineInv /\ [TimelineNext]_timelineVars => TimelineInv'
  BY TimelineStep
<1>3. TimelineInv => IndexExact
  BY TimelineExact
<1> QED BY <1>1, <1>2, <1>3, PTL

(* The indexed list of timeline.js shows what the helpers of chat.js, that *)
(* scan the rows on display, would show: every operation is one of theirs, *)
(* evictions and the optimistic row's replacement included.                *)
THEOREM TimelineShowsRows == TimelineInit /\ [][TimelineNext]_timelineVars => ShowsRows
<1>1. TimelineInit => TimelineInv /\ R!RowsInit
  BY TimelineStarts
<1>2. TimelineInv /\ [TimelineNext]_timelineVars => TimelineInv' /\ [R!RowsNext]_(R!rowVars)
  BY TimelineStep
<1> QED BY <1>1, <1>2, PTL DEF ShowsRows, R!RowsSpec
(***************************************************************************)
(* The store: nested walks over its listeners.                             *)
(***************************************************************************)
Members == [who : Listeners, join : Nat \ {0}]
Walks   == [at : Nat, last : BOOLEAN, telling : Listeners \cup {Nobody}]

StoreShape ==
  /\ listeners \in Seq(Members) /\ joins \in Nat /\ value \in Nat
  /\ walks \in Seq(Walks) /\ told \in [Listeners -> Nat]

InOrder ==
  /\ \A i \in DOMAIN listeners : listeners[i].join <= joins
  /\ \A i, j \in DOMAIN listeners : i < j => listeners[i].join < listeners[j].join

(* A walk of set, not of subscribe, that has yet to come to the member.    *)
Awaited(m) == \E n \in DOMAIN walks : ~walks[n].last /\ walks[n].at < m.join
Served(m)  == told[m.who] = value \/ Awaited(m)
AllServed  == ~broke => \A i \in DOMAIN listeners : Served(listeners[i])

StoreInv == StoreShape /\ InOrder /\ AllServed

LEMMA StoreInitOK == StoreInit => StoreInv
  BY StoreConstants DEF StoreInit, StoreInv, StoreShape, InOrder, AllServed, Walks, Members

LEMMA StoreInvTold == StoreInv => ToldLast
  BY DEF StoreInv, StoreShape, AllServed, Served, Awaited, ToldLast, Who

LEMMA MemberIs ==
  ASSUME NEW m \in Members PROVE m.who \in Listeners /\ m.join \in Nat /\ 0 < m.join
  BY DEF Members

LEMMA ListenersAre ==
  ASSUME StoreShape
  PROVE  /\ Len(listeners) \in Nat /\ DOMAIN listeners = 1 .. Len(listeners)
         /\ \A i \in DOMAIN listeners :
              /\ listeners[i] \in Members /\ listeners[i].who \in Listeners
              /\ listeners[i].join \in Nat /\ 0 < listeners[i].join
<1>1. /\ Len(listeners) \in Nat /\ DOMAIN listeners = 1 .. Len(listeners)
      /\ \A i \in DOMAIN listeners : listeners[i] \in Members
  BY DEF StoreShape
<1> QED BY <1>1, MemberIs

(* The stack of walks: one more, and the innermost replaced or ended.      *)
LEMMA Pushes ==
  ASSUME StoreShape, NEW w \in Walks, walks' = Append(walks, w)
  PROVE  /\ walks' \in Seq(Walks) /\ Len(walks) + 1 \in DOMAIN walks' /\ walks'[Len(walks) + 1] = w
         /\ \A n \in DOMAIN walks : n \in DOMAIN walks' /\ walks'[n] = walks[n]
  BY DEF StoreShape

LEMMA Innermost ==
  ASSUME StoreShape, walks # <<>>
  PROVE  /\ Len(walks) \in DOMAIN walks /\ Last(walks) = walks[Len(walks)] /\ Last(walks) \in Walks
         /\ Front(walks) \in Seq(Walks) /\ DOMAIN Front(walks) = 1 .. Len(walks) - 1
         /\ \A n \in DOMAIN Front(walks) : Front(walks)[n] = walks[n]
<1>1. /\ Len(walks) \in Nat \ {0} /\ DOMAIN walks = 1 .. Len(walks)
      /\ \A n \in 1 .. Len(walks) : walks[n] \in Walks
  BY DEF StoreShape
<1>2. Len(walks) - 1 \in 0 .. Len(walks) /\ Front(walks) = SubSeq(walks, 1, Len(walks) - 1)
  BY <1>1 DEF Front
<1>3. /\ DOMAIN Front(walks) = 1 .. Len(walks) - 1
      /\ \A n \in 1 .. Len(walks) - 1 : Front(walks)[n] = walks[n]
      /\ Front(walks) \in Seq(Walks)
  BY <1>1, <1>2 DEF StoreShape
<1> QED BY <1>1, <1>3 DEF Last

LEMMA Replaces ==
  ASSUME StoreShape, walks # <<>>, NEW w \in Walks,
         walks' = [walks EXCEPT ![Len(walks)] = w]
  PROVE  /\ walks' \in Seq(Walks) /\ DOMAIN walks' = DOMAIN walks /\ walks'[Len(walks)] = w
         /\ \A n \in DOMAIN walks : n # Len(walks) => walks'[n] = walks[n]
<1>1. Len(walks) \in Nat \ {0} /\ DOMAIN walks = 1 .. Len(walks) /\ walks \in Seq(Walks)
  BY DEF StoreShape
<1> QED BY <1>1

(* A member is still awaited when the walk that will come to it goes on.   *)
LEMMA AwaitedStays ==
  ASSUME NEW m, Awaited(m),
         \A n \in DOMAIN walks : ~walks[n].last /\ walks[n].at < m.join =>
           n \in DOMAIN walks' /\ ~walks'[n].last /\ walks'[n].at < m.join
  PROVE  Awaited(m)'
  BY DEF Awaited

-----------------------------------------------------------------------------
LEMMA SetKeeps == ASSUME StoreInv, Set PROVE StoreInv'
<1> DEFINE w == [at |-> 0, last |-> FALSE, telling |-> Nobody]
<1>1. w \in Walks /\ walks' = Append(walks, w) /\ UNCHANGED <<listeners, joins, told, broke>>
      /\ value' = value + 1
  BY DEF Set, Walks
<1>2. /\ walks' \in Seq(Walks) /\ Len(walks) + 1 \in DOMAIN walks' /\ walks'[Len(walks) + 1] = w
  BY <1>1, Pushes DEF StoreInv
<1>3. StoreShape' /\ InOrder'
  BY <1>1, <1>2 DEF StoreInv, StoreShape, InOrder
<1>4. ASSUME NEW i \in DOMAIN listeners PROVE Awaited(listeners[i])'
  <2>1. listeners'[i] = listeners[i] /\ 0 < listeners[i].join
    BY <1>1, ListenersAre DEF StoreInv
  <2> QED BY <1>2, <2>1 DEF Awaited
<1>5. AllServed'
  BY <1>1, <1>4 DEF AllServed, Served, Awaited
<1> QED BY <1>3, <1>5 DEF StoreInv

(* The first member that the innermost walk has not passed, if any.        *)
FirstAhead(a) == SelectInSeq(listeners, LAMBDA m : m.join > a)

LEMMA AheadIs ==
  ASSUME StoreInv, NEW a \in Nat
  PROVE  \/ FirstAhead(a) = 0 /\ \A i \in DOMAIN listeners : listeners[i].join <= a
         \/ /\ FirstAhead(a) \in DOMAIN listeners /\ listeners[FirstAhead(a)].join > a
            /\ \A i \in DOMAIN listeners : i < FirstAhead(a) => listeners[i].join <= a
<1> DEFINE I == {i \in 1 .. Len(listeners) : listeners[i].join > a}
<1>1. FirstAhead(a) = IF I # {} THEN Min(I) ELSE 0
  BY Zenon DEF FirstAhead, SelectInSeq
<1>2. /\ DOMAIN listeners = 1 .. Len(listeners) /\ Len(listeners) \in Nat
      /\ \A i \in DOMAIN listeners : listeners[i].join \in Nat
  BY ListenersAre DEF StoreInv
<1>3. CASE I = {}
  <2>1. \A i \in DOMAIN listeners : ~(listeners[i].join > a)
    BY <1>2, <1>3
  <2>2. \A i \in DOMAIN listeners : listeners[i].join <= a
    BY <1>2, <2>1
  <2>3. FirstAhead(a) = 0
    BY <1>1, <1>3
  <2> QED BY ONLY <2>2, <2>3
<1>4. CASE I # {}
  <2>1. I \in SUBSET Nat
    BY <1>2
  <2>2. \E x \in I : \A y \in I : x <= y
    BY <1>4, <2>1, NatMin
  <2>3. Min(I) \in I /\ \A y \in I : Min(I) <= y
    BY <2>2 DEF Min
  <2>4. FirstAhead(a) \in I /\ \A y \in I : FirstAhead(a) <= y
    BY <1>1, <1>4, <2>3
  <2>5. ASSUME NEW i \in DOMAIN listeners, i < FirstAhead(a) PROVE listeners[i].join <= a
    <3>1. FirstAhead(a) \in Nat /\ i \in Nat /\ i \notin I
      BY <1>2, <2>4, <2>5
    <3> QED BY <1>2, <3>1
  <2>6. FirstAhead(a) \in DOMAIN listeners /\ listeners[FirstAhead(a)].join > a
    BY <1>2, <2>4
  <2> QED BY ONLY <2>5, <2>6
<1> QED BY ONLY <1>3, <1>4

LEMMA AdvanceKeeps == ASSUME StoreInv, Advance PROVE StoreInv'
<1> DEFINE top   == Last(walks)
           ahead == FirstAhead(top.at)
<1>1. /\ walks # <<>> /\ UNCHANGED <<listeners, joins, broke, value>>
      /\ IF ahead = 0 \/ top.last
         THEN walks' = Front(walks) /\ UNCHANGED told
         ELSE Visited(listeners[ahead])
  BY DEF Advance, Visited, FirstAhead
<1>2. /\ Len(walks) \in DOMAIN walks /\ top = walks[Len(walks)] /\ top \in Walks
      /\ Front(walks) \in Seq(Walks) /\ DOMAIN Front(walks) = 1 .. Len(walks) - 1
      /\ \A n \in DOMAIN Front(walks) : Front(walks)[n] = walks[n]
      /\ DOMAIN walks = 1 .. Len(walks) /\ Len(walks) \in Nat
  BY <1>1, Innermost DEF StoreInv, StoreShape
<1>3. top.at \in Nat /\ top.last \in BOOLEAN
  BY <1>2 DEF Walks
<1>4. \/ ahead = 0 /\ \A i \in DOMAIN listeners : listeners[i].join <= top.at
      \/ /\ ahead \in DOMAIN listeners /\ listeners[ahead].join > top.at
         /\ \A i \in DOMAIN listeners : i < ahead => listeners[i].join <= top.at
  BY <1>3, AheadIs
<1>5. \A i \in DOMAIN listeners : listeners[i] \in Members /\ listeners[i].join \in Nat
                                  /\ listeners[i].who \in Listeners
  BY ListenersAre DEF StoreInv
<1>6. InOrder'
  BY <1>1 DEF StoreInv, InOrder
<1> HIDE DEF ahead, top
<1>7. CASE ahead = 0 \/ top.last
  <2>1. walks' = Front(walks) /\ UNCHANGED told
    BY <1>1, <1>7
  <2>2. StoreShape'
    BY <1>1, <1>2, <2>1 DEF StoreInv, StoreShape
  <2>3. ASSUME NEW i \in DOMAIN listeners, Awaited(listeners[i]) PROVE Awaited(listeners[i])'
    <3>1. PICK n \in DOMAIN walks : ~walks[n].last /\ walks[n].at < listeners[i].join
      BY <2>3 DEF Awaited
    <3>2. n # Len(walks)
      <4>1. CASE top.last
        BY <1>2, <3>1, <4>1
      <4>2. CASE ahead = 0
        <5>1. ahead \notin DOMAIN listeners
          BY <4>2, ListenersAre DEF StoreInv
        <5>2. listeners[i].join <= top.at /\ listeners[i].join \in Nat
          BY <1>4, <1>5, <5>1
        <5> QED BY <1>2, <1>3, <3>1, <5>2
      <4> QED BY <1>7, <4>1, <4>2
    <3>3. n \in DOMAIN walks' /\ walks'[n] = walks[n]
      BY <1>2, <2>1, <3>2
    <3> QED BY <1>1, <3>1, <3>3 DEF Awaited
  <2>4. AllServed'
    BY <1>1, <2>1, <2>3 DEF StoreInv, AllServed, Served, Awaited
  <2> QED BY <1>6, <2>2, <2>4 DEF StoreInv
<1>8. CASE ~(ahead = 0 \/ top.last)
  <2> DEFINE m == listeners[ahead]
             w == [top EXCEPT !.at = m.join, !.telling = m.who]
  <2>1. /\ Visited(m) /\ ahead \in DOMAIN listeners /\ m \in Members
        /\ m.join \in Nat /\ m.who \in Listeners
    BY <1>1, <1>4, <1>5, <1>8
  <2>2. /\ walks' = [walks EXCEPT ![Len(walks)] = w]
        /\ told' = [told EXCEPT ![m.who] = value']
    BY <1>2, <2>1 DEF Visited, Tell
  <2>3. w \in Walks /\ w.at = m.join /\ w.last = top.last
    BY <1>2, <2>1 DEF Walks
  <2> HIDE DEF w
  <2>4. /\ walks' \in Seq(Walks) /\ DOMAIN walks' = DOMAIN walks /\ walks'[Len(walks)] = w
        /\ \A n \in DOMAIN walks : n # Len(walks) => walks'[n] = walks[n]
    BY <1>1, <2>2, <2>3, Replaces DEF StoreInv
  <2>5. StoreShape'
    BY <1>1, <2>1, <2>2, <2>4 DEF StoreInv, StoreShape
  <2>6. ASSUME NEW i \in DOMAIN listeners, Served(listeners[i]) PROVE Served(listeners[i])'
    <3>1. /\ value' = value /\ listeners' = listeners /\ told \in [Listeners -> Nat]
          /\ listeners[i].who \in Listeners
      BY <1>1, <1>5 DEF StoreInv, StoreShape
    <3>2. CASE told[listeners[i].who] = value
      BY <2>1, <2>2, <3>1, <3>2 DEF Served
    <3>3. CASE i = ahead
      BY <2>1, <2>2, <3>1, <3>3 DEF Served
    <3>4. CASE Awaited(listeners[i]) /\ i # ahead
      <4>1. PICK n \in DOMAIN walks : ~walks[n].last /\ walks[n].at < listeners[i].join
        BY <3>4 DEF Awaited
      <4>2. CASE n # Len(walks)
        BY <2>4, <3>1, <4>1, <4>2 DEF Served, Awaited
      <4>3. CASE n = Len(walks)
        <5>1. top.at < listeners[i].join
          BY <1>2, <4>1, <4>3
        <5>2. ~(i < ahead)
          BY <1>3, <1>4, <1>5, <1>8, <5>1
        <5>3. i \in Nat /\ ahead \in Nat /\ ahead < i
          BY <2>1, <3>4, <5>2 DEF StoreInv, StoreShape
        <5>4. m.join < listeners[i].join
          BY <2>1, <5>3 DEF StoreInv, InOrder
        <5>5. ~walks'[n].last /\ walks'[n].at < listeners'[i].join /\ n \in DOMAIN walks'
          BY <1>2, <2>3, <2>4, <3>1, <4>1, <4>3, <5>4
        <5> QED BY <5>5 DEF Served, Awaited
      <4> QED BY <4>2, <4>3
    <3> QED BY <2>6, <3>2, <3>3, <3>4 DEF Served
  <2>7. AllServed'
    BY <1>1, <2>6 DEF StoreInv, AllServed, Served, Awaited
  <2> QED BY <1>6, <2>5, <2>7 DEF StoreInv
<1> QED BY <1>7, <1>8

LEMMA ReturnsKeeps == ASSUME StoreInv, Returns PROVE StoreInv'
<1> DEFINE top == Last(walks)
           w   == [top EXCEPT !.telling = Nobody]
<1>1. walks # <<>> /\ UNCHANGED <<value, listeners, joins, told, broke>>
  BY DEF Returns
<1>2. /\ Len(walks) \in DOMAIN walks /\ top = walks[Len(walks)] /\ top \in Walks
  BY <1>1, Innermost DEF StoreInv
<1>3. walks' = [walks EXCEPT ![Len(walks)] = w]
  BY <1>2 DEF Returns
<1>4. w \in Walks /\ w.at = top.at /\ w.last = top.last
  BY <1>2 DEF Walks
<1> HIDE DEF w, top
<1>5. /\ walks' \in Seq(Walks) /\ DOMAIN walks' = DOMAIN walks /\ walks'[Len(walks)] = w
      /\ \A n \in DOMAIN walks : n # Len(walks) => walks'[n] = walks[n]
  BY <1>1, <1>3, <1>4, Replaces DEF StoreInv
<1>6. \A n \in DOMAIN walks : walks'[n].at = walks[n].at /\ walks'[n].last = walks[n].last
  BY <1>2, <1>4, <1>5
<1>7. AllServed'
  BY <1>1, <1>5, <1>6 DEF StoreInv, AllServed, Served, Awaited
<1> QED BY <1>1, <1>5, <1>7 DEF StoreInv, StoreShape, InOrder

LEMMA JoinKeeps == ASSUME StoreInv, NEW l \in Listeners, Join(l) PROVE StoreInv'
<1> DEFINE w == [at |-> 0, last |-> TRUE, telling |-> l]
           m == [who |-> l, join |-> joins + 1]
<1>1. /\ joins' = joins + 1 /\ UNCHANGED <<value, broke>> /\ walks' = Append(walks, w)
      /\ told' = [told EXCEPT ![l] = value] /\ w \in Walks
      /\ listeners' = IF l \in Who THEN listeners ELSE Append(listeners, m)
  BY DEF Join, Tell, Walks
<1>2. /\ walks' \in Seq(Walks)
      /\ \A n \in DOMAIN walks : n \in DOMAIN walks' /\ walks'[n] = walks[n]
  BY <1>1, Pushes DEF StoreInv
<1>3. /\ m \in Members /\ m.who = l /\ m.join = joins + 1
      /\ listeners \in Seq(Members) /\ joins \in Nat /\ told \in [Listeners -> Nat] /\ value \in Nat
  BY DEF StoreInv, StoreShape, Members
<1> HIDE DEF w, m
<1>4. ASSUME NEW x \in Members, Served(x) PROVE told'[x.who] = value' \/ Awaited(x)'
  <2>1. CASE told[x.who] = value
    <3>1. x.who \in Listeners
      BY DEF Members
    <3> QED BY <1>1, <1>3, <2>1, <3>1
  <2>2. CASE Awaited(x)
    BY <1>2, <2>2 DEF Awaited
  <2> QED BY <1>4, <2>1, <2>2 DEF Served
<1>5. CASE listeners' = listeners
  <2>1. \A i \in DOMAIN listeners : listeners[i] \in Members
    BY <1>3
  <2>2. AllServed'
    BY <1>1, <1>4, <1>5, <2>1 DEF StoreInv, AllServed, Served, Awaited
  <2>3. InOrder'
    <3>1. \A i \in DOMAIN listeners : listeners[i].join <= joins /\ listeners[i].join \in Nat
      BY ListenersAre DEF StoreInv, InOrder
    <3>2. \A i \in DOMAIN listeners : listeners[i].join <= joins + 1
      BY <1>3, <3>1
    <3> QED BY <1>1, <1>5, <3>2 DEF StoreInv, InOrder
  <2> QED BY <1>1, <1>2, <1>3, <1>5, <2>2, <2>3 DEF StoreInv, StoreShape
<1>6. CASE listeners' = Append(listeners, m)
  <2>1. /\ listeners' \in Seq(Members) /\ Len(listeners) \in Nat
        /\ DOMAIN listeners = 1 .. Len(listeners) /\ DOMAIN listeners' = 1 .. Len(listeners) + 1
        /\ listeners'[Len(listeners) + 1] = m
        /\ \A i \in DOMAIN listeners : listeners'[i] = listeners[i] /\ listeners[i] \in Members
                                       /\ listeners[i].join \in Nat
    BY <1>3, <1>6, ListenersAre DEF StoreInv
  <2>2. InOrder'
    <3>1. \A i \in DOMAIN listeners : listeners[i].join <= joins
      BY DEF StoreInv, InOrder
    <3>2. \A i \in DOMAIN listeners' : listeners'[i].join <= joins'
      BY <1>1, <1>3, <2>1, <3>1
    <3>3. ASSUME NEW i \in DOMAIN listeners', NEW j \in DOMAIN listeners', i < j
          PROVE  listeners'[i].join < listeners'[j].join
      <4>1. i \in DOMAIN listeners /\ (j \in DOMAIN listeners \/ j = Len(listeners) + 1)
        BY <2>1, <3>3
      <4>2. CASE j \in DOMAIN listeners
        BY <2>1, <3>3, <4>1, <4>2 DEF StoreInv, InOrder
      <4>3. CASE j = Len(listeners) + 1
        BY <1>3, <2>1, <3>1, <4>1, <4>3
      <4> QED BY <4>1, <4>2, <4>3
    <3> QED BY <3>2, <3>3 DEF InOrder
  <2>3. told'[m.who] = value'
    BY <1>1, <1>3
  <2>4. ASSUME ~broke', NEW i \in DOMAIN listeners'
        PROVE  Served(listeners[i])'
    <3>1. CASE i = Len(listeners) + 1
      BY <2>1, <2>3, <3>1 DEF Served
    <3>2. CASE i \in DOMAIN listeners
      <4>1. PICK x \in Members : x = listeners[i] /\ x = listeners'[i]
        BY <2>1, <3>2
      <4>2. Served(x)
        BY <1>1, <2>4, <3>2, <4>1 DEF StoreInv, AllServed, Served, Awaited
      <4>3. told'[x.who] = value' \/ Awaited(x)'
        BY <1>4, <4>2
      <4> QED BY <4>1, <4>3 DEF Served, Awaited
    <3> QED BY <2>1, <3>1, <3>2
  <2>5. AllServed'
    BY <2>4 DEF AllServed
  <2> QED BY <1>1, <1>2, <1>3, <2>1, <2>2, <2>5 DEF StoreInv, StoreShape
<1> QED BY <1>1, <1>5, <1>6

(* Deleting one member leaves the others in their order.                   *)
LEMMA LeaveKeeps == ASSUME StoreInv, NEW l \in Listeners, Leave(l) PROVE StoreInv'
<1>1. /\ UNCHANGED <<value, joins, walks, told, broke>>
      /\ listeners \in Seq(Members)
  BY DEF Leave, StoreInv, StoreShape
<1>2. PICK d \in DOMAIN listeners : listeners' = RemoveAt(listeners, d)
  BY DEF Leave
<1>3. /\ Len(listeners) \in Nat /\ DOMAIN listeners = 1 .. Len(listeners) /\ d \in Nat
      /\ 1 <= d /\ d <= Len(listeners)
  BY <1>1
<1>4. /\ listeners' \in Seq(Members)
      /\ DOMAIN listeners' = 1 .. Len(listeners) - 1
      /\ \A i \in 1 .. Len(listeners) - 1 :
           listeners'[i] = IF i < d THEN listeners[i] ELSE listeners[i + 1]
  BY <1>1, <1>2, RemoveOne
<1>5. ASSUME NEW i \in DOMAIN listeners'
      PROVE  \E j \in DOMAIN listeners : listeners'[i] = listeners[j]
  <2>1. CASE i < d
    BY <1>3, <1>4, <2>1
  <2>2. CASE ~(i < d)
    <3>1. i + 1 \in DOMAIN listeners /\ listeners'[i] = listeners[i + 1]
      BY <1>3, <1>4, <2>2
    <3> QED BY <3>1
  <2> QED BY <2>1, <2>2
<1>6. InOrder'
  <2>1. \A i \in DOMAIN listeners' : listeners'[i].join <= joins'
    BY <1>1, <1>5 DEF StoreInv, InOrder
  <2>2. ASSUME NEW i \in DOMAIN listeners', NEW j \in DOMAIN listeners', i < j
        PROVE  listeners'[i].join < listeners'[j].join
    <3> DEFINE p == IF i < d THEN i ELSE i + 1
               q == IF j < d THEN j ELSE j + 1
    <3>1. p \in DOMAIN listeners /\ q \in DOMAIN listeners /\ p < q
      BY <1>3, <1>4, <2>2
    <3>2. listeners'[i] = listeners[p] /\ listeners'[j] = listeners[q]
      BY <1>4
    <3> QED BY <3>1, <3>2 DEF StoreInv, InOrder
  <2> QED BY <2>1, <2>2 DEF InOrder
<1>7. AllServed'
  BY <1>1, <1>5 DEF StoreInv, AllServed, Served, Awaited
<1> QED BY <1>1, <1>4, <1>6, <1>7 DEF StoreInv, StoreShape

LEMMA StoreInvNext == StoreInv /\ [StoreNext]_storeVars => StoreInv'
<1> SUFFICES ASSUME StoreInv, [StoreNext]_storeVars PROVE StoreInv'
  OBVIOUS
<1>1. CASE UNCHANGED storeVars
  BY <1>1 DEF storeVars, StoreInv, StoreShape, InOrder, AllServed, Served, Awaited
<1>2. CASE Throws
  BY <1>2 DEF Throws, StoreInv, StoreShape, InOrder, AllServed
<1> QED
  BY <1>1, <1>2, SetKeeps, AdvanceKeeps, ReturnsKeeps, JoinKeeps, LeaveKeeps DEF StoreNext

(* However listeners set the value, join and leave while they are told,    *)
(* when the calls are over each has last been told the present value       *)
(* (core.js:15-26), for any listeners, sets and nesting.                   *)
THEOREM ListenersAreTold == StoreInit /\ [][StoreNext]_storeVars => []ToldLast
  BY StoreInitOK, StoreInvNext, StoreInvTold, PTL
=============================================================================
