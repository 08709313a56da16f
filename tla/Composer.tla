------------------------------- MODULE Composer -------------------------------
(***************************************************************************)
(* The composer of a form, priv/ui/js/composer.js (wiregrid.js:18-95 is    *)
(* the same code): it hands the draft to onSubmit, which takes its time,   *)
(* and clears the field if what was sent is still there.  The field and    *)
(* the mark "submitting" belong to the form and outlive a composer; what a *)
(* composer still waits for outlives it as well.                           *)
(***************************************************************************)
EXTENDS Integers, FiniteSets

CONSTANTS
  Texts,         \* texts that may be sent
  Long,          \* a text over the byte limit
  Blank,
  MaxInputs,     \* bound: changes of the field
  MaxSends,      \* bound: calls of onSubmit
  MaxComposers   \* bound: composers bound to the form, one after another

ASSUME ComposerConstants ==
  /\ Long \notin Texts /\ Blank \notin Texts \cup {Long}
  /\ {MaxInputs, MaxSends} \subseteq Nat /\ MaxComposers \in Nat \ {0}

VARIABLES
  field,         \* textarea.value
  submitting,    \* form.dataset.submitting
  composer,      \* number of the present composer
  bound,         \* it has not been destroyed
  revision,      \* its count of inputs
  sends,         \* calls of onSubmit and how far they are
  inputs,        \* bound, see MaxInputs
  again          \* history: a composer was destroyed a second time

composerVars == <<field, submitting, composer, bound, revision, sends, inputs, again>>

AnyText == Texts \cup {Long, Blank}
Unused  == [by |-> 0, value |-> Blank, revision |-> 0, stage |-> "none", edited |-> FALSE]

ComposerInit ==
  /\ field = Blank /\ submitting = FALSE /\ composer = 1 /\ bound = TRUE
  /\ revision = 0 /\ sends = [k \in 1 .. MaxSends |-> Unused]
  /\ inputs = 0 /\ again = FALSE

InFlight(k)  == sends[k].stage \in {"sending", "reporting"}
Mine(k)      == bound /\ sends[k].by = composer
At(k, stage) == sends' = [sends EXCEPT ![k].stage = stage]

-----------------------------------------------------------------------------
(* The user types; "edited" remembers it of each call that is under way.   *)
Input(t) ==
  /\ inputs < MaxInputs /\ inputs' = inputs + 1
  /\ field' = t
  /\ revision' = IF bound THEN revision + 1 ELSE revision
  /\ sends' = [k \in DOMAIN sends |-> [sends[k] EXCEPT !.edited = @ \/ InFlight(k)]]
  /\ UNCHANGED <<submitting, composer, bound, again>>

(* A program sets the field: there is no input event.                      *)
Assign(t) ==
  /\ inputs < MaxInputs /\ inputs' = inputs + 1
  /\ field' = t
  /\ UNCHANGED <<submitting, composer, bound, revision, sends, again>>

(* Mutant of Submit: nothing marks the form while a call is under way.     *)
MutantSubmit(k) ==
  /\ bound /\ field \in Texts /\ sends[k] = Unused
  /\ \A j \in 1 .. k - 1 : sends[j] # Unused
  /\ submitting' = FALSE
  /\ sends' = [sends EXCEPT ![k] =
       [by |-> composer, value |-> field, revision |-> revision,
        stage |-> "sending", edited |-> FALSE]]
  /\ UNCHANGED <<field, composer, bound, revision, inputs, again>>

(* submit, by a key, the form's event or a program: the k-th call.         *)
Submit(k) ==
  /\ bound /\ field \in Texts /\ ~submitting /\ sends[k] = Unused
  /\ \A j \in 1 .. k - 1 : sends[j] # Unused
  /\ submitting' = TRUE
  /\ sends' = [sends EXCEPT ![k] =
       [by |-> composer, value |-> field, revision |-> revision,
        stage |-> "sending", edited |-> FALSE]]
  /\ UNCHANGED <<field, composer, bound, revision, inputs, again>>

(* Mutant of Resolve: it compares the text and no revision.                *)
MutantResolve(k, accepted) ==
  /\ sends[k].stage = "sending"
  /\ At(k, IF accepted THEN "sent" ELSE "kept")
  /\ field' = IF Mine(k) /\ accepted /\ field = sends[k].value THEN Blank ELSE field
  /\ submitting' = (submitting /\ ~Mine(k))
  /\ UNCHANGED <<composer, bound, revision, inputs, again>>

(* The call has returned; FALSE keeps the draft.                           *)
Resolve(k, accepted) ==
  /\ sends[k].stage = "sending"
  /\ At(k, IF accepted THEN "sent" ELSE "kept")
  /\ field' = IF Mine(k) /\ accepted /\ field = sends[k].value
                         /\ revision = sends[k].revision THEN Blank ELSE field
  /\ submitting' = (submitting /\ ~Mine(k))
  /\ UNCHANGED <<composer, bound, revision, inputs, again>>

(* The call has failed: onError is told, and waited for.                   *)
Reject(k) ==
  /\ sends[k].stage = "sending"
  /\ At(k, IF Mine(k) THEN "reporting" ELSE "failed")
  /\ UNCHANGED <<field, submitting, composer, bound, revision, inputs, again>>

Reported(k) ==
  /\ sends[k].stage = "reporting"
  /\ At(k, "failed")
  /\ submitting' = (submitting /\ ~Mine(k))
  /\ UNCHANGED <<field, composer, bound, revision, inputs, again>>

Destroy ==
  /\ bound /\ bound' = FALSE
  /\ submitting' = FALSE
  /\ UNCHANGED <<field, composer, revision, sends, inputs, again>>

(* destroy() of a composer that is destroyed already takes the mark, too.  *)
DestroyAgain ==
  /\ composer > 1 \/ ~bound
  /\ submitting' = FALSE /\ again' = TRUE
  /\ UNCHANGED <<field, composer, bound, revision, sends, inputs>>

Bind ==
  /\ ~bound /\ composer < MaxComposers
  /\ composer' = composer + 1 /\ bound' = TRUE /\ revision' = 0
  /\ UNCHANGED <<field, submitting, sends, inputs, again>>

-----------------------------------------------------------------------------
ComposerNext ==
  \/ \E t \in AnyText : Input(t) \/ Assign(t)
  \/ \E k \in DOMAIN sends : Submit(k) \/ Reject(k) \/ Reported(k)
  \/ \E k \in DOMAIN sends, ok \in BOOLEAN : Resolve(k, ok)
  \/ Destroy \/ DestroyAgain \/ Bind

ComposerSpec == ComposerInit /\ [][ComposerNext]_composerVars

-----------------------------------------------------------------------------
(* Properties.                                                             *)
ComposerTypeOK ==
  /\ field \in AnyText /\ submitting \in BOOLEAN /\ bound \in BOOLEAN
  /\ composer \in 1 .. MaxComposers /\ revision \in Nat
  /\ inputs \in 0 .. MaxInputs /\ again \in BOOLEAN
  /\ sends \in [1 .. MaxSends ->
       [by : 0 .. MaxComposers, value : Texts \cup {Blank}, revision : Nat,
        stage : {"none", "sending", "reporting", "sent", "kept", "failed"},
        edited : BOOLEAN]]

(* docs/ui.md: the composers "prevent duplicate sends".  The form is       *)
(* marked exactly while its present composer has a call under way, one at  *)
(* most, whatever calls of earlier composers end meanwhile.                *)
OneSend ==
  LET under == {k \in DOMAIN sends : InFlight(k) /\ Mine(k)}
  IN bound /\ ~again => Cardinality(under) <= 1 /\ (submitting <=> under # {})

(* docs/ui.md: they "preserve failed drafts, and keep text typed while a   *)
(* send is in flight".  When a call ends, the field changes only if that   *)
(* very text was accepted and nobody has typed since.                      *)
DraftKept ==
  [][\A k \in DOMAIN sends :
       sends[k].stage = "sending" /\ sends'[k].stage # "sending" /\ field' # field =>
         /\ sends'[k].stage = "sent" /\ field' = Blank /\ Mine(k)
         /\ field = sends[k].value /\ ~sends[k].edited]_composerVars
===============================================================================
