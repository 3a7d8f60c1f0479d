---------------------------- MODULE Confirmation -----------------------------
(***************************************************************************)
(* The plan of a confirmation: which steps a hotel's confirmation sequence *)
(* may have, which sequence a booking gets, which of its steps may be      *)
(* sent, and what the staff are shown of a send                            *)
(* (services/confirmationSequence.service.ts,                              *)
(* controllers/confirmationSequence.controller.ts,                         *)
(* services/confirmationStatus.ts).                                        *)
(***************************************************************************)
EXTENDS Integers, FiniteSets, SequencesExt

CONSTANT MAX_SEQUENCE_STEPS

RefType == {"TEMPLATE", "SAVED_REPLY"}

\* Steps are looked at in the order they are delivered in, which is not the
\* order they are listed in; equal orders stay as listed.
InOrder(steps) == SetToSortSeq(DOMAIN steps,
    LAMBDA i, j : steps[i].order < steps[j].order \/ (steps[i].order = steps[j].order /\ i < j))
Delivered(steps) == [n \in DOMAIN steps |-> steps[InOrder(steps)[n]].kind]

\* WhatsApp: a template comes first, which opens the conversation window for
\* the saved replies after it.  Instagram has no templates.
ValidateSequenceSteps(steps, channel) ==
    /\ Len(steps) \in 1 .. MAX_SEQUENCE_STEPS
    /\ \A i \in DOMAIN steps : steps[i].kind \in RefType
    /\ channel = "WHATSAPP" => Head(Delivered(steps)) = "TEMPLATE"
    /\ channel = "INSTAGRAM" => \A i \in DOMAIN steps : steps[i].kind # "TEMPLATE"

\* On WhatsApp no saved reply of a valid sequence goes out before a template.
ASSUME RepliesFollowATemplate ==
    \A n \in 1 .. 3 : \A steps \in [1 .. n -> [order : 1 .. 2, kind : RefType]] :
        ValidateSequenceSteps(steps, "WHATSAPP") =>
            \A i \in DOMAIN steps : Delivered(steps)[i] = "SAVED_REPLY" =>
                \E j \in 1 .. i - 1 : Delivered(steps)[j] = "TEMPLATE"

\* The oldest sequence scoped to the room type, else the oldest default.  plans
\* is in the order of creation.
ResolveConfirmationSequence(plans, channel, type) ==
    LET first(S) == IF S = {} THEN {} ELSE {plans[Min(S)]}
        scoped  == first({i \in DOMAIN plans : plans[i].channel = channel /\ type \in plans[i].scope})
        default == first({i \in DOMAIN plans : plans[i].channel = channel /\ plans[i].default})
    IN IF scoped # {} THEN scoped ELSE default

\* Without a sequence there is one message: an approved template, or a saved
\* reply over Instagram.
Legacy(available, channel) ==
    LET kind == IF channel = "WHATSAPP" THEN "TEMPLATE" ELSE "SAVED_REPLY"
    IN IF kind \in available THEN <<kind>> ELSE <<>>

ConfirmationPreview(plans, channel, type, available) ==
    LET plan == ResolveConfirmationSequence(plans, channel, type)
    IN IF plan = {} THEN Legacy(available, channel) ELSE Delivered((CHOOSE p \in plan : TRUE).steps)

\* What may be sent: some steps, and of those not skipped no template with an
\* empty variable.
Sendable(steps, filled) ==
    /\ steps # <<>>
    /\ \A i \in DOMAIN steps : steps[i].skip \/ steps[i].kind = "SAVED_REPLY" \/ filled

\* The checklist the staff see: the progress the job has reported, else what
\* its state tells.
ReconstructStatus(state, steps, progress) ==
    IF state = "none" THEN <<>>
    ELSE IF progress # <<>> THEN progress
    ELSE [i \in DOMAIN steps |-> IF steps[i].skip THEN "skipped" ELSE IF state = "completed" THEN "sent" ELSE "pending"]
=============================================================================
