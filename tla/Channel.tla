------------------------------ MODULE Channel -------------------------------
(***************************************************************************)
(* What becomes of one thing a hotel sends to a guest over WhatsApp or     *)
(* Instagram: which payloads a channel can express, which provider calls   *)
(* it takes, and how each of them may end                                  *)
(* (services/whatsapp.send.service.ts, services/instagram.send.service.ts, *)
(* services/channel.send.service.ts, services/templates.service.ts,        *)
(* services/outbound/).  Every operator is the set of possible outcomes.   *)
(*                                                                         *)
(* hotel is what the hotel has set up: hotel.whatsapp and hotel.instagram. *)
(***************************************************************************)
EXTENDS Integers, SequencesExt

Outcome ==
    {"sent",      \* the provider accepted all of it
     "mocked",    \* nothing was sent, and the sender is told it was
     "declined",  \* nothing was sent, and the sender is told so
     "refused",   \* nothing was accepted: the call throws
     "part",      \* some of it was accepted: the call throws
     "lost"}      \* all of it was accepted, and the call throws

\* What the sender is told, and what the guest gets.
Accepted(o) == o \in {"sent", "mocked"}
Reaches(o) == o \in {"sent", "lost"}
Fails(o) == o \in {"refused", "part", "lost"}

\* One call after another: the second is made when the first did not throw.
Joined(first, second) ==
    IF first = "mocked" THEN second
    ELSE IF first # "sent" THEN first
    ELSE IF second = "sent" THEN "sent" ELSE "part"
Both(firsts, seconds) == {Joined(a, b) : a \in firsts, b \in seconds}

-----------------------------------------------------------------------------
(* Calls to Meta *)

\* A POST is accepted, refused for good (4xx), or fails in a way that may pass:
\* no answer within 15 seconds, 429 or 5xx.
MetaPost == {"sent", "refused", "busy"}

\* `retries` more attempts while the failure may pass.
WithRetry[retries \in 0 .. 3] ==
    (MetaPost \ {"busy"}) \cup (IF retries = 0 THEN {"refused"} ELSE WithRetry[retries - 1])

WithMetaRetry == WithRetry[2]

-----------------------------------------------------------------------------
(* WhatsApp: hotel.whatsapp is "none" (no credentials), "mock" or "ready". *)

MockMode(hotel) == hotel.whatsapp # "ready"

SendTextMessage(hotel) == IF MockMode(hotel) THEN {"mocked"} ELSE WithRetry[3]

\* Only a public URL can be sent.
SendMediaMessage(hotel, p) ==
    IF MockMode(hotel) THEN {"mocked"} ELSE IF p.public THEN WithRetry[3] ELSE {"refused"}

\* An interactive message whose answer bears no id counts as failed.
Interactive == WithRetry[3] \cup {"lost"}
SendListMessage(hotel) == IF hotel.whatsapp = "mock" THEN {"mocked"} ELSE Interactive
SendButtonMessage(hotel) == IF hotel.whatsapp = "mock" THEN {"mocked"} ELSE Interactive
SendCarouselMessage(hotel, p) ==
    IF hotel.whatsapp = "mock" THEN {"mocked"} ELSE IF p.size = 0 THEN {"refused"} ELSE Interactive

\* What a media header is sent with: a URL given for this send, an uploaded
\* media id or a stored URL.  A sample URL synced from Meta is none of them.
HeaderParameter(p) == p.header = "none" \/ p.header \in {"given", "media id", "stored"}

\* No conversation over Instagram, and mock mode is not looked at.
TemplateAllowed(hotel, insta, p) == p.approved /\ ~insta /\ hotel.whatsapp # "none"

\* A row that cannot be written throws after the send.
SendTemplateMessage(hotel, insta, p) ==
    IF TemplateAllowed(hotel, insta, p) /\ HeaderParameter(p) THEN WithMetaRetry \cup {"lost"} ELSE {"refused"}

RenderWhatsApp(hotel, p) ==
    CASE p.kind = "text"     -> SendTextMessage(hotel)
      [] p.kind = "media"    -> SendMediaMessage(hotel, p)
      [] p.kind = "template" -> SendTemplateMessage(hotel, FALSE, p)
      [] MockMode(hotel) /\ p.kind \in {"choice", "buttons", "cards"} -> {"declined"}
      [] ~MockMode(hotel) /\ p.kind = "choice"  -> SendListMessage(hotel)
      [] ~MockMode(hotel) /\ p.kind = "buttons" -> SendButtonMessage(hotel)
      [] ~MockMode(hotel) /\ p.kind = "cards"   ->
            IF p.size < 2 THEN {"declined"} ELSE SendCarouselMessage(hotel, p)

-----------------------------------------------------------------------------
(* Instagram: hotel.instagram is "disabled", "none" (no token), "mock",    *)
(* "unfinished" (no account id) or "ready".                                *)

Dispatch(hotel) ==
    CASE hotel.instagram \in {"disabled", "none", "unfinished"} -> {"refused"}
      [] hotel.instagram = "mock"  -> {"mocked"}
      [] hotel.instagram = "ready" -> WithRetry[3]

\* A text is a sequence of Word, Space and Break (a newline).
Word == "word"
Space == "space"
Break == "break"
TrimEnd(t) == SubSeq(t, 1, LET last == {i \in DOMAIN t : t[i] = Word} IN IF last = {} THEN 0 ELSE Max(last))
TrimStart(t) == SubSeq(t, LET first == {i \in DOMAIN t : t[i] = Word} IN IF first = {} THEN Len(t) + 1 ELSE Min(first), Len(t))

\* The text is cut before the last paragraph break of what fits, else before
\* the last newline, else before the last space, else where it is full; a cut
\* at the very start is none.
Cut(t, limit) ==
    LET last(S) == IF S = {} THEN 0 ELSE Max(S)
        paragraph == last({i \in 1 .. limit - 2 : t[i + 1] = Break /\ t[i + 2] = Break})
        line == last({i \in 1 .. limit - 1 : t[i + 1] = Break})
        space == last({i \in 1 .. limit - 1 : t[i + 1] = Space})
    IN IF paragraph > 0 THEN paragraph ELSE IF line > 0 THEN line ELSE IF space > 0 THEN space ELSE limit

SplitInstagramMessage[t \in Seq({Word, Space, Break}), limit \in Nat \ {0}] ==
    IF Len(t) <= limit THEN IF t = <<>> THEN <<>> ELSE <<t>>
    ELSE <<TrimEnd(SubSeq(t, 1, Cut(t, limit)))>>
            \o SplitInstagramMessage[TrimStart(SubSeq(t, Cut(t, limit) + 1, Len(t))), limit]

\* No chunk is too long, no word is lost or moved, and only a text that begins
\* blank has an empty chunk (which Meta refuses).
ASSUME SplittingKeepsTheText ==
    \A t \in UNION {[1 .. n -> {Word, Space, Break}] : n \in 1 .. 6} :
        LET chunks == SplitInstagramMessage[t, 3]
            Words(u) == SelectSeq(u, LAMBDA c : c = Word)
        IN /\ \A i \in DOMAIN chunks : Len(chunks[i]) <= 3
           /\ Words(FlattenSeq(chunks)) = Words(t)
           /\ \A i \in DOMAIN chunks : chunks[i] = <<>> => i = 1 /\ t[1] # Word

\* A text of that many chunks, sent one after the other.
SendInstagramTextMessage(hotel, chunks) ==
    LET sending[n \in 1 .. chunks] ==
            IF n = 1 THEN Dispatch(hotel) ELSE Both(sending[n - 1], Dispatch(hotel))
    IN sending[chunks]

\* A caption has no place in an attachment and is sent after it.
SendInstagramMedia(hotel, p) ==
    IF p.caption = 0 THEN Dispatch(hotel)
    ELSE Both(Dispatch(hotel), SendInstagramTextMessage(hotel, p.caption))

\* A body text has no place in a generic template and is sent before it.
SendInstagramCards(hotel, p) ==
    IF p.body = 0 THEN Dispatch(hotel)
    ELSE Both(SendInstagramTextMessage(hotel, p.body), Dispatch(hotel))

\* Thirteen quick replies, three buttons below 640 characters of text; no
\* documents and no templates.
Unsupported(p) ==
    \/ p.kind = "template"
    \/ p.kind = "media" /\ p.document
    \/ p.kind = "choice" /\ p.size \notin 1 .. 13
    \/ p.kind = "buttons" /\ (p.size > 3 \/ ~p.fits)
    \/ p.kind = "cards" /\ p.size = 0

RenderInstagram(hotel, p) ==
    IF p.kind = "text" THEN SendInstagramTextMessage(hotel, p.chunks)
    ELSE IF hotel.instagram = "disabled" \/ Unsupported(p) THEN {"declined"}
    ELSE CASE p.kind = "media" -> SendInstagramMedia(hotel, p)
           [] p.kind \in {"choice", "buttons", "cards"} /\ hotel.instagram = "mock" -> {"declined"}
           [] p.kind \in {"choice", "buttons"} /\ hotel.instagram # "mock" -> Dispatch(hotel)
           [] p.kind = "cards" /\ hotel.instagram # "mock" -> SendInstagramCards(hotel, p)

-----------------------------------------------------------------------------
\* A text over the guest's channel.
SendChannelMessage(hotel, insta, chunks) ==
    IF insta THEN SendInstagramTextMessage(hotel, chunks) ELSE SendTextMessage(hotel)

Rendered(hotel, insta, p) == IF insta THEN RenderInstagram(hotel, p) ELSE RenderWhatsApp(hotel, p)

\* A template writes its own row.
SelfPersisted(p) == p.kind = "template"
=============================================================================
