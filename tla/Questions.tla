------------------------------ MODULE Questions ------------------------------
(***************************************************************************)
(* What buyers are told about one listing: the answers that buyer-assist   *)
(* and the broker give at once, grounded in the listing's row and in the   *)
(* scan of its version; and one question that goes to the seller, with the *)
(* draft that seller-assist makes of a reply, the reply itself, and the    *)
(* notifications about both.                                               *)
(*                                                                         *)
(* Four services work on the same rows, each request on a thread with a    *)
(* session of its own: it acts on a listing that it loaded earlier, and on *)
(* versions that it loads when it first needs them.  Meanwhile the listing *)
(* is edited, scanned, published and withdrawn (the module PublishGate has *)
(* these handlers in detail; here each is one step).                       *)
(*                                                                         *)
(* A text is abstracted to one thing it claims, which may be any part of   *)
(* an answer.  A question has one topic.                                   *)
(***************************************************************************)
EXTENDS Integers

CONSTANTS
  Price,        \* prices
  MaxVersions,  \* bound: versions of the listing
  Worker,       \* requests in flight at most
  Null

Version == 1..MaxVersions  \* in the order of created_at

VARIABLES
  offer,     \* the row of the listing, and how many versions it has
  flawed,    \* versions whose findings_summary counts some critical finding
  question,  \* the row of the question
  announced, \* the buyer has a notification of a reply
  job        \* the requests

questionVars == <<offer, flawed, question, announced, job>>
listings == <<offer, flawed>>

\* What a text can claim: a price, that the scan counted nothing critical or something,
\* the badge "Scanned - 0 critical findings" or "Unvetted Draft", what the guardrails
\* forbid whatever the listing; or nothing of the kind, as "not covered" and the
\* refusals of the guardrails.
Tally == {"zero", "some"}
Badges == {"scanned", "unvetted"}
Fact == Price \cup Tally \cup Badges
Claim == Fact \cup {"unsafe", "nothing"}

ASSUME QuestionsAssumption ==
  /\ MaxVersions \in Nat \ {0}
  /\ Price # {} /\ Price \cap (Tally \cup Badges \cup {"unsafe", "nothing"}) = {}
  /\ Null \notin Claim /\ Null \notin Version

\* Of anything else the bundle knows nothing, as of a description that is refused.
Topic == {"price", "security", "description"}

Offer == [live : BOOLEAN, price : Price, text : Claim, current : Version, newest : Version]
Question == [asked : BOOLEAN, topic : Topic, draft : Claim \cup {Null}, answered : BOOLEAN]

\* A request: the price and the status of the listing, the version on offer and
\* whether the question is answered, as loaded, and what it says in the end.  facts is
\* a history: what has been true of the price, of that version's scan and of the
\* badge since then, until something is said; and then the one that is said, if it
\* is one.
Op == {"none", "ask", "route", "create", "reply", "draft", "send"}
Job == [op : Op,
        pc : {"idle", "read", "told", "insert", "call", "check", "deliver", "store", "notify"},
        topic : Topic \cup {Null}, price : Price \cup {Null}, live : BOOLEAN,
        version : Version \cup {Null}, answered : BOOLEAN, said : Claim \cup {Null},
        facts : SUBSET Fact]
Idle == [op |-> "none", pc |-> "idle", topic |-> Null, price |-> Null, live |-> FALSE,
         version |-> Null, answered |-> FALSE, said |-> Null, facts |-> {}]

QuestionsTypeOK ==
  /\ offer \in Offer /\ flawed \subseteq Version
  /\ question \in Question /\ announced \in BOOLEAN
  /\ job \in [Worker -> Job]

QuestionsInit ==
  /\ offer \in [live : {FALSE}, price : Price, text : {"zero", "unsafe"} \cup Price,
                current : {1}, newest : {1}]
  /\ flawed = {}
  /\ question = [asked |-> FALSE, topic |-> "price", draft |-> Null, answered |-> FALSE]
  /\ announced = FALSE
  /\ job = [w \in Worker |-> Idle]

Counted(v, found) == IF v \in found THEN "some" ELSE "zero"
Counts(v) == Counted(v, flawed)

\* The badge is made of the listing's status, of no scan.
Badge(live) == IF live THEN "scanned" ELSE "unvetted"

\* What a request may tell of the listing; a draft tells nothing yet.
Tells(h, fact) ==
  \/ h.op = "send" /\ fact \in Price
  \/ h.op = "ask" /\ h.topic = "price" /\ fact \in Price
  \/ h.op = "ask" /\ h.topic = "security" /\ fact \in Tally \cup Badges
  \/ h.op = "ask" /\ h.topic = "description" /\ fact = offer.text

\* What is true of that: of the price, of the version that a request uses, and of
\* the badge.
Known(h, price, live, found) ==
  {fact \in {price, Counted(h.version, found), Badge(live)} : Tells(h, fact)}

Stands(w, op, pc) == job[w].op = op /\ job[w].pc = pc
Done(w) == job' = [job EXCEPT ![w] = Idle]

\* A request loads the listing; h says what else is known of it.  The status is kept
\* where something is said of it.
Load(w, h) ==
  job' = [job EXCEPT ![w] = [h EXCEPT
    !.price = offer.price, !.live = offer.live /\ h.topic = "security",
    !.facts = Known(h, offer.price, offer.live, flawed)]]

Begin(w, h) == job[w] = Idle /\ Load(w, h)

\* A request has its text, to tell it or to store it.
Say(w, pc, claim) ==
  job' = [job EXCEPT ![w] = [job[w] EXCEPT !.pc = pc, !.said = claim, !.facts = @ \cap {claim},
                             !.topic = Null, !.price = Null, !.live = FALSE, !.version = Null]]

-----------------------------------------------------------------------------
(* What the other handlers of the listings service do to the listing       *)

\* The requests in flight remember what has become true.
Change(price, current, newest, live, found) ==
  /\ offer' = [offer EXCEPT !.price = price, !.current = current, !.newest = newest, !.live = live]
  /\ flawed' = found
  /\ job' = [w \in Worker |->
       IF job[w].price = Null THEN job[w]
       ELSE [job[w] EXCEPT !.facts = @ \cup Known(job[w], price, live, found)]]
  /\ UNCHANGED <<question, announced>>

\* update_listing: a live listing stays live, and gets a version nobody has
\* submitted.
Edit(price) ==
  \/ /\ offer.live /\ offer.newest < MaxVersions
     /\ Change(price, offer.current, offer.newest + 1, TRUE, flawed)
  \/ /\ ~offer.live /\ price # offer.price
     /\ Change(price, offer.current, offer.newest, FALSE, flawed)

Submit ==
  /\ offer.newest < MaxVersions
  /\ Change(offer.price, offer.current, offer.newest + 1, FALSE, flawed)

\* The answer of the scan service is recorded: counts, or none where it knows
\* nothing of the version.
RecordScan(v) ==
  /\ v <= offer.newest
  /\ \E found \in {flawed \cup {v}, flawed \ {v}} \ {flawed} :
       Change(offer.price, offer.current, offer.newest, offer.live, found)

\* The gate publishes what passed.  An answer to the contrary, recorded while it works
\* on the version as it was loaded, is one that comes after it.
Publish(v) ==
  /\ v <= offer.newest /\ v \notin flawed /\ <<offer.live, offer.current>> # <<TRUE, v>>
  /\ Change(offer.price, v, offer.newest, TRUE, flawed)

Delist ==
  /\ offer.live
  /\ Change(offer.price, offer.current, offer.newest, FALSE, flawed)

-----------------------------------------------------------------------------
(* The context bundle, the answer and the guardrails (ml_shared)           *)

\* The version whose counts the bundle has.  The services for buyers pass the
\* scan of the version on offer; for a bundle made without one, as seller-assist
\* does, it is the newest version that counts.  Faulty variant: always that one.
Quoted_newest(h) == offer.newest
Quoted(h) == IF h.op \in {"draft", "send"} THEN offer.newest ELSE h.version

\* _synthesize_answer: what the bundle says on the topic.
Synthesized(h) ==
  CASE h.topic = "price" -> {h.price}
    [] h.topic = "security" -> {Counts(Quoted(h)), Badge(h.live)}
    [] h.topic = "description" -> {offer.text}

\* check_guardrails: the rules on what the scan says, on the price, and on what
\* no listing may be said to be.  "0 findings" is looked for, the badge is not.
ScanMatches(claim, h) == claim = "zero" => Counts(Quoted(h)) = "zero"
PriceMatches(claim, h) == claim \in Price => claim = h.price
Permitted(claim) == claim # "unsafe"
Allowed(claim, h) == ScanMatches(claim, h) /\ PriceMatches(claim, h) /\ Permitted(claim)

\* answer_question: fail closed, with the text of a refusal instead.
Refusal == "nothing"
Answered(h) ==
  IF \A part \in Synthesized(h) : Allowed(part, h) THEN Synthesized(h) ELSE {Refusal}

-----------------------------------------------------------------------------
(* Buyers: ask, route-question, the detail view and the search             *)

Ask(w, topic) ==
  /\ offer.live
  /\ Begin(w, [Idle EXCEPT !.op = "ask", !.pc = "read", !.topic = topic, !.version = offer.current])
  /\ UNCHANGED <<listings, question, announced>>

\* The versions are loaded and the answer is made and checked.  If it is not
\* grounded the broker, but not buyer-assist, sends the question to the seller.
Answer(w) ==
  /\ Stands(w, "ask", "read")
  /\ \/ \E part \in Answered(job[w]) : Say(w, "told", part)
     \/ /\ Answered(job[w]) = {Refusal}
        /\ job' = [job EXCEPT ![w] = [Idle EXCEPT !.op = "ask", !.pc = "insert",
                                                 !.topic = job[w].topic]]
  /\ UNCHANGED <<listings, question, announced>>

\* get_listing_detail loads the listing and then the version on offer, and shows
\* the price, the counts and the badge, unchecked: any is what Ask began to read.
View(w) ==
  /\ Stands(w, "ask", "read") /\ job[w].topic # "description"
  /\ \E part \in Synthesized(job[w]) : Say(w, "told", part)
  /\ UNCHANGED <<listings, question, announced>>

\* search_listings shows what one query returned, each with the same badge.
Search(w) ==
  /\ offer.live /\ job[w] = Idle
  /\ \E part \in {offer.price, "scanned"} :
       job' = [job EXCEPT ![w] = [Idle EXCEPT !.op = "ask", !.pc = "told", !.said = part,
                 !.facts = {offer.price, Badge(offer.live)} \cap {part}]]
  /\ UNCHANGED <<listings, question, announced>>

End(w) ==
  /\ job[w].pc = "told"
  /\ Done(w)
  /\ UNCHANGED <<listings, question, announced>>

New(topic) == [asked |-> TRUE, topic |-> topic, draft |-> Null, answered |-> FALSE]

\* The row is reused if the request names it; a second question about the listing
\* is not followed.
InsertRouted(w) ==
  /\ Stands(w, "ask", "insert")
  /\ question' = IF question.asked THEN question ELSE New(job[w].topic)
  /\ job' = [job EXCEPT ![w] = [Idle EXCEPT !.op = "route", !.pc = "call"]]
  /\ UNCHANGED <<listings, announced>>

\* create_buyer_question, for a listing in any status.
CreateQuestion(w, topic) ==
  /\ job[w] = Idle /\ ~question.asked
  /\ question' = New(topic)
  /\ job' = [job EXCEPT ![w] = [Idle EXCEPT !.op = "create", !.pc = "notify"]]
  /\ UNCHANGED <<listings, announced>>

-----------------------------------------------------------------------------
(* The seller: draft-reply, send, and reply of the listings service        *)

Drafting == [Idle EXCEPT !.op = "draft", !.pc = "read", !.topic = question.topic,
                         !.answered = question.answered]

StartDraft(w) ==
  /\ question.asked
  /\ Begin(w, Drafting)
  /\ UNCHANGED <<listings, question, announced>>

\* trigger_draft_reply: the broker calls for a draft and waits for it, so that the
\* job is now that request's; it makes nothing of a failure.
TriggerDraft(w) ==
  /\ Stands(w, "route", "call")
  /\ Load(w, Drafting)
  /\ UNCHANGED <<listings, question, announced>>

\* What answer_question says, refusals too, is the draft; it is checked once more.
Draft(w) ==
  /\ Stands(w, "draft", "read")
  /\ \E part \in Answered(job[w]) : Say(w, "store", part)
  /\ UNCHANGED <<listings, question, announced>>

\* The session writes the one column that has changed.  Faulty variant: the row
\* as it was loaded, with the draft.
Drafted_whole(h) == [question EXCEPT !.draft = h.said, !.answered = h.answered]
Drafted(h) == [question EXCEPT !.draft = h.said]

StoreDraft(w) ==
  /\ Stands(w, "draft", "store")
  /\ question' = Drafted(job[w])
  /\ Done(w)
  /\ UNCHANGED <<listings, announced>>

\* The seller sends the draft, or a text of their own that quotes a price or claims
\* what is forbidden; any other fares as a draft does.
StartSend(w, claim) ==
  /\ question.asked
  /\ claim \in Price \cup {"unsafe", question.draft}
  /\ Begin(w, [Idle EXCEPT !.op = "send", !.pc = "check", !.said = claim])
  /\ UNCHANGED <<listings, question, announced>>

\* enforce_guardrails on what is sent.  Faulty variant: a draft has been checked
\* already.
Deliverable_drafted(claim, h) == claim = question.draft \/ Allowed(claim, h)
Deliverable(claim, h) == Allowed(claim, h)

CheckReply(w) ==
  /\ Stands(w, "send", "check")
  /\ IF Deliverable(job[w].said, job[w]) THEN Say(w, "deliver", job[w].said) ELSE Done(w)
  /\ UNCHANGED <<listings, question, announced>>

\* Committed without a notification.
Deliver(w) ==
  /\ Stands(w, "send", "deliver")
  /\ question' = [question EXCEPT !.answered = TRUE]
  /\ Done(w)
  /\ UNCHANGED <<listings, announced>>

\* reply_buyer_question: any text, unchecked; a later reply replaces an earlier.
Reply(w) ==
  /\ job[w] = Idle /\ question.asked
  /\ question' = [question EXCEPT !.answered = TRUE]
  /\ job' = [job EXCEPT ![w] = [Idle EXCEPT !.op = "reply", !.pc = "notify"]]
  /\ UNCHANGED <<listings, announced>>

\* emit_notification, after the commit, once; it may fail.  The one to the seller,
\* about a new question, is not followed further.
Emitted(h) == announced \/ h.op = "reply"

Notify(w) ==
  /\ job[w].pc = "notify"
  /\ announced' \in {announced, Emitted(job[w])}
  /\ Done(w)
  /\ UNCHANGED <<listings, question>>

\* A request ends before its next commit.
Fail(w) ==
  /\ job[w].pc \notin {"idle", "told"}
  /\ Done(w)
  /\ UNCHANGED <<listings, question, announced>>

-----------------------------------------------------------------------------
Buyer(w) ==
  \/ \E topic \in Topic : Ask(w, topic) \/ CreateQuestion(w, topic)
  \/ Answer(w) \/ View(w) \/ Search(w) \/ End(w) \/ InsertRouted(w) \/ TriggerDraft(w)

Seller(w) ==
  \/ StartDraft(w) \/ Draft(w) \/ StoreDraft(w)
  \/ \E claim \in Claim : StartSend(w, claim)
  \/ CheckReply(w) \/ Deliver(w) \/ Reply(w)

Listing ==
  \/ \E price \in Price : Edit(price)
  \/ \E v \in Version : RecordScan(v) \/ Publish(v)
  \/ Submit \/ Delist

QuestionsNext == Listing \/ \E w \in Worker : Buyer(w) \/ Seller(w) \/ Notify(w) \/ Fail(w)

QuestionsSpec == QuestionsInit /\ [][QuestionsNext]_questionVars

-----------------------------------------------------------------------------
(* Properties                                                              *)

\* An answer at once claims nothing that is forbidden, no price but one that the
\* listing has had since the request began, and no counts but those that the version on
\* offer then has had: although the listing, its versions and their scans were loaded
\* at different times, and whatever the description says.  The badge is told of a
\* listing that has been live in that time; it says no more, whatever its text (see
\* BadgeAgrees).
ToldWhatWasTrue ==
  \A w \in Worker : job[w].pc = "told" =>
    /\ job[w].said # "unsafe"
    /\ job[w].said \in Fact => job[w].said \in job[w].facts

\* VIOLATED.  An answer about the security states the counts of the version on offer as
\* stored, and no badge that contradicts them: context.py:31 says of the summary that both
\* are part of "Never re-derive or guess severity counts or vetted status."
BadgeAgrees ==
  \A w \in Worker : Stands(w, "ask", "read") =>
    ~({"scanned", "some"} \subseteq Answered(job[w]))

\* A reply sent through seller-assist quotes a price that the listing has had
\* since the request began, also if it is a draft from before the price changed.
SentIsCurrent ==
  \A w \in Worker : Stands(w, "send", "deliver") =>
    /\ job[w].said # "unsafe"
    /\ job[w].said \in Price => job[w].said \in job[w].facts

\* A reply that the buyer was notified of is there to read: it is not lost again,
\* whatever drafts are stored meanwhile.
AnnouncedIsThere == announced => question.answered
=============================================================================
