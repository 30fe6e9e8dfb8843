-------------------------------- MODULE QQChat --------------------------------
(* The pure parts of the QQ channel: the adapter of src/oran-channel/qq.cpp,   *)
(* the webhook answer of src/oran-bootstrap/qq_webhook.cpp, and the quoting    *)
(* and splitting of apps/qq/chat.cpp.  Identifiers, texts and images are       *)
(* opaque values, Empty the empty string, Absent a missing field.              *)
EXTENDS Naturals, FiniteSets, Sequences, SequencesExt

CONSTANTS
    Empty,       \* the empty string
    Absent,      \* an optional that is not set
    Capacity,    \* what split_markdown fills a part with: the limit less 80 bytes
    ReopenSize   \* an opening fence and its newline, at most 65 bytes

-------------------------------------------------------------------------------
(* decode.  An envelope has been parsed into the fields the adapter looks at;  *)
(* "elements" are the quoted elements of a message of type 103.                *)

\* The last reference named by the scene, replaced by the first quoted element
\* that carries an index.
ReferenceOf(envelope) ==
    IF envelope.elements # <<>>
    THEN [key |-> Head(envelope.elements).key, text |-> Head(envelope.elements).text]
    ELSE [key |-> envelope.ref, text |-> Empty]

Reply(key, id, text) ==
    [reference_key |-> key, message_id |-> id, sender |-> Empty, text |-> text, image |-> Absent]

reply_to(envelope) ==
    LET reference == ReferenceOf(envelope)
    IN CASE reference.key # Empty -> Reply(reference.key, Empty, reference.text)
         [] reference.key = Empty /\ envelope.reference # Absent ->
                Reply(Empty, envelope.reference, Empty)
         [] reference.key = Empty /\ envelope.reference = Absent -> Absent

\* A message for the host, or Absent: another operation or event, a bot's
\* message, or nothing but spaces (and the mention) without an image.
decode(envelope) ==
    IF envelope.op = 0 /\ envelope.type \in {"direct", "group"} /\ ~envelope.bot
           /\ (envelope.text # Empty \/ envelope.images # <<>>)
    THEN [kind |-> envelope.type, id |-> envelope.id, sender |-> envelope.sender,
          chat |-> IF envelope.type = "group" THEN envelope.chat ELSE envelope.sender,
          text |-> envelope.text,
          image |-> IF envelope.images = <<>> THEN Absent ELSE Head(envelope.images),
          reference_key |-> envelope.key, reply_to |-> reply_to(envelope)]
    ELSE Absent

\* The platform drops a second message with the msg_seq of an earlier one of
\* the same msg_id: five answers at most.
MaxReplies == 5
reply_seq(message, part) == part + (IF message.kind = "direct" THEN 3 ELSE 1)

reply(message, part) ==
    IF part >= MaxReplies THEN Absent
    ELSE [msg_id |-> message.id, msg_seq |-> reply_seq(message, part)]

\* The typing notice and its renewal; groups have none.
activity(message, again) ==
    IF message.kind # "direct" THEN Absent
    ELSE [msg_id |-> message.id, msg_seq |-> IF again THEN 2 ELSE 1]

-------------------------------------------------------------------------------
(* accept_qq_webhook, of a request whose signature verifies: "age" is the      *)
(* distance of its timestamp from now, "queued" what the enqueue port answers. *)

\* verify_qq_webhook: five minutes either way.
MaxAge == 300
verify_qq_webhook(request) == request.signed /\ request.age <= MaxAge

Ack(d) == [op |-> 12, d |-> d]
AcceptError == [op |-> 0, d |-> 0]

AckOf(queued) ==
    CASE queued = "stored" -> Ack(0)
      [] queued = "failed" -> Ack(1)
      [] queued \in {"cancelled", "threw"} -> AcceptError

accept_qq_webhook(request) ==
    CASE ~verify_qq_webhook(request) -> AcceptError
      [] verify_qq_webhook(request) /\ request.envelope.op = 13 -> [op |-> 13, d |-> 0]
      [] verify_qq_webhook(request) /\ request.envelope.op = 1 -> [op |-> 11, d |-> 0]
      [] verify_qq_webhook(request) /\ request.envelope.op = 0 ->
            IF decode(request.envelope) = Absent THEN Ack(0)
            ELSE IF request.allowed THEN AckOf(request.queued) ELSE AcceptError
      [] OTHER -> AcceptError

-------------------------------------------------------------------------------
(* resolve_reference and prepare_prompt.                                       *)

saved_message(message) ==
    [id |-> message.id, reference_key |-> message.reference_key, sender |-> message.sender,
     text |-> message.text, image |-> message.image]

matches(quote, item) ==
    \/ quote.reference_key # Empty /\ item.reference_key = quote.reference_key
    \/ quote.message_id # Empty /\ item.id = quote.message_id

restore(quote, item) ==
    [quote EXCEPT !.message_id = item.id, !.sender = item.sender, !.text = item.text,
                  !.image = IF item.image = Absent THEN @ ELSE item.image]

\* The items of the journal in the order they are searched: a turn's message,
\* then what was sent for it.
Journal(delivered) == FlattenSeq([i \in DOMAIN delivered |-> <<saved_message(delivered[i].message)>> \o delivered[i].receipts])

resolve_reference(message, delivered) ==
    LET found == SelectSeq(Journal(delivered), LAMBDA item : matches(message.reply_to, item))
    IN IF message.reply_to = Absent \/ found = <<>> THEN message
       ELSE [message EXCEPT !.reply_to = restore(@, Head(found))]

\* load_image: an allowed address of an allowed size, a rule that allows the
\* download, and a download that succeeds.
load_image(image, loads) == IF image \in loads THEN <<image>> ELSE <<>>

ImageNumber(images, before) == Len(before) + Len(images)

\* The prompt's text is the message's, or quotes the reply beside it; "from" is
\* who wrote the quoted message.  An image that cannot be loaded fails the call.
prepare_prompt(message, loads) ==
    LET quoted == message.reply_to # Absent
        first == IF quoted /\ message.reply_to.image # Absent
                 THEN load_image(message.reply_to.image, loads) ELSE <<>>
        second == IF message.image # Absent THEN load_image(message.image, loads) ELSE <<>>
        Wanted(image) == IF image = Absent THEN 0 ELSE 1
        from == CASE message.reply_to.sender = Empty -> "unknown"
                  [] message.reply_to.sender = message.sender -> "user"
                  [] OTHER -> "assistant"
    IN IF (quoted /\ Len(first) # Wanted(message.reply_to.image)) \/ Len(second) # Wanted(message.image)
       THEN Absent
       ELSE [text |-> message.text, images |-> first \o second,
             number |-> ImageNumber(second, first),
             quote |-> IF ~quoted THEN Absent
                       ELSE [text |-> message.reply_to.text, from |-> from,
                             available |-> message.reply_to.text # Empty
                                               \/ message.reply_to.image # Absent,
                             number |-> ImageNumber(first, <<>>)]]

-------------------------------------------------------------------------------
(* split_markdown.  A text is a sequence of lines: a fence marker, backticks   *)
(* or tildes, or a number of code points of one width.  A part is the sequence *)
(* of what it holds: a marker or a code point of the text, a fence the split   *)
(* reopens or closes.  Sizes are in units of the closing fence.                *)
RECURSIVE Fill(_, _, _, _)

Marker(line) == line.mark # "text"
LineSize(line) == IF Marker(line) THEN ReopenSize ELSE line.points * line.width

Item(is, line, at, size) == [is |-> is, line |-> line, at |-> at, size |-> size]
Closing == Item("close", 0, 0, 1)
Reopening(fence) == Item("open", fence, 0, ReopenSize)
SizeOf(part) == FoldLeft(LAMBDA sum, item : sum + item.size, 0, part)

\* The part closed where a fence is open in it; s.fence is the number of the
\* line that opened it, 0 when none is.
Closed(s) == IF s.fence = 0 THEN s.part ELSE Append(s.part, Closing)

\* Mutant: the next part does not reopen the fence.
flush_plain(s) == [s EXCEPT !.parts = Append(@, Closed(s)), !.part = <<>>]

flush(s) ==
    [s EXCEPT !.parts = Append(@, Closed(s)),
              !.part = IF s.fence = 0 THEN <<>> ELSE <<Reopening(s.fence)>>]

\* The inner loop from code point "at" of a line: as many whole code points as
\* fit, a new part before what is left.
Fill(s, line, i, at) ==
    LET room == (Capacity - SizeOf(s.part)) \div line.width
        fit == IF room < line.points - at THEN room ELSE line.points - at
        filled == [s EXCEPT !.part = @ \o [k \in 1..fit |-> Item("text", i, at + k, line.width)]]
    IN IF at + fit = line.points THEN filled ELSE Fill(flush(filled), line, i, at + fit)

MarkerFits(s, line) == SizeOf(s.part) + LineSize(line) <= Capacity

\* One line: a marker is kept whole, then opens a fence or closes its own kind.
TakeLine(text, s, i) ==
    IF ~Marker(text[i]) THEN Fill(s, text[i], i, 0)
    ELSE LET ready == IF MarkerFits(s, text[i]) THEN s ELSE flush(s)
         IN [ready EXCEPT
               !.part = Append(@, Item("mark", i, 0, ReopenSize)),
               !.fence = CASE s.fence = 0 -> i
                           [] s.fence # 0 /\ text[i].mark = text[s.fence].mark -> 0
                           [] OTHER -> s.fence]

split_markdown(text) ==
    LET s == FoldLeft(LAMBDA acc, i : TakeLine(text, acc, i),
                      [parts |-> <<>>, part |-> <<>>, fence |-> 0],
                      [i \in DOMAIN text |-> i])
        parts == IF s.part = <<>> THEN s.parts ELSE Append(s.parts, Closed(s))
    IN IF Len(parts) > MaxReplies THEN Absent ELSE parts

-------------------------------------------------------------------------------
(* What the chat promises.                                                     *)

\* A reader of one part: the fence line each position is inside of, by the
\* marker rule of the text itself.
FenceAfter(text, fence, item) ==
    CASE item.is = "mark" /\ fence = 0 -> item.line
      [] item.is = "mark" /\ fence # 0 ->
            IF text[item.line].mark = text[fence].mark THEN 0 ELSE fence
      [] item.is = "open" -> item.line
      [] item.is = "close" -> 0
      [] item.is = "text" -> fence

FenceIn(text, items, n) == FoldLeft(LAMBDA f, item : FenceAfter(text, f, item), 0, SubSeq(items, 1, n))

\* The text written as one unlimited part.
Whole(text) ==
    FlattenSeq([i \in DOMAIN text |->
        IF Marker(text[i]) THEN <<Item("mark", i, 0, ReopenSize)>>
        ELSE [k \in 1..text[i].points |-> Item("text", i, k, text[i].width)]])

OfText(item) == item.is \in {"mark", "text"}

\* split_markdown: each part fits, leaves no fence open, and shows every code
\* point inside the fence it is in in the text; together they are the text.
SplitExact(text) ==
    LET parts == split_markdown(text)
        all == Whole(text)
        At(item) == CHOOSE n \in DOMAIN all : all[n].line = item.line /\ all[n].at = item.at
    IN parts # Absent =>
         /\ SelectSeq(FlattenSeq(parts), OfText) = all
         /\ \A p \in DOMAIN parts :
              /\ SizeOf(parts[p]) <= Capacity + 1
              /\ FenceIn(text, parts[p], Len(parts[p])) = 0
              /\ \A n \in DOMAIN parts[p] :
                   parts[p][n].is = "text" =>
                      FenceIn(text, parts[p], n) = FenceIn(text, all, At(parts[p][n]))

\* The journal's items a quote names are those whose key or identifier it
\* carries; the prompt shows the first of them, or what the platform quoted,
\* with the numbers of the images it attaches.
QuoteExact(message, delivered, loads) ==
    LET quote == message.reply_to
        prompt == prepare_prompt(resolve_reference(message, delivered), loads)
        named == SelectSeq(Journal(delivered), LAMBDA item :
                    \/ quote.reference_key = item.reference_key /\ item.reference_key # Empty
                    \/ quote.message_id = item.id /\ item.id # Empty)
        source == IF named = <<>> THEN quote ELSE Head(named)
    IN prompt # Absent =>
         /\ message.image # Absent => prompt.images[prompt.number] = message.image
         /\ quote # Absent =>
              /\ prompt.quote.text = source.text
              /\ source.image # Absent => prompt.images[prompt.quote.number] = source.image
              /\ prompt.quote.from = "user" <=> named # <<>> /\ source.sender = message.sender
         /\ Len(prompt.images) = Cardinality({k \in {1, 2} :
                (k = 1 /\ message.image # Absent) \/ (k = 2 /\ quote # Absent /\ source.image # Absent)})

\* The answer to a message never repeats the msg_seq of another request for it,
\* and an event is acknowledged exactly when it is stored or not for the host.
EnvelopeExact(request) ==
    LET message == decode(request.envelope)
        requests == {reply(message, part) : part \in 0..(MaxReplies - 1)}
                        \union ({activity(message, again) : again \in BOOLEAN} \ {Absent})
    IN /\ message # Absent =>
            Cardinality({r.msg_seq : r \in requests})
                = MaxReplies + (IF message.kind = "direct" THEN 2 ELSE 0)
       /\ accept_qq_webhook(request) = Ack(0) <=>
            /\ verify_qq_webhook(request)
            /\ request.envelope.op = 0
            /\ message = Absent \/ (request.allowed /\ request.queued = "stored")
===============================================================================
