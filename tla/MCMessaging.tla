----------------------------- MODULE MCMessaging ------------------------------
(* The chat hosts: a behaviour is one of the Telegram host, of the dispatcher, *)
(* of the desktop, or one input of the QQ chat.  Two updates of any kind, replies of up to two *)
(* parts, one background task, and any number of crashes, restarts and         *)
(* acknowledgements.  Three events of two conversations in a cache of two, and *)
(* four calls: redelivery, eviction, a full cache, resume and acknowledgement. *)
(* Markdown of up to four lines in parts of six units, a journal of up to two  *)
(* turns, and every webhook envelope.  Beside them the desktop prototype, with *)
(* three kinds of request, three commands about tasks and one other command,   *)
(* load, reset or failed write.                                                *)
EXTENDS TelegramHost, Sequences, SequencesExt, FiniteSets, TLC

CONSTANTS
    e1, e2, e3, k1, k2, Calls, CacheSize,                  \* of the dispatcher
    Empty, Absent, i1, i2, j1, t1, t2, q1, g1, g2, user, bot    \* of the QQ chat

VARIABLES
    part,        \* which of the four this behaviour is of
    entries, completed, busy, call, turns, confirmed,
    app, storage, backups, page,
    input        \* what the QQ chat is asked

Events == {e1, e2, e3}
ConversationOf == e1 :> k1 @@ e2 :> k1 @@ e3 :> k2

ASSUME CapacityPositive == CacheSize \in Nat \ {0}

D == INSTANCE Dispatcher WITH Capacity <- CacheSize, ran <- turns
Q == INSTANCE QQChat WITH Capacity <- 6, ReopenSize <- 2

Request(kind, fails, cue) == [kind |-> kind, fails |-> fails, cue |-> cue]
P == INSTANCE Desktop WITH
        Tasks <- <<"ask", "more">>, MaxAttempt <- 2, MaxCommands <- 3, MaxBlocked <- 1, MaxAsides <- 1,
        Inputs <- {Request("chat", FALSE, "head"), Request("file", FALSE, "none"), Request("team", TRUE, "tail")},
        Slices <- [kept |-> 2, off |-> 1, chat |-> 2, file |-> 2, team |-> 2]

dispatcher == <<entries, completed, busy, call, turns, confirmed>>
desktop == <<app, storage, backups, page>>
all == <<part, vars, dispatcher, desktop, input>>

-------------------------------------------------------------------------------
(* The inputs of the QQ chat.                                                  *)
Line(mark, points, width) == [mark |-> mark, points |-> points, width |-> width]
Lines == {Line("backtick", 0, 1), Line("tilde", 0, 1), Line("text", 2, 1), Line("text", 7, 1), Line("text", 5, 2)}
Texts == UNION {[1..n -> Lines] : n \in 0..4}

Items == {[id |-> id, reference_key |-> key, sender |-> from[1], text |-> from[2], image |-> image] :
             id \in {i1, i2}, key \in {Empty, j1}, from \in {<<user, t1>>, <<bot, t2>>}, image \in {Absent, g1}}
Turn(message, receipts) == [message |-> message, receipts |-> receipts]
Journals == {<<>>} \union {<<Turn(m, <<>>), Turn(n, <<>>)>> : m, n \in Items}
                \union {<<Turn(m, <<r>>)>> : m, r \in Items}

Envelope(op, type, isBot, text, images) ==
    [op |-> op, type |-> type, bot |-> isBot, text |-> text, images |-> images, id |-> i2,
     sender |-> user, chat |-> bot, key |-> Empty, ref |-> Empty, elements |-> <<>>,
     reference |-> Absent]
Quoting(images, ref, elements, reference) ==
    [Envelope(0, "direct", FALSE, t1, images) EXCEPT
        !.ref = ref, !.elements = elements, !.reference = reference]
Quotes == {Quoting(images, ref, elements, reference) :
              images \in {<<>>, <<g2>>}, ref \in {Empty, j1},
              elements \in {<<>>, <<[key |-> j1, text |-> q1]>>}, reference \in {Absent, i1}}
Envelopes == {Envelope(op, type, isBot, text, images) :
                 op \in {0, 1, 7, 13}, type \in {"direct", "group", "other"}, isBot \in BOOLEAN,
                 text \in {Empty, t1}, images \in {<<>>, <<g1>>}}
Requests == [envelope : Envelopes, signed : BOOLEAN, age : {0, 300, 301}, allowed : BOOLEAN,
             queued : {"stored", "failed", "cancelled", "threw"}]

Inputs ==
    {[ask |-> "split", text |-> text] : text \in Texts}
        \union {[ask |-> "quote", envelope |-> e, journal |-> j, loads |-> l] :
                    e \in Quotes, j \in Journals, l \in {{g1, g2}, {g2}}}
        \union {[ask |-> "webhook", request |-> r] : r \in Requests}
NoInput == [ask |-> "nothing"]

-------------------------------------------------------------------------------
MessagingInit ==
    /\ part \in {"telegram", "dispatcher", "qq", "desktop"}
    /\ Init /\ D!Init /\ P!Init
    /\ part # "desktop" => storage.raw = "none"
    /\ input \in IF part = "qq" THEN Inputs ELSE {NoInput}

\* Nobody has to call the dispatcher again, and the chat has answered.
Rest == part \in {"dispatcher", "qq"} /\ UNCHANGED <<vars, dispatcher, desktop>>

MessagingNext ==
    /\ UNCHANGED <<part, input>>
    /\ \/ part = "telegram" /\ Next /\ UNCHANGED <<dispatcher, desktop>>
       \/ part = "dispatcher" /\ D!Next /\ UNCHANGED <<vars, desktop>>
       \/ part = "desktop" /\ P!Next /\ UNCHANGED <<vars, dispatcher>>
       \/ Rest

MessagingSpec == MessagingInit /\ [][MessagingNext]_all

Symmetry == Permutations(Calls)

-------------------------------------------------------------------------------
\* The duplicate cache keeps its bounds and one call per conversation, its
\* eviction queue names exactly the settled entries, confirmed parts of a reply
\* are in order and none is confirmed twice, and the entry of a failed delivery
\* stays and its turn is never run again (dispatcher.cpp).
DeliveredInOrder == [](part = "dispatcher" => D!CacheInv /\ D!PartsInOrder) /\ D!FailuresRetained

\* The snapshots of the desktop can be loaded and hold what is shown, one task is
\* at work per conversation, ended attempts, channels and unreadable snapshots
\* are left alone, files need a permission, and replies tell what was done
\* (model.ts, storage.ts, useAgent.ts).
DesktopSound ==
    /\ [](part = "desktop" => P!StateSound)
    /\ [][part = "desktop" => P!StepSound]_desktop

\* A long QQ answer is cut into parts that fit, show every code point inside the
\* fence it belongs to and together are the answer (split_markdown); a quoted
\* message is the one the user quoted, with its images numbered as they are
\* attached (resolve_reference, prepare_prompt); no msg_seq is used twice, and an
\* event is acknowledged exactly when it is stored or not for the host (reply,
\* activity, accept_qq_webhook).
ChatExact ==
    /\ input.ask = "split" => Q!SplitExact(input.text)
    /\ input.ask = "quote" => Q!QuoteExact(Q!decode(input.envelope), input.journal, input.loads)
    /\ input.ask = "webhook" => Q!EnvelopeExact(input.request)
===============================================================================
