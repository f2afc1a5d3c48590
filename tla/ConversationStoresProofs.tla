---------------------- MODULE ConversationStoresProofs ----------------------
(***************************************************************************)
(* The four conversation backends implement the versioned log, and an      *)
(* Append that goes through extends exactly the history its turn loaded,   *)
(* for any number of clients, turns and messages and any deployments.      *)
(***************************************************************************)
EXTENDS ConversationStores, WellFoundedInduction, TLAPS

Tags == {"text", "tool_use", "tool_result", "image", "document", "widget"}
Coded == IF Backend = "memory" THEN Blocks ELSE Tags
Sum == [folded : Seq(Blocks), covered : Nat, rev : Nat]

\* Places before a turn, before its messages are loaded, of a rolling summary
\* being saved, and of a batch being appended.
Unread == {"idle", "new", "liteMigrate"}
Early == {"window", "tail", "bound", "meta"}
Saving == {"save", "pgState", "liteState"}
Writing == {"append", "pgInsert", "pgRows", "liteAppend"}
Later == {"prepare", "model"} \cup Saving \cup Writing
Pcs == Unread \cup Early \cup Saving \cup Writing \cup {"range", "prepare", "model"}

Turn == [pc : Pcs, ep : Nat, boundary : Nat, rev : Nat, seen : Nat,
         recent : Seq(Blocks), sum : Sum, batch : Seq(Blocks)]

TypeInv ==
  /\ conf \in DOMAIN Configs
  /\ row \in [exists : BOOLEAN, rev : Nat, last : Nat]
  /\ msgs \in Seq(Coded) /\ legacy \in Seq(Tags)
  /\ state \in Sum /\ loc \in [Clients -> Turn] /\ epoch \in Nat \ {0}

\* The metadata counts the message rows; a missing row counts nothing.
RowInv ==
  /\ row.last = Len(msgs)
  /\ ~row.exists => row.rev = 0 /\ row.last = 0 /\ legacy = <<>>

\* Where a client can be: nobody has come past New while a snapshot of the old
\* layout waits to be moved.
Placed(l) ==
  /\ NeedsMigration => l.pc \in {"new", "liteMigrate"}
  /\ l.pc \in InSnapshot => Backend = "sqlite"
  /\ l.pc \in {"bound"} \cup Saving => Manager = "rolling"
  /\ l.pc \in {"pgInsert", "pgRows"} => l.rev = 0
  /\ l.pc \in Writing => l.batch # <<>>
  /\ l.pc \in Unread <=> l.ep = 0

\* SQLite: what a transaction read still holds unless its snapshot is stale.
Fresh(l) ==
  /\ l.pc = "liteMigrate" => NeedsMigration
  /\ l.pc = "liteAppend" => l.rev = row.rev

SInv ==
  /\ TypeInv /\ RowInv
  /\ \A c \in Clients : Placed(loc[c]) /\ (c \in stale \/ Fresh(loc[c]))

\* What a turn of this life of the conversation has loaded ends within the
\* transcript and, if the revision has not moved, is all there is.
Known(l) ==
  /\ l.ep <= epoch
  /\ l.ep = epoch =>
       /\ l.boundary + Len(l.recent) <= Len(Log)
       /\ l.rev <= row.rev
       /\ l.pc \in Early => l.rev = 0
       /\ l.pc \in Early \cup {"range"} => l.recent = <<>>
       /\ l.pc \notin Early \cup {"range"} /\ l.rev = row.rev
            => Log = SubSeq(Log, 1, l.boundary) \o l.recent

\* A summary about to be saved covers no more than there is.
Covers(l) == Manager = "rolling" /\ l.pc \in Saving => l.sum.covered <= Len(Log)

KInv ==
  /\ \A c \in Clients : Known(loc[c]) /\ Covers(loc[c])
  /\ Manager = "rolling" => epoch = 1 /\ state.covered <= Len(Log)

\* No conversation with a rolling summary is removed.
Steady == \A i \in DOMAIN Configs : Configs[i].manager = "rolling" => Configs[i].removals = 0

\* The step of AppendExtendsRead.
Extends ==
  \A c \in Clients :
     loc'[c] # loc[c] /\ row'.rev > row.rev /\ loc[c].ep = epoch
        => Log' = SubSeq(Log, 1, loc[c].boundary) \o loc[c].recent \o loc[c].batch

Simulated ==
  /\ SInv' /\ (Transcript!VNext \/ UNCHANGED Transcript!vvars)
  /\ Steady /\ KInv => KInv' /\ Extends

-----------------------------------------------------------------------------
(* Sequences.                                                              *)

\* A function on 1..n is a sequence of length n.
LEMMA IsSeq ==
  ASSUME NEW S, NEW n \in Nat, NEW f \in [1 .. n -> S]
  PROVE  f \in Seq(S) /\ Len(f) = n
OBVIOUS

\* Sequences with the same members are the same.
LEMMA SameSeq ==
  ASSUME NEW S, NEW s \in Seq(S), NEW t \in Seq(S), Len(s) = Len(t),
         \A i \in 1 .. Len(s) : s[i] = t[i]
  PROVE  s = t
OBVIOUS

\* A sequence is what comes before a position and what comes after it.
LEMMA Halves ==
  ASSUME NEW S, NEW s \in Seq(S), NEW a \in Nat, a <= Len(s)
  PROVE  /\ SubSeq(s, 1, a) \in Seq(S) /\ Len(SubSeq(s, 1, a)) = a
         /\ SubSeq(s, a + 1, Len(s)) \in Seq(S) /\ Len(SubSeq(s, a + 1, Len(s))) = Len(s) - a
         /\ s = SubSeq(s, 1, a) \o SubSeq(s, a + 1, Len(s))
<1> DEFINE p == SubSeq(s, 1, a)
           q == SubSeq(s, a + 1, Len(s))
<1>1. p \in Seq(S) /\ Len(p) = a /\ \A i \in 1 .. a : p[i] = s[i]
  OBVIOUS
<1>2. q \in Seq(S) /\ Len(q) = Len(s) - a /\ \A i \in 1 .. Len(s) - a : q[i] = s[a + i]
  OBVIOUS
<1> HIDE DEF p, q
<1>3. /\ p \o q \in Seq(S) /\ Len(p \o q) = Len(s)
      /\ \A i \in 1 .. Len(s) : (p \o q)[i] = IF i <= a THEN p[i] ELSE q[i - a]
  BY <1>1, <1>2
<1>4. \A i \in 1 .. Len(s) : (p \o q)[i] = s[i]
  BY <1>1, <1>2, <1>3
<1>5. s = p \o q
  BY Zenon, <1>3, <1>4, SameSeq
<1> QED
  BY Zenon, <1>1, <1>2, <1>5 DEF p, q

\* A prefix of a sequence is a prefix of what extends it.
LEMMA PrefixOfMore ==
  ASSUME NEW S, NEW s \in Seq(S), NEW t \in Seq(S), NEW a \in Nat, a <= Len(s)
  PROVE  SubSeq(s \o t, 1, a) = SubSeq(s, 1, a)
OBVIOUS

-----------------------------------------------------------------------------
(* Encoding.                                                               *)

\* Every block comes back from the envelope it is written under.
LEMMA Codec ==
  /\ \A b \in Blocks : ContentBlockToJSON(b) \in Tags /\ JSONToContentBlock(ContentBlockToJSON(b)) = b
  /\ \A t \in Tags : JSONToContentBlock(t) \in Blocks
<1>1. /\ ContentBlockToJSON("text") = "text" /\ ContentBlockToJSON("use") = "tool_use"
      /\ ContentBlockToJSON("result") = "tool_result" /\ ContentBlockToJSON("image") = "image"
      /\ ContentBlockToJSON("document") = "document" /\ ContentBlockToJSON("widget") = "widget"
  BY Zenon DEF ContentBlockToJSON
<1>2. /\ JSONToContentBlock("text") = "text" /\ JSONToContentBlock("tool_use") = "use"
      /\ JSONToContentBlock("tool_result") = "result" /\ JSONToContentBlock("image") = "image"
      /\ JSONToContentBlock("document") = "document" /\ JSONToContentBlock("widget") = "widget"
  BY Zenon DEF JSONToContentBlock
<1> QED
  BY <1>1, <1>2 DEF Blocks, Tags

\* Encoding keeps the length and works message by message.
LEMMA EncodeSeq ==
  ASSUME NEW ms \in Seq(Blocks)
  PROVE  /\ MarshalMessages(ms) \in Seq(Tags) /\ Len(MarshalMessages(ms)) = Len(ms)
         /\ \A i \in 1 .. Len(ms) : MarshalMessages(ms)[i] = ContentBlockToJSON(ms[i])
<1>1. DOMAIN ms = 1 .. Len(ms) /\ Len(ms) \in Nat /\ \A i \in 1 .. Len(ms) : ms[i] \in Blocks
  OBVIOUS
<1>2. MarshalMessages(ms) \in [1 .. Len(ms) -> Tags]
  BY <1>1, Codec DEF MarshalMessages
<1> QED
  BY <1>1, <1>2, IsSeq DEF MarshalMessages

\* So does decoding.
LEMMA DecodeSeq ==
  ASSUME NEW raw \in Seq(Tags)
  PROVE  /\ UnmarshalMessages(raw) \in Seq(Blocks) /\ Len(UnmarshalMessages(raw)) = Len(raw)
         /\ \A i \in 1 .. Len(raw) : UnmarshalMessages(raw)[i] = JSONToContentBlock(raw[i])
<1>1. DOMAIN raw = 1 .. Len(raw) /\ Len(raw) \in Nat /\ \A i \in 1 .. Len(raw) : raw[i] \in Tags
  OBVIOUS
<1>2. UnmarshalMessages(raw) \in [1 .. Len(raw) -> Blocks]
  BY <1>1, Codec DEF UnmarshalMessages
<1> QED
  BY <1>1, <1>2, IsSeq DEF UnmarshalMessages

\* What is written is read back.
LEMMA RoundTrip ==
  ASSUME NEW ms \in Seq(Blocks)
  PROVE  UnmarshalMessages(MarshalMessages(ms)) = ms
<1> DEFINE raw == MarshalMessages(ms)
<1>1. raw \in Seq(Tags) /\ Len(raw) = Len(ms) /\ \A i \in 1 .. Len(ms) : raw[i] = ContentBlockToJSON(ms[i])
  BY EncodeSeq
<1> HIDE DEF raw
<1>2. /\ UnmarshalMessages(raw) \in Seq(Blocks) /\ Len(UnmarshalMessages(raw)) = Len(ms)
      /\ \A i \in 1 .. Len(ms) : UnmarshalMessages(raw)[i] = JSONToContentBlock(raw[i])
  BY <1>1, DecodeSeq
<1>3. \A i \in 1 .. Len(ms) : UnmarshalMessages(raw)[i] = ms[i]
  BY <1>1, <1>2, Codec
<1>4. UnmarshalMessages(raw) = ms
  BY <1>2, <1>3, SameSeq
<1> QED
  BY <1>4 DEF raw

\* A suffix of the message rows decodes to the suffix of the messages.
LEMMA DecodeSuffix ==
  ASSUME NEW raw \in Seq(Tags), NEW a \in Nat, a <= Len(raw)
  PROVE  UnmarshalMessages(SubSeq(raw, a + 1, Len(raw))) = SubSeq(UnmarshalMessages(raw), a + 1, Len(raw))
<1> DEFINE q == SubSeq(raw, a + 1, Len(raw))
           u == UnmarshalMessages(raw)
           v == SubSeq(u, a + 1, Len(raw))
<1>1. q \in Seq(Tags) /\ Len(q) = Len(raw) - a /\ \A i \in 1 .. Len(raw) - a : q[i] = raw[a + i]
  OBVIOUS
<1>2. u \in Seq(Blocks) /\ Len(u) = Len(raw) /\ \A i \in 1 .. Len(raw) : u[i] = JSONToContentBlock(raw[i])
  BY DecodeSeq
<1> HIDE DEF q, u
<1>3. v \in Seq(Blocks) /\ Len(v) = Len(raw) - a /\ \A i \in 1 .. Len(raw) - a : v[i] = u[a + i]
  BY <1>2
<1> HIDE DEF v
<1>4. /\ UnmarshalMessages(q) \in Seq(Blocks) /\ Len(UnmarshalMessages(q)) = Len(raw) - a
      /\ \A i \in 1 .. Len(raw) - a : UnmarshalMessages(q)[i] = JSONToContentBlock(q[i])
  BY Zenon, <1>1, DecodeSeq
<1>5. \A i \in 1 .. Len(raw) - a : UnmarshalMessages(q)[i] = v[i]
  BY <1>1, <1>2, <1>3, <1>4
<1>6. UnmarshalMessages(q) = v
  BY <1>3, <1>4, <1>5, SameSeq
<1> QED
  BY <1>6 DEF q, u, v

\* Rows written behind others decode to messages behind others.
LEMMA DecodeMore ==
  ASSUME NEW raw \in Seq(Tags), NEW ms \in Seq(Blocks)
  PROVE  UnmarshalMessages(raw \o MarshalMessages(ms)) = UnmarshalMessages(raw) \o ms
<1> DEFINE e == MarshalMessages(ms)
           w == raw \o e
           u == UnmarshalMessages(raw)
           v == u \o ms
<1>1. e \in Seq(Tags) /\ Len(e) = Len(ms) /\ \A i \in 1 .. Len(ms) : e[i] = ContentBlockToJSON(ms[i])
  BY EncodeSeq
<1>2. u \in Seq(Blocks) /\ Len(u) = Len(raw) /\ \A i \in 1 .. Len(raw) : u[i] = JSONToContentBlock(raw[i])
  BY DecodeSeq
<1> HIDE DEF e, u
<1>3. /\ w \in Seq(Tags) /\ Len(w) = Len(raw) + Len(ms)
      /\ \A i \in 1 .. Len(raw) + Len(ms) : w[i] = IF i <= Len(raw) THEN raw[i] ELSE e[i - Len(raw)]
  BY SMTT(30), <1>1
<1>4. /\ v \in Seq(Blocks) /\ Len(v) = Len(raw) + Len(ms)
      /\ \A i \in 1 .. Len(raw) + Len(ms) : v[i] = IF i <= Len(raw) THEN u[i] ELSE ms[i - Len(raw)]
  BY SMTT(30), <1>2
<1> HIDE DEF w, v
<1>5. /\ UnmarshalMessages(w) \in Seq(Blocks) /\ Len(UnmarshalMessages(w)) = Len(raw) + Len(ms)
      /\ \A i \in 1 .. Len(raw) + Len(ms) : UnmarshalMessages(w)[i] = JSONToContentBlock(w[i])
  BY <1>3, DecodeSeq
<1>6. ASSUME NEW i \in 1 .. Len(raw) + Len(ms) PROVE UnmarshalMessages(w)[i] = v[i]
  <2>1. CASE i <= Len(raw)
    BY <1>2, <1>3, <1>4, <1>5, <2>1
  <2>2. CASE ~(i <= Len(raw))
    <3>1. i - Len(raw) \in 1 .. Len(ms) /\ ms[i - Len(raw)] \in Blocks
      BY <2>2
    <3>2. UnmarshalMessages(w)[i] = JSONToContentBlock(e[i - Len(raw)]) /\ v[i] = ms[i - Len(raw)]
      BY <1>3, <1>4, <1>5, <2>2
    <3> QED
      BY <1>1, <3>1, <3>2, Codec
  <2> QED
    BY <2>1, <2>2
<1>7. UnmarshalMessages(w) = v
  BY <1>4, <1>5, <1>6, SameSeq
<1> QED
  BY <1>7 DEF e, w, u, v

-----------------------------------------------------------------------------
(* The transcript.                                                         *)

\* Message rows decode to as many messages.
LEMMA RowsDecode ==
  ASSUME TypeInv
  PROVE  Decode(msgs) \in Seq(Blocks) /\ Len(Decode(msgs)) = Len(msgs)
<1>1. CASE Backend = "memory"
  BY <1>1 DEF TypeInv, Coded, Decode
<1>2. CASE Backend # "memory"
  BY <1>2, DecodeSeq DEF TypeInv, Coded, Decode
<1> QED
  BY <1>1, <1>2

\* The transcript is a sequence of messages.
LEMMA LogSeq == TypeInv => Log \in Seq(Blocks)
<1> SUFFICES ASSUME TypeInv PROVE Log \in Seq(Blocks)
  OBVIOUS
<1>1. UnmarshalMessages(legacy) \in Seq(Blocks)
  BY DecodeSeq DEF TypeInv
<1> QED
  BY <1>1, RowsDecode DEF Log

\* Once nothing waits to be migrated the message rows are the transcript.
LEMMA LogIsRows ==
  ASSUME TypeInv, RowInv, ~NeedsMigration
  PROVE  Log = Decode(msgs) /\ Len(Log) = Len(msgs) /\ Len(Log) = row.last
BY RowsDecode DEF Log, NeedsMigration, RowInv

\* Decoding commutes with cutting off a prefix, in every backend.
LEMMA SuffixDecodes ==
  ASSUME TypeInv, NEW a \in Nat, a <= Len(msgs)
  PROVE  Decode(SubSeq(msgs, a + 1, Len(msgs))) = SubSeq(Decode(msgs), a + 1, Len(msgs))
<1>1. CASE Backend = "memory"
  BY <1>1 DEF Decode
<1>2. CASE Backend # "memory"
  <2>1. msgs \in Seq(Tags)
    BY <1>2 DEF TypeInv, Coded
  <2> QED
    BY <1>2, <2>1, DecodeSuffix DEF Decode
<1> QED
  BY <1>1, <1>2

\* A load behind a boundary brings the rest of the transcript.
LEMMA LoadedRest ==
  ASSUME TypeInv, RowInv, ~NeedsMigration, NEW a \in Nat
  PROVE  /\ Range(a) \in Seq(Blocks)
         /\ a <= Len(Log) => a + Len(Range(a)) = Len(Log) /\ Log = SubSeq(Log, 1, a) \o Range(a)
<1> DEFINE d == Decode(msgs)
<1>1. d \in Seq(Blocks) /\ Len(d) = Len(msgs) /\ Log = d /\ Len(msgs) \in Nat
  BY RowsDecode, LogIsRows
<1>2. CASE a < Len(msgs)
  <2>1. Range(a) = SubSeq(d, a + 1, Len(d))
    BY <1>1, <1>2, SuffixDecodes DEF Range
  <2> HIDE DEF d
  <2> DEFINE q == SubSeq(d, a + 1, Len(d))
  <2>2. a <= Len(d)
    BY <1>1, <1>2
  <2>3. q \in Seq(Blocks) /\ Len(q) = Len(d) - a /\ d = SubSeq(d, 1, a) \o q
    BY Zenon, <1>1, <2>2, Halves
  <2> HIDE DEF q
  <2>4. Range(a) = q
    BY <2>1 DEF q
  <2>5. a + Len(q) = Len(d)
    BY <1>1, <2>3
  <2> QED
    BY <1>1, <2>3, <2>4, <2>5
<1>3. CASE a >= Len(msgs)
  <2>1. Range(a) = <<>>
    BY <1>1, <1>3 DEF Range
  <2> HIDE DEF d
  <2>2. a = Len(d) => SubSeq(d, 1, a) = d
    BY <1>1
  <2>3. d \o <<>> = d /\ Len(<<>>) = 0 /\ <<>> \in Seq(Blocks)
    BY <1>1
  <2>4. a <= Len(d) => a = Len(d)
    BY <1>1, <1>3
  <2> QED
    BY <1>1, <2>1, <2>2, <2>3, <2>4
<1> QED
  BY <1>1, <1>2, <1>3

\* A batch written behind the message rows extends the transcript by itself.
LEMMA LogGrows ==
  ASSUME TypeInv, RowInv, ~NeedsMigration, NEW b \in Seq(Blocks), b # <<>>,
         conf' = conf, legacy' = legacy, row'.last = row.last + Len(b), msgs' = msgs \o Encode(b)
  PROVE  /\ ~NeedsMigration' /\ Log' = Log \o b
         /\ msgs' \in Seq(Coded) /\ Len(msgs') = Len(msgs) + Len(b)
<1>1. Len(b) \in Nat /\ Len(b) # 0 /\ row.last \in Nat /\ Backend' = Backend
  BY DEF TypeInv, Backend
<1>2. row'.last # 0 /\ ~NeedsMigration' /\ Log' = Decode(msgs')
  BY <1>1 DEF NeedsMigration, Log, Decode
<1>3. Encode(b) \in Seq(Coded) /\ Len(Encode(b)) = Len(b) /\ msgs \in Seq(Coded)
  BY EncodeSeq DEF Encode, Coded, TypeInv
<1>4. Decode(msgs \o Encode(b)) = Decode(msgs) \o b
  <2>1. CASE Backend = "memory"
    BY <2>1 DEF Decode, Encode
  <2>2. CASE Backend # "memory"
    BY <1>3, <2>2, DecodeMore DEF Decode, Encode, Coded
  <2> QED
    BY <2>1, <2>2
<1>5. msgs' \in Seq(Coded) /\ Len(msgs') = Len(msgs) + Len(b)
  BY <1>3
<1> QED
  BY <1>1, <1>2, <1>4, <1>5, LogIsRows

-----------------------------------------------------------------------------
(* Steps that leave the stores alone.                                      *)

\* What is derived from the stored rows stays when they do.
LEMMA RowsStay ==
  ASSUME conf' = conf, row'.last = row.last, row'.rev = row.rev, msgs' = msgs, legacy' = legacy
  PROVE  /\ Log' = Log /\ Backend' = Backend /\ Manager' = Manager /\ Coded' = Coded
         /\ NeedsMigration' = NeedsMigration
BY DEF Log, Decode, Backend, Manager, Coded, NeedsMigration

\* One client moves on.
LEMMA OneMoves ==
  ASSUME TypeInv, NEW c \in Clients, NEW l \in Turn, Become(c, l)
  PROVE  /\ loc' \in [Clients -> Turn] /\ loc'[c] = l
         /\ \A d \in Clients : d # c => loc'[d] = loc[d]
BY DEF TypeInv, Become

Stored == <<conf, row, msgs, legacy, state, epoch, won>>

\* A client's own step keeps the invariants if its new place fits the stores
\* as they are.
LEMMA LocalStep ==
  ASSUME SInv, NEW c \in Clients, NEW l \in Turn, Become(c, l), UNCHANGED Stored,
         stale' \in {stale, stale \ {c}}, Placed(l), c \in stale' \/ Fresh(l),
         KInv => Known(l) /\ Covers(l)
  PROVE  Simulated
<1>1. UNCHANGED <<conf, row, msgs, legacy, state, epoch, won>>
  BY DEF Stored
<1>2. TypeInv /\ RowInv
  BY DEF SInv
<1>3. /\ loc' \in [Clients -> Turn] /\ loc'[c] = l
      /\ \A d \in Clients : d # c => loc'[d] = loc[d]
  BY <1>2, OneMoves
<1>4. /\ Log' = Log /\ Backend' = Backend /\ Manager' = Manager /\ Coded' = Coded
      /\ NeedsMigration' = NeedsMigration
  BY <1>1, RowsStay
<1>5. TypeInv' /\ RowInv'
  BY <1>1, <1>2, <1>3, <1>4 DEF TypeInv, RowInv
<1>6. ASSUME NEW d \in Clients PROVE Placed(loc[d])' /\ (d \in stale' \/ Fresh(loc[d])')
  <2>1. Placed(loc[d]) /\ (d \in stale \/ Fresh(loc[d]))
    BY DEF SInv
  <2>2. Placed(loc'[d]) /\ (d \in stale' \/ Fresh(loc'[d]))
    BY <1>3, <2>1
  <2> QED
    BY <1>1, <1>4, <2>2 DEF Placed, Fresh
<1>7. SInv'
  BY <1>5, <1>6 DEF SInv
<1>8. UNCHANGED Transcript!vvars
  BY <1>1, <1>4 DEF Transcript!vvars
<1>9. ASSUME KInv PROVE KInv' /\ Extends
  <2>1. ASSUME NEW d \in Clients PROVE Known(loc[d])' /\ Covers(loc[d])'
    <3>1. Known(loc'[d]) /\ Covers(loc'[d])
      BY <1>3, <1>9 DEF KInv
    <3> QED
      BY Zenon, <1>1, <1>4, <3>1 DEF Known, Covers
  <2>2. Extends
    BY <1>1, <1>2 DEF Extends, TypeInv
  <2> QED
    BY <1>1, <1>4, <1>9, <2>1, <2>2 DEF KInv
<1> QED
  BY <1>7, <1>8, <1>9 DEF Simulated

\* Past New there is nothing left to migrate.
LEMMA PastNew ==
  ASSUME SInv, NEW c \in Clients, loc[c].pc \notin {"new", "liteMigrate"}
  PROVE  ~NeedsMigration
BY DEF SInv, Placed

\* A client at rest fits any stores that need no migration.
LEMMA IdleFits ==
  ASSUME SInv, ~NeedsMigration, NEW c \in Clients
  PROVE  /\ Idle \in Turn /\ Placed(Idle) /\ Fresh(Idle) /\ Known(Idle) /\ Covers(Idle)
         /\ Idle.pc = "idle" /\ Idle.ep = 0
<1>1. Idle \in Turn /\ Idle.pc = "idle" /\ Idle.ep = 0 /\ epoch \in Nat \ {0}
  BY DEF Idle, Turn, Pcs, Unread, Sum, NoState, SInv, TypeInv
<1> QED
  BY <1>1 DEF Placed, Fresh, Known, Covers, InSnapshot, Saving, Writing, Unread

\* A turn that fails leaves nothing behind.
LEMMA FailStep ==
  ASSUME SInv, NEW c \in Clients, ~NeedsMigration, Fail(c), UNCHANGED Stored,
         stale' \in {stale, stale \ {c}}
  PROVE  Simulated
BY IdleFits, LocalStep DEF Fail

\* What a change of place alone leaves.
LEMMA Elsewhere ==
  ASSUME NEW l \in Turn, NEW p \in Pcs
  PROVE  LET m == [l EXCEPT !.pc = p]
         IN /\ m \in Turn /\ m.pc = p /\ m.ep = l.ep /\ m.boundary = l.boundary /\ m.rev = l.rev
            /\ m.recent = l.recent /\ m.sum = l.sum /\ m.batch = l.batch
BY Zenon DEF Turn

\* A change of place alone.
LEMMA GotoStep ==
  ASSUME SInv, NEW c \in Clients, NEW p \in Pcs, Goto(c, p), UNCHANGED Stored,
         stale' \in {stale, stale \ {c}},
         Placed([loc[c] EXCEPT !.pc = p]), c \in stale' \/ Fresh([loc[c] EXCEPT !.pc = p]),
         KInv => Known([loc[c] EXCEPT !.pc = p]) /\ Covers([loc[c] EXCEPT !.pc = p])
  PROVE  Simulated
<1> DEFINE l == [loc[c] EXCEPT !.pc = p]
<1>1. loc[c] \in Turn /\ l \in Turn /\ Become(c, l)
  BY Elsewhere DEF SInv, TypeInv, Goto
<1> HIDE DEF l
<1>2. Placed(l) /\ (c \in stale' \/ Fresh(l)) /\ (KInv => Known(l) /\ Covers(l))
  BY DEF l
<1> QED
  BY <1>1, <1>2, LocalStep

-----------------------------------------------------------------------------
(* From New to the end of LoadAfter.                                       *)

\* New on SQLite begins the migration's transaction, or has nothing to do.
LEMMA ScanStep ==
  ASSUME SInv, NEW c \in Clients, ScanLegacySqlite(c)
  PROVE  Simulated
<1> DEFINE p == IF NeedsMigration THEN "liteMigrate" ELSE "idle"
           l == [loc[c] EXCEPT !.pc = p]
<1>1. /\ loc[c] \in Turn /\ Placed(loc[c]) /\ loc[c].pc = "new" /\ Backend = "sqlite"
      /\ Goto(c, p) /\ stale' = stale \ {c} /\ UNCHANGED Stored /\ epoch \in Nat \ {0}
  BY DEF ScanLegacySqlite, OpenSnapshot, Data, Stored, SInv, TypeInv
<1>2. p \in Pcs /\ p \in Unread /\ (p = "liteMigrate" <=> NeedsMigration) /\ p \in {"liteMigrate", "idle"}
  BY DEF Pcs, Unread
<1> HIDE DEF p
<1>3. l \in Turn /\ l.pc = p /\ l.ep = 0
  BY <1>1, <1>2, Elsewhere DEF Placed, Unread
<1> HIDE DEF l
<1>4. Placed(l) /\ Fresh(l) /\ Known(l) /\ Covers(l)
  BY <1>1, <1>2, <1>3 DEF Placed, Fresh, Known, Covers, Unread, Saving, Writing
<1> QED
  BY <1>1, <1>2, <1>4, GotoStep DEF l

\* A turn begins with nothing loaded.
LEMMA StartStep ==
  ASSUME SInv, NEW c \in Clients, StartTurn(c)
  PROVE  Simulated
<1> DEFINE To(p) == [Idle EXCEPT !.ep = epoch, !.pc = p]
<1>1. Manager \in {"none", "window", "rolling"}
  BY ConfigAssumption DEF SInv, TypeInv, Manager, Managers
<1>2. PICK p \in {"meta", "window", "bound"} : Become(c, To(p)) /\ (p = "bound" => Manager = "rolling")
  <2>1. CASE Manager = "none"
    <3>1. Become(c, To("meta")) /\ "meta" # "bound"
      BY Zenon, <2>1 DEF StartTurn
    <3> QED
      BY Zenon, <3>1
  <2>2. CASE Manager = "window"
    <3>1. Become(c, To("window")) /\ "window" # "bound"
      BY Zenon, <2>2 DEF StartTurn
    <3> QED
      BY Zenon, <3>1
  <2>3. CASE Manager = "rolling"
    <3>1. Become(c, To("bound"))
      BY Zenon, <2>3 DEF StartTurn
    <3> QED
      BY Zenon, <2>3, <3>1
  <2> QED
    BY <1>1, <2>1, <2>2, <2>3
<1> DEFINE l == To(p)
<1>3. Become(c, l) /\ loc[c].pc = "idle" /\ UNCHANGED <<Stored, stale>>
  BY Zenon, <1>2 DEF StartTurn, Stored
<1>4. epoch \in Nat \ {0} /\ ~NeedsMigration
  BY <1>3, PastNew DEF SInv, TypeInv
<1>5. l \in Turn /\ l.pc = p /\ l.ep = epoch /\ l.boundary = 0 /\ l.rev = 0 /\ l.recent = <<>>
  <2>1. p \in Pcs
    BY <1>2 DEF Pcs, Early
  <2>2. Idle \in Turn /\ Idle.boundary = 0 /\ Idle.rev = 0 /\ Idle.recent = <<>>
    BY <1>4, IdleFits DEF Idle
  <2>3. epoch \in Nat
    BY <1>4
  <2>4. l.pc = p
    BY <2>1, <2>2, <2>3 DEF Turn
  <2>5. l.ep = epoch
    BY <2>1, <2>2, <2>3 DEF Turn
  <2>6. l.boundary = 0 /\ l.rev = 0 /\ l.recent = <<>>
    BY <2>1, <2>2, <2>3 DEF Turn
  <2>7. l \in Turn
    BY Zenon, <2>1, <2>2, <2>3 DEF Turn
  <2> QED
    BY <2>4, <2>5, <2>6, <2>7
<1> HIDE DEF l
<1>6. Placed(l) /\ Fresh(l) /\ Covers(l)
  BY <1>2, <1>4, <1>5 DEF Placed, Fresh, Covers, InSnapshot, Unread, Saving, Writing
<1>7. Known(l)
  <2>1. Len(Log) \in Nat /\ row.rev \in Nat
    BY LogSeq DEF SInv, TypeInv
  <2> QED
    BY <1>2, <1>4, <1>5, <2>1 DEF Known, Early
<1>8. stale' = stale
  BY <1>3
<1> QED
  BY <1>3, <1>5, <1>6, <1>7, <1>8, LocalStep

\* What every client past New may take for granted.
LEMMA Running ==
  ASSUME SInv, NEW c \in Clients, loc[c].pc \notin {"new", "liteMigrate"}
  PROVE  /\ loc[c] \in Turn /\ Placed(loc[c]) /\ ~NeedsMigration /\ Log \in Seq(Blocks)
         /\ Len(Log) \in Nat /\ row.last = Len(Log) /\ row.rev \in Nat /\ epoch \in Nat \ {0}
         /\ state \in Sum /\ row.last \in Nat
<1>1. TypeInv /\ RowInv /\ Placed(loc[c]) /\ ~NeedsMigration
  BY PastNew DEF SInv
<1>2. Log \in Seq(Blocks) /\ Len(Log) \in Nat
  BY <1>1, LogSeq
<1> QED
  BY <1>1, <1>2, LogIsRows DEF TypeInv

\* A boundary chosen within the transcript is a boundary of it.
LEMMA BoundaryStep ==
  ASSUME SInv, NEW c \in Clients, loc[c].pc \in {"window", "tail", "bound"},
         NEW p \in {"tail", "meta"}, NEW b \in Nat, NEW n \in Nat,
         KInv /\ loc[c].ep = epoch => b <= Len(Log),
         Become(c, [loc[c] EXCEPT !.pc = p, !.seen = n, !.boundary = b]),
         UNCHANGED <<Stored, stale>>
  PROVE  Simulated
<1> DEFINE l == [loc[c] EXCEPT !.pc = p, !.seen = n, !.boundary = b]
<1>1. /\ loc[c] \in Turn /\ Placed(loc[c]) /\ ~NeedsMigration
      /\ Len(Log) \in Nat /\ row.rev \in Nat /\ epoch \in Nat \ {0}
  BY Running
<1>2. p \in Pcs /\ p \in Early
  BY DEF Pcs, Early
<1>3. l \in Turn
  BY Zenon, <1>1, <1>2 DEF Turn
<1>4. l.pc = p /\ l.boundary = b
  BY <1>1 DEF Turn
<1>5. l.ep = loc[c].ep /\ l.rev = loc[c].rev /\ l.recent = loc[c].recent
  BY <1>1 DEF Turn
<1>6. Become(c, l)
  OBVIOUS
<1> HIDE DEF l
<1>7. Placed(l) /\ Fresh(l) /\ Covers(l)
  BY <1>1, <1>4, <1>5 DEF Placed, Fresh, Covers, InSnapshot, Unread, Saving, Writing
<1>8. ASSUME KInv PROVE Known(l)
  <2>1. Known(loc[c]) /\ loc[c].pc \in Early
    BY <1>8 DEF KInv, Early
  <2>2. loc[c].ep = epoch => loc[c].recent = <<>> /\ loc[c].rev = 0 /\ b <= Len(Log)
    BY <1>8, <2>1 DEF Known
  <2> QED
    BY SMTT(30), <1>1, <1>2, <1>4, <1>5, <2>1, <2>2 DEF Known
<1>9. UNCHANGED Stored /\ stale' = stale
  OBVIOUS
<1> QED
  BY <1>3, <1>6, <1>7, <1>8, <1>9, LocalStep

\* Setting a field to what it holds changes nothing.
LEMMA SameFields ==
  ASSUME NEW l \in Turn, NEW p, NEW n, NEW b
  PROVE  /\ [l EXCEPT !.pc = p, !.seen = n] = [l EXCEPT !.pc = p, !.seen = n, !.boundary = l.boundary]
         /\ [l EXCEPT !.pc = p, !.boundary = b] = [l EXCEPT !.pc = p, !.seen = l.seen, !.boundary = b]
         /\ [l EXCEPT !.pc = p] = [l EXCEPT !.pc = p, !.seen = l.seen, !.boundary = l.boundary]
         /\ [l EXCEPT !.boundary = b] = [l EXCEPT !.pc = l.pc, !.seen = l.seen, !.boundary = b]
BY Zenon DEF Turn

\* A turn's boundary lies within the transcript.
LEMMA BoundaryKnown ==
  ASSUME SInv, KInv, NEW c \in Clients, loc[c].pc \notin {"new", "liteMigrate"}, loc[c].ep = epoch
  PROVE  loc[c].boundary <= Len(Log) /\ loc[c].boundary + Len(loc[c].recent) <= Len(Log)
<1>1. loc[c].boundary \in Nat /\ Len(loc[c].recent) \in Nat /\ Len(Log) \in Nat
  BY Running DEF Turn
<1> QED
  BY <1>1 DEF KInv, Known

\* Window and rolling summary choose the boundary.
LEMMA BoundarySteps ==
  ASSUME SInv, NEW c \in Clients, WindowMeta(c) \/ WindowTail(c) \/ RollingBoundary(c)
  PROVE  Simulated
<1> DEFINE l == loc[c]
<1>1. /\ l.pc \in {"window", "tail", "bound"} /\ UNCHANGED <<Stored, stale>>
  BY DEF WindowMeta, WindowTail, RollingBoundary, Data, Stored
<1>2. /\ l \in Turn /\ l.boundary \in Nat /\ l.seen \in Nat /\ Placed(l)
      /\ row.last = Len(Log) /\ row.last \in Nat /\ state \in Sum
  BY <1>1, Running DEF Turn
<1>3. KInv /\ l.ep = epoch => l.boundary <= Len(Log)
  BY <1>1, BoundaryKnown
<1>4. CASE WindowMeta(c) /\ row.last <= WindowCount
  <2>1. Become(c, [l EXCEPT !.pc = "meta", !.seen = row.last])
    BY <1>4 DEF WindowMeta
  <2>2. Become(c, [l EXCEPT !.pc = "meta", !.seen = row.last, !.boundary = l.boundary])
    BY Zenon, <1>2, <2>1, SameFields
  <2> QED
    BY Zenon, <1>1, <1>2, <1>3, <2>2, BoundaryStep
<1>5. CASE WindowMeta(c) /\ ~(row.last <= WindowCount)
  <2>1. Become(c, [l EXCEPT !.pc = "tail", !.seen = row.last, !.boundary = row.last - WindowCount])
    BY <1>5 DEF WindowMeta
  <2>2. row.last - WindowCount \in Nat /\ row.last - WindowCount <= Len(Log)
    BY <1>2, <1>5, ConfigAssumption
  <2> QED
    BY Zenon, <1>1, <1>2, <2>1, <2>2, BoundaryStep
<1>6. CASE WindowTail(c) /\ (~HasOrphanedToolResult(Range(l.boundary)) \/ l.boundary = 0)
  <2>1. Become(c, [l EXCEPT !.pc = "meta"])
    BY <1>6 DEF WindowTail
  <2>2. Become(c, [l EXCEPT !.pc = "meta", !.seen = l.seen, !.boundary = l.boundary])
    BY Zenon, <1>2, <2>1, SameFields
  <2> QED
    BY Zenon, <1>1, <1>2, <1>3, <2>2, BoundaryStep
<1>7. CASE WindowTail(c) /\ ~(~HasOrphanedToolResult(Range(l.boundary)) \/ l.boundary = 0)
  <2>1. Become(c, [l EXCEPT !.boundary = l.boundary - 1]) /\ l.pc = "tail"
    BY <1>7 DEF WindowTail
  <2>2. Become(c, [l EXCEPT !.pc = "tail", !.seen = l.seen, !.boundary = l.boundary - 1])
    BY ZenonT(60), <1>2, <2>1, SameFields
  <2>3. l.boundary - 1 \in Nat /\ (KInv /\ l.ep = epoch => l.boundary - 1 <= Len(Log))
    BY <1>2, <1>3, <1>7
  <2> QED
    BY Zenon, <1>1, <1>2, <2>2, <2>3, BoundaryStep
<1>8. CASE RollingBoundary(c)
  <2>1. Become(c, [l EXCEPT !.pc = "meta", !.boundary = state.covered]) /\ l.pc = "bound"
    BY <1>8 DEF RollingBoundary
  <2>2. Become(c, [l EXCEPT !.pc = "meta", !.seen = l.seen, !.boundary = state.covered])
    BY Zenon, <1>2, <2>1, SameFields
  <2>3. state.covered \in Nat /\ (KInv => state.covered <= Len(Log))
    BY <1>2, <2>1 DEF Sum, KInv, Placed
  <2> QED
    BY Zenon, <1>1, <1>2, <2>2, <2>3, BoundaryStep
<1> QED
  BY <1>4, <1>5, <1>6, <1>7, <1>8

\* A load may bring any messages and revision that Known allows.
LEMMA LoadStep ==
  ASSUME SInv, NEW c \in Clients, loc[c].pc \in {"meta", "range"},
         NEW p \in {"range", "prepare"}, NEW r \in Nat, NEW ms \in Seq(Blocks),
         KInv /\ loc[c].ep = epoch =>
            /\ loc[c].boundary + Len(ms) <= Len(Log) /\ r <= row.rev
            /\ p = "range" => ms = <<>>
            /\ p = "prepare" /\ r = row.rev => Log = SubSeq(Log, 1, loc[c].boundary) \o ms,
         Become(c, [loc[c] EXCEPT !.pc = p, !.rev = r, !.recent = ms]),
         UNCHANGED <<Stored, stale>>
  PROVE  Simulated
<1> DEFINE l == [loc[c] EXCEPT !.pc = p, !.rev = r, !.recent = ms]
<1>1. /\ loc[c] \in Turn /\ Placed(loc[c]) /\ ~NeedsMigration /\ epoch \in Nat \ {0}
  BY Zenon, Running
<1>2. p \in Pcs
  BY DEF Pcs
<1>3. l \in Turn
  BY Zenon, <1>1, <1>2 DEF Turn
<1>4. l.pc = p /\ l.rev = r /\ l.recent = ms
  BY <1>1 DEF Turn
<1>5. l.ep = loc[c].ep /\ l.boundary = loc[c].boundary
  BY <1>1 DEF Turn
<1>6. Become(c, l)
  OBVIOUS
<1> HIDE DEF l
<1>7. Placed(l) /\ Fresh(l) /\ Covers(l)
  BY <1>1, <1>4, <1>5 DEF Placed, Fresh, Covers, InSnapshot, Unread, Saving, Writing
<1>8. ASSUME KInv PROVE Known(l)
  BY Zenon, <1>4, <1>5, <1>8 DEF Known, KInv, Early
<1>9. UNCHANGED Stored /\ stale' = stale
  OBVIOUS
<1> QED
  BY <1>3, <1>6, <1>7, <1>8, <1>9, LocalStep

\* A field set to what it holds, in a load.
LEMMA SameLoad ==
  ASSUME NEW l \in Turn, NEW p, NEW r, NEW ms
  PROVE  /\ [l EXCEPT !.pc = p] = [l EXCEPT !.pc = p, !.rev = l.rev, !.recent = l.recent]
         /\ [l EXCEPT !.pc = p, !.rev = r] = [l EXCEPT !.pc = p, !.rev = r, !.recent = l.recent]
         /\ [l EXCEPT !.pc = p, !.recent = ms] = [l EXCEPT !.pc = p, !.rev = l.rev, !.recent = ms]
BY Zenon DEF Turn

\* LoadAfter, in one step or torn into two.
LEMMA LoadSteps ==
  ASSUME SInv, NEW c \in Clients, LoadMemory(c) \/ LoadMeta(c) \/ LoadRange(c)
  PROVE  Simulated
<1> DEFINE l == loc[c]
           ms == Range(l.boundary)
<1>1. l.pc \in {"meta", "range"} /\ UNCHANGED <<Stored, stale>>
  BY DEF LoadMemory, LoadMeta, LoadRange, Data, Stored
<1>2. /\ l \in Turn /\ l.boundary \in Nat /\ l.rev \in Nat /\ l.recent \in Seq(Blocks)
      /\ ~NeedsMigration /\ row.rev \in Nat /\ row.last = Len(Log) /\ Log \in Seq(Blocks)
      /\ Len(Log) \in Nat
  BY SMTT(30), <1>1, Running DEF Turn
<1>3. KInv /\ l.ep = epoch => l.boundary <= Len(Log)
  BY <1>1, BoundaryKnown
<1>4. /\ ms \in Seq(Blocks)
      /\ l.boundary <= Len(Log)
           => l.boundary + Len(ms) = Len(Log) /\ Log = SubSeq(Log, 1, l.boundary) \o ms
  BY Zenon, <1>2, LoadedRest DEF SInv
<1> HIDE DEF ms
<1>5. KInv /\ l.ep = epoch => l.boundary + Len(ms) <= Len(Log) /\ Log = SubSeq(Log, 1, l.boundary) \o ms
  BY SMTT(30), <1>2, <1>3, <1>4
<1>6. CASE LoadMemory(c)
  <2>1. Become(c, [l EXCEPT !.pc = "prepare", !.rev = row.rev, !.recent = ms])
    BY <1>6 DEF LoadMemory, ms
  <2>2. row.rev <= row.rev /\ "prepare" # "range"
    BY <1>2
  <2> QED
    BY Zenon, <1>1, <1>2, <1>4, <1>5, <2>1, <2>2, LoadStep
<1>7. CASE LoadMeta(c) /\ row.rev = 0 /\ row.last = 0
  <2>1. Become(c, [l EXCEPT !.pc = "prepare"]) /\ l.pc = "meta"
    BY <1>7 DEF LoadMeta
  <2>2. Become(c, [l EXCEPT !.pc = "prepare", !.rev = l.rev, !.recent = l.recent])
    BY Zenon, <1>2, <2>1, SameLoad
  <2>3. ASSUME KInv, l.ep = epoch
        PROVE  /\ l.boundary + Len(l.recent) <= Len(Log) /\ l.rev <= row.rev
               /\ Log = SubSeq(Log, 1, l.boundary) \o l.recent
    <3>1. l.recent = <<>> /\ l.rev = 0 /\ l.boundary + Len(l.recent) <= Len(Log)
      BY <2>1, <2>3 DEF KInv, Known, Early
    <3>2. l.boundary = 0 /\ Len(Log) = 0
      BY <1>2, <1>3, <1>7, <2>3
    <3>3. Log = <<>> /\ SubSeq(Log, 1, 0) = <<>>
      BY <1>2, <3>2
    <3>4. Log = SubSeq(Log, 1, 0) \o <<>>
      BY <3>3
    <3> QED
      BY <1>7, <3>1, <3>2, <3>4
  <2> QED
    BY Zenon, <1>1, <1>2, <2>2, <2>3, LoadStep
<1>8. CASE LoadMeta(c) /\ ~(row.rev = 0 /\ row.last = 0)
  <2>1. Become(c, [l EXCEPT !.pc = "range", !.rev = row.rev]) /\ l.pc = "meta"
    BY <1>8 DEF LoadMeta
  <2>2. Become(c, [l EXCEPT !.pc = "range", !.rev = row.rev, !.recent = l.recent])
    BY Zenon, <1>2, <2>1, SameLoad
  <2>3. KInv /\ l.ep = epoch => l.recent = <<>> /\ l.boundary + Len(l.recent) <= Len(Log)
    BY <2>1 DEF KInv, Known, Early
  <2>4. row.rev <= row.rev /\ "prepare" # "range"
    BY <1>2
  <2> QED
    BY Zenon, <1>1, <1>2, <2>2, <2>3, <2>4, LoadStep
<1>9. CASE LoadRange(c)
  <2>1. Become(c, [l EXCEPT !.pc = "prepare", !.recent = ms])
    BY <1>9 DEF LoadRange, ms
  <2>2. Become(c, [l EXCEPT !.pc = "prepare", !.rev = l.rev, !.recent = ms])
    BY Zenon, <1>2, <2>1, SameLoad
  <2>3. KInv /\ l.ep = epoch => l.rev <= row.rev
    BY DEF KInv, Known
  <2> QED
    BY Zenon, <1>1, <1>2, <1>4, <1>5, <2>2, <2>3, LoadStep
<1> QED
  BY <1>6, <1>7, <1>8, <1>9

-----------------------------------------------------------------------------
(* From Prepare to the model.                                              *)

\* A bounded set of numbers has a greatest member.
LEMMA Greatest ==
  ASSUME NEW n \in Nat, NEW E, E \subseteq 0 .. n, E # {}
  PROVE  \E x \in E : \A y \in E : y <= x
<1> DEFINE R == OpToRel(<, Nat)
           T == {n - x : x \in E}
<1>1. T \subseteq Nat /\ T # {}
  <2>1. \A x \in E : n - x \in Nat /\ n - x \in T
    OBVIOUS
  <2>2. PICK x \in E : TRUE
    BY Zenon
  <2>3. T # {}
    BY <2>1, <2>2
  <2> QED
    BY <2>1, <2>3
<1>2. \E t \in T : \A u \in T : ~(<<u, t>> \in R)
  <2> HIDE DEF R, T
  <2>1. IsWellFoundedOn(R, Nat)
    BY NatLessThanWellFounded DEF R
  <2> QED
    BY Zenon, <1>1, <2>1, WFMin
<1>3. PICK t \in T : \A u \in T : ~(<<u, t>> \in R)
  BY <1>2
<1>4. \A u \in T : ~(u < t)
  BY Zenon, <1>1, <1>3 DEF OpToRel
<1>5. PICK x \in E : t = n - x
  OBVIOUS
<1>6. \A y \in E : n - y \in T
  OBVIOUS
<1>7. \A y \in E : ~(n - y < n - x)
  BY Zenon, <1>4, <1>5, <1>6
<1> QED
  BY <1>5, <1>7

\* A cut falls within the messages.
LEMMA CutWithin ==
  ASSUME NEW ms \in Seq(Blocks)
  PROVE  Cut(ms) \in 0 .. Len(ms)
<1> DEFINE E == {0} \cup {n \in 1 .. Len(ms) :
                    n + Preserve <= Len(ms) /\ ~HasUnresolved(SubSeq(ms, 1, n))}
<1>1. Len(ms) \in Nat /\ E \subseteq 0 .. Len(ms) /\ E # {}
  OBVIOUS
<1>2. Cut(ms) = CHOOSE n \in E : \A m \in E : m <= n
  BY DEF Cut
<1> HIDE DEF E
<1>3. \E x \in E : \A y \in E : y <= x
  BY Zenon, <1>1, Greatest
<1>4. Cut(ms) \in E
  BY <1>2, <1>3
<1> QED
  BY Zenon, <1>1, <1>4

\* After a load a turn goes on without losing what it knows.
LEMMA LaterStep ==
  ASSUME SInv, NEW c \in Clients, loc[c].pc \in Later,
         NEW p \in Later, NEW s \in Sum, NEW b \in Seq(Blocks),
         Become(c, [loc[c] EXCEPT !.pc = p, !.sum = s, !.batch = b]),
         UNCHANGED Stored, stale' \in {stale, stale \ {c}},
         p \in Saving => Manager = "rolling" /\ (KInv => s.covered <= Len(Log)),
         p \in Writing => b # <<>>,
         p \in {"pgInsert", "pgRows"} => loc[c].rev = 0,
         p \in InSnapshot => Backend = "sqlite",
         p = "liteAppend" => loc[c].rev = row.rev
  PROVE  Simulated
<1> DEFINE l == [loc[c] EXCEPT !.pc = p, !.sum = s, !.batch = b]
<1>1. p \notin Unread /\ p \notin Early /\ p # "range" /\ p # "bound" /\ p # "liteMigrate" /\ p \in Pcs
  BY DEF Later, Unread, Early, Saving, Writing, Pcs
<1>2. /\ loc[c].pc \notin Unread /\ loc[c].pc \notin Early /\ loc[c].pc # "range"
      /\ loc[c].pc \notin {"new", "liteMigrate"}
  BY DEF Later, Unread, Early, Saving, Writing
<1>3. loc[c] \in Turn /\ Placed(loc[c]) /\ ~NeedsMigration
  BY <1>2, Running
<1>4. l \in Turn
  BY Zenon, <1>1, <1>3 DEF Turn
<1>5. l.pc = p /\ l.sum = s /\ l.batch = b
  BY <1>3 DEF Turn
<1>6. l.ep = loc[c].ep /\ l.rev = loc[c].rev /\ l.boundary = loc[c].boundary /\ l.recent = loc[c].recent
  BY <1>3 DEF Turn
<1>7. Become(c, l)
  OBVIOUS
<1> HIDE DEF l
<1>8. Placed(l)
  BY <1>1, <1>2, <1>3, <1>5, <1>6 DEF Placed
<1>9. Fresh(l) /\ (KInv => Covers(l))
  BY <1>1, <1>5, <1>6 DEF Fresh, Covers
<1>10. ASSUME KInv PROVE Known(l)
  <2>1. Known(loc[c])
    BY <1>10 DEF KInv
  <2> QED
    BY Zenon, <1>1, <1>2, <1>5, <1>6, <2>1 DEF Known
<1> QED
  BY <1>4, <1>7, <1>8, <1>9, <1>10, LocalStep

\* A field set to what it holds, after a load.
LEMMA SameLater ==
  ASSUME NEW l \in Turn, NEW p, NEW s, NEW b
  PROVE  /\ [l EXCEPT !.pc = p] = [l EXCEPT !.pc = p, !.sum = l.sum, !.batch = l.batch]
         /\ [l EXCEPT !.pc = p, !.sum = s] = [l EXCEPT !.pc = p, !.sum = s, !.batch = l.batch]
         /\ [l EXCEPT !.pc = p, !.batch = b] = [l EXCEPT !.pc = p, !.sum = l.sum, !.batch = b]
BY Zenon DEF Turn

\* What is folded is a state that covers loaded messages only.
LEMMA FoldedFits ==
  ASSUME NEW s \in Sum, NEW l \in Turn, Skip(s, l) <= Len(l.recent)
  PROVE  Folded(s, l) \in Sum /\ Folded(s, l).covered <= l.boundary + Len(l.recent)
<1> DEFINE k == Skip(s, l)
           rest == SubSeq(l.recent, k + 1, Len(l.recent))
           n == Cut(rest)
           m == l.boundary + k + n
           f == s.folded \o SubSeq(rest, 1, n)
<1>1. /\ l.recent \in Seq(Blocks) /\ l.boundary \in Nat /\ Len(l.recent) \in Nat
      /\ s.folded \in Seq(Blocks) /\ s.covered \in Nat /\ s.rev \in Nat
  BY DEF Turn, Sum
<1>2. k \in Nat /\ k <= Len(l.recent)
  BY <1>1 DEF Skip
<1>3. Folded(s, l) = [s EXCEPT !.folded = f, !.covered = m]
  BY DEF Folded
<1> HIDE DEF k
<1>4. rest \in Seq(Blocks) /\ Len(rest) = Len(l.recent) - k
  BY <1>1, <1>2, Halves
<1> HIDE DEF rest
<1>5. n \in 0 .. Len(rest)
  BY <1>4, CutWithin
<1> HIDE DEF n
<1>6. SubSeq(rest, 1, n) \in Seq(Blocks)
  BY <1>4, <1>5, Halves
<1>7. f \in Seq(Blocks) /\ m \in Nat /\ m <= l.boundary + Len(l.recent)
  <2>1. f \in Seq(Blocks)
    BY <1>1, <1>6
  <2>2. m \in Nat /\ m <= l.boundary + Len(l.recent)
    BY <1>1, <1>2, <1>4, <1>5
  <2> QED
    BY <2>1, <2>2
<1> HIDE DEF f, m
<1> QED
  BY Zenon, <1>1, <1>3, <1>7 DEF Sum

\* In a steady deployment with a rolling summary every running turn belongs to
\* the conversation's one life, so what it loaded is there.
LEMMA RollingKnown ==
  ASSUME SInv, KInv, Manager = "rolling", NEW c \in Clients, loc[c].pc \in Later
  PROVE  loc[c].boundary + Len(loc[c].recent) <= Len(Log)
<1>1. loc[c].pc \notin Unread /\ loc[c].pc \notin {"new", "liteMigrate"}
  BY DEF Later, Unread, Saving, Writing
<1>2. Placed(loc[c]) /\ loc[c].ep \in Nat
  BY <1>1, Running DEF Turn
<1>3. epoch = 1 /\ loc[c].ep <= epoch /\ loc[c].ep # 0
  BY <1>1, <1>2 DEF KInv, Known, Placed
<1>4. loc[c].ep = epoch
  BY <1>2, <1>3
<1> QED
  BY <1>1, <1>4, BoundaryKnown

\* Prepare shows the model the state as it is, or folds and saves, or fails.
LEMMA PrepareSteps ==
  ASSUME SInv, NEW c \in Clients, Passthrough(c) \/ PrepareRolling(c)
  PROVE  Simulated
<1> DEFINE l == loc[c]
<1>1. l.pc = "prepare" /\ UNCHANGED Stored /\ stale' = stale
  BY DEF Passthrough, PrepareRolling, Data, Stored
<1>2. /\ l \in Turn /\ l.sum \in Sum /\ l.batch \in Seq(Blocks) /\ state \in Sum /\ ~NeedsMigration
      /\ l.boundary \in Nat /\ Len(l.recent) \in Nat /\ Len(Log) \in Nat
  BY SMTT(30), <1>1, Running DEF Turn
<1>3. /\ l.pc \in Later /\ "model" \in Later /\ "model" \notin Saving /\ "model" \notin Writing
      /\ "model" \notin InSnapshot /\ "model" \notin {"pgInsert", "pgRows"} /\ "model" # "liteAppend"
  BY <1>1 DEF Later, Saving, Writing, InSnapshot
<1>4. CASE Passthrough(c)
  <2>1. Become(c, [l EXCEPT !.pc = "model", !.sum = l.sum, !.batch = l.batch])
    BY Zenon, <1>2, <1>4, SameLater DEF Passthrough, Goto
  <2> QED
    BY Zenon, <1>1, <1>2, <1>3, <2>1, LaterStep
<1>5. CASE PrepareRolling(c) /\ Fail(c)
  BY <1>1, <1>2, <1>5, FailStep
<1>6. CASE Become(c, [l EXCEPT !.pc = "model", !.sum = state])
  <2>1. Become(c, [l EXCEPT !.pc = "model", !.sum = state, !.batch = l.batch])
    BY Zenon, <1>2, <1>6, SameLater
  <2> QED
    BY Zenon, <1>1, <1>2, <1>3, <2>1, LaterStep
<1>7. CASE /\ Manager = "rolling" /\ ~(Skip(state, l) > Len(l.recent))
           /\ Become(c, [l EXCEPT !.pc = "save", !.sum = Folded(state, l)])
  <2> DEFINE f == Folded(state, l)
  <2>1. Skip(state, l) <= Len(l.recent)
    BY SMTT(30), <1>2, <1>7 DEF Skip, Sum
  <2>2. f \in Sum /\ f.covered <= l.boundary + Len(l.recent) /\ f.covered \in Nat
    BY Zenon, <1>2, <2>1, FoldedFits DEF Sum
  <2>3. Become(c, [l EXCEPT !.pc = "save", !.sum = f, !.batch = l.batch])
    BY Zenon, <1>2, <1>7, SameLater
  <2> HIDE DEF f
  <2>4. KInv => f.covered <= Len(Log)
    BY <1>2, <1>3, <1>7, <2>2, RollingKnown
  <2>5. /\ "save" \in Later /\ "save" \notin Writing /\ "save" \notin InSnapshot
        /\ "save" \notin {"pgInsert", "pgRows"} /\ "save" # "liteAppend"
    BY DEF Later, Saving, Writing, InSnapshot
  <2> QED
    BY Zenon, <1>1, <1>2, <1>3, <1>7, <2>2, <2>3, <2>4, <2>5, LaterStep
<1>8. \/ Passthrough(c)
      \/ PrepareRolling(c) /\ Fail(c)
      \/ Become(c, [l EXCEPT !.pc = "model", !.sum = state])
      \/ /\ Manager = "rolling" /\ ~(Skip(state, l) > Len(l.recent))
         /\ Become(c, [l EXCEPT !.pc = "save", !.sum = Folded(state, l)])
  BY Zenon DEF PrepareRolling
<1> QED
  BY <1>4, <1>5, <1>6, <1>7, <1>8

\* The model answers with a batch, or fails.
LEMMA ModelStep ==
  ASSUME SInv, NEW c \in Clients, ModelReturns(c)
  PROVE  Simulated
<1> DEFINE l == loc[c]
<1>1. l.pc = "model" /\ UNCHANGED Stored /\ stale' = stale
  BY Zenon DEF ModelReturns, Data, Stored
<1>2. l \in Turn /\ l.sum \in Sum /\ ~NeedsMigration
  BY <1>1, Running DEF Turn
<1>3. /\ l.pc \in Later /\ "append" \in Later /\ "append" \notin Saving
      /\ "append" \notin InSnapshot /\ "append" \notin {"pgInsert", "pgRows"} /\ "append" # "liteAppend"
  BY <1>1 DEF Later, Saving, Writing, InSnapshot
<1>4. CASE Fail(c)
  BY <1>1, <1>2, <1>4, FailStep
<1>5. ASSUME NEW b \in Blocks, Become(c, [l EXCEPT !.pc = "append", !.batch = <<b>>])
      PROVE  Simulated
  <2>1. <<b>> \in Seq(Blocks) /\ <<b>> # <<>>
    OBVIOUS
  <2>2. Become(c, [l EXCEPT !.pc = "append", !.sum = l.sum, !.batch = <<b>>])
    BY Zenon, <1>2, <1>5, SameLater
  <2> QED
    BY Zenon, <1>1, <1>2, <1>3, <2>1, <2>2, LaterStep
<1>6. Fail(c) \/ \E b \in Blocks : Become(c, [l EXCEPT !.pc = "append", !.batch = <<b>>])
  BY Zenon DEF ModelReturns, Blocks
<1> QED
  BY Zenon, <1>4, <1>5, <1>6

-----------------------------------------------------------------------------
(* Writes.                                                                 *)

\* After a commit every other open snapshot is stale.
LEMMA CommitFresh ==
  ASSUME TypeInv, NEW c \in Clients, NEW l \in Turn, Become(c, l), l.pc \notin InSnapshot,
         Commit(c), NEW d \in Clients
  PROVE  d \in stale' \/ Fresh(loc[d])'
<1>1. loc'[c] = l /\ (d # c => loc'[d] = loc[d])
  BY OneMoves
<1>2. CASE loc'[d].pc \in InSnapshot
  <2>1. d # c /\ loc[d].pc \in InSnapshot
    BY <1>1, <1>2
  <2> QED
    BY <2>1 DEF Commit
<1>3. CASE loc'[d].pc \notin InSnapshot
  BY <1>3 DEF Fresh, InSnapshot
<1> QED
  BY <1>2, <1>3

\* A saved summary changes neither transcript nor revision.
LEMMA StateSavedStep ==
  ASSUME SInv, NEW c \in Clients, loc[c].pc \in Saving, StateSaved(c)
  PROVE  Simulated
<1> DEFINE s == NewState(c)
           m == [loc[c] EXCEPT !.pc = "model", !.sum = s]
<1>1. loc[c].pc \in Later /\ loc[c].pc \notin {"new", "liteMigrate"} /\ loc[c].pc \notin Unread
  BY DEF Later, Saving, Unread
<1>2. /\ loc[c] \in Turn /\ Placed(loc[c]) /\ ~NeedsMigration /\ loc[c].sum \in Sum
      /\ TypeInv /\ RowInv
  BY <1>1, Running DEF Turn, SInv
<1>3. s \in Sum /\ s.covered = loc[c].sum.covered
  BY <1>2 DEF NewState, Sum
<1>4. /\ state' = s /\ conf' = conf /\ msgs' = msgs /\ legacy' = legacy /\ epoch' = epoch /\ won' = won
      /\ Commit(c) /\ (Become(c, m) \/ Become(c, Idle))
      /\ row' = IF Separate THEN row ELSE [row EXCEPT !.exists = TRUE]
  BY Zenon DEF StateSaved, Fail
<1>5. /\ row' \in [exists : BOOLEAN, rev : Nat, last : Nat] /\ row'.last = row.last /\ row'.rev = row.rev
      /\ ~row'.exists => ~row.exists
  BY Zenon, <1>2, <1>4 DEF TypeInv
<1> HIDE DEF s
<1>6. m \in Turn /\ m.pc = "model" /\ m.ep = loc[c].ep
  <2>1. "model" \in Pcs
    BY DEF Pcs
  <2>2. m \in Turn
    BY Zenon, <1>2, <1>3, <2>1 DEF Turn
  <2>3. m.pc = "model" /\ m.ep = loc[c].ep
    BY <1>2 DEF Turn
  <2> QED
    BY <2>2, <2>3
<1>7. m.rev = loc[c].rev /\ m.boundary = loc[c].boundary /\ m.recent = loc[c].recent
  BY <1>2 DEF Turn
<1> HIDE DEF m
<1>8. PICK l \in {m, Idle} : Become(c, l)
  BY <1>4
<1>9. /\ l \in Turn /\ Placed(l) /\ l.pc \notin InSnapshot /\ Covers(l) /\ (KInv => Known(l))
  <2>1. CASE l = Idle
    BY <1>2, <2>1, IdleFits DEF InSnapshot
  <2>2. CASE l = m
    <3>1. Placed(m) /\ Covers(m) /\ m.pc \notin InSnapshot
      BY <1>1, <1>2, <1>6, <1>7 DEF Placed, Covers, InSnapshot, Saving, Writing, Unread
    <3>2. ASSUME KInv PROVE Known(m)
      <4>1. Known(loc[c]) /\ loc[c].pc \notin Early /\ loc[c].pc # "range"
        BY <3>2 DEF KInv, Saving, Early
      <4> QED
        BY Zenon, <1>6, <1>7, <4>1 DEF Known, Early
    <3> QED
      BY <1>6, <2>2, <3>1, <3>2
  <2> QED
    BY <2>1, <2>2
<1>10. /\ loc' \in [Clients -> Turn] /\ loc'[c] = l
       /\ \A d \in Clients : d # c => loc'[d] = loc[d]
  BY <1>2, <1>8, <1>9, OneMoves
<1>11. /\ Log' = Log /\ Backend' = Backend /\ Manager' = Manager /\ Coded' = Coded
       /\ NeedsMigration' = NeedsMigration
  BY <1>4, <1>5, RowsStay
<1>12. TypeInv' /\ RowInv'
  BY <1>2, <1>3, <1>4, <1>5, <1>10, <1>11 DEF TypeInv, RowInv
<1>13. ASSUME NEW d \in Clients PROVE Placed(loc[d])' /\ (d \in stale' \/ Fresh(loc[d])')
  <2>1. Placed(loc'[d])
    BY <1>9, <1>10 DEF SInv
  <2>2. Placed(loc[d])'
    BY <1>11, <2>1 DEF Placed
  <2> QED
    BY <1>2, <1>4, <1>8, <1>9, <2>2, CommitFresh
<1>14. SInv'
  BY <1>12, <1>13 DEF SInv
<1>15. UNCHANGED Transcript!vvars
  BY <1>4, <1>5, <1>11 DEF Transcript!vvars
<1>16. ASSUME KInv PROVE KInv' /\ Extends
  <2>1. ASSUME NEW d \in Clients PROVE Known(loc[d])' /\ Covers(loc[d])'
    <3>1. Known(loc'[d]) /\ Covers(loc'[d])
      BY <1>9, <1>10, <1>16 DEF KInv
    <3> QED
      BY Zenon, <1>4, <1>5, <1>11, <3>1 DEF Known, Covers
  <2>2. Extends
    BY <1>2, <1>5 DEF Extends, TypeInv
  <2>3. Manager = "rolling" => epoch = 1 /\ s.covered <= Len(Log)
    BY <1>3, <1>16 DEF KInv, Covers
  <2> QED
    BY <1>4, <1>11, <2>1, <2>2, <2>3 DEF KInv
<1> QED
  BY <1>14, <1>15, <1>16 DEF Simulated

\* After an append the turn ends, or goes on from the longer history.
LEMMA AfterAppendIs ==
  ASSUME NEW c \in Clients, loc[c] \in Turn
  PROVE  LET m == AfterAppend(c)
         IN \/ m = Idle
            \/ /\ m \in Turn /\ m.pc \in {"append", "prepare"} /\ (m.pc = "append" => m.batch # <<>>)
               /\ m.ep = loc[c].ep /\ m.boundary = loc[c].boundary
               /\ m.rev = loc[c].rev + 1 /\ m.recent = loc[c].recent \o loc[c].batch
<1> DEFINE l == [loc[c] EXCEPT !.rev = @ + 1, !.recent = @ \o loc[c].batch]
           u == [l EXCEPT !.batch = <<"result">>, !.pc = "append"]
           r == [l EXCEPT !.batch = <<>>, !.pc = "prepare"]
<1>1. AfterAppend(c) = u \/ AfterAppend(c) = r \/ AfterAppend(c) = Idle
  <2>1. <<"use">> # <<"result">>
    OBVIOUS
  <2>2. CASE loc[c].batch = <<"use">>
    BY Zenon, <2>1, <2>2 DEF AfterAppend
  <2>3. CASE loc[c].batch = <<"result">>
    BY Zenon, <2>1, <2>3 DEF AfterAppend
  <2>4. CASE loc[c].batch # <<"use">> /\ loc[c].batch # <<"result">>
    BY Zenon, <2>4 DEF AfterAppend
  <2> QED
    BY <2>2, <2>3, <2>4
<1>2. loc[c].rev \in Nat /\ loc[c].recent \in Seq(Blocks) /\ loc[c].batch \in Seq(Blocks)
  BY DEF Turn
<1>3. loc[c].rev + 1 \in Nat /\ loc[c].recent \o loc[c].batch \in Seq(Blocks)
  BY <1>2
<1>4. l \in Turn
  BY Zenon, <1>3 DEF Turn
<1>5. l.ep = loc[c].ep /\ l.boundary = loc[c].boundary
  BY DEF Turn
<1>6. l.rev = loc[c].rev + 1 /\ l.recent = loc[c].recent \o loc[c].batch
  BY Zenon DEF Turn
<1> HIDE DEF l
<1>7. "append" \in Pcs /\ "prepare" \in Pcs /\ <<"result">> \in Seq(Blocks) /\ <<>> \in Seq(Blocks)
  BY DEF Pcs, Writing, Blocks
<1>8. u \in Turn /\ r \in Turn
  BY Zenon, <1>4, <1>7 DEF Turn
<1>9. u.pc = "append" /\ u.batch = <<"result">> /\ r.pc = "prepare" /\ <<"result">> # <<>>
  BY <1>4 DEF Turn
<1>10. u.ep = l.ep /\ u.boundary = l.boundary /\ u.rev = l.rev /\ u.recent = l.recent
  BY <1>4 DEF Turn
<1>11. r.ep = l.ep /\ r.boundary = l.boundary /\ r.rev = l.rev /\ r.recent = l.recent
  BY <1>4 DEF Turn
<1> HIDE DEF u, r
<1>12. CASE AfterAppend(c) = u
  BY Zenon, <1>5, <1>6, <1>8, <1>9, <1>10, <1>12
<1>13. CASE AfterAppend(c) = r
  BY Zenon, <1>5, <1>6, <1>8, <1>9, <1>11, <1>13
<1> QED
  BY Zenon, <1>1, <1>12, <1>13

\* A committed batch is a write of the log and goes behind what its turn knew.
LEMMA AppendedStep ==
  ASSUME SInv, NEW c \in Clients, loc[c].pc \in Writing, loc[c].rev = row.rev, Appended(c)
  PROVE  Simulated
<1> DEFINE b == loc[c].batch
           a == AfterAppend(c)
           pre == SubSeq(Log, 1, loc[c].boundary)
<1>1. /\ loc[c].pc \notin {"new", "liteMigrate"} /\ loc[c].pc \notin Unread
      /\ loc[c].pc \notin Early /\ loc[c].pc # "range"
  BY DEF Writing, Unread, Early
<1>2. /\ loc[c] \in Turn /\ Placed(loc[c]) /\ ~NeedsMigration /\ TypeInv /\ RowInv
      /\ Log \in Seq(Blocks) /\ row.rev \in Nat /\ epoch \in Nat \ {0}
  BY <1>1, Running DEF SInv
<1>3. /\ b \in Seq(Blocks) /\ b # <<>> /\ Len(b) \in Nat /\ Len(b) # 0 /\ Len(Log) \in Nat
      /\ loc[c].recent \in Seq(Blocks) /\ loc[c].boundary \in Nat
  BY <1>2 DEF Turn, Placed
<1>4. /\ row' = [exists |-> TRUE, rev |-> row.rev + 1, last |-> row.last + Len(b)]
      /\ msgs' = msgs \o Encode(b) /\ Commit(c)
      /\ conf' = conf /\ legacy' = legacy /\ state' = state /\ epoch' = epoch
      /\ Become(c, a) \/ Become(c, Idle)
      /\ won' \in {won, won \cup {<<c, row.rev + 1>>}}
  BY Zenon DEF Appended, Fail
<1>5. row'.rev = row.rev + 1 /\ row'.last = row.last + Len(b) /\ row'.exists = TRUE
  BY <1>4
<1> HIDE DEF a
<1>6. PICK l \in {a, Idle} : Become(c, l)
  BY <1>4
<1>7. /\ l \in Turn
      /\ \/ l = Idle
         \/ /\ l.pc \in {"append", "prepare"} /\ (l.pc = "append" => l.batch # <<>>)
            /\ l.ep = loc[c].ep /\ l.boundary = loc[c].boundary
            /\ l.rev = loc[c].rev + 1 /\ l.recent = loc[c].recent \o b
  <2>1. Idle \in Turn
    BY <1>2, IdleFits
  <2> QED
    BY Zenon, <1>2, <2>1, AfterAppendIs DEF a
<1> HIDE DEF b
<1>8. /\ ~NeedsMigration' /\ Log' = Log \o b
      /\ msgs' \in Seq(Coded) /\ Len(msgs') = Len(msgs) + Len(b)
  BY Zenon, <1>2, <1>3, <1>4, <1>5, LogGrows
<1>9. /\ Log' \in Seq(Blocks) /\ Len(Log') = Len(Log) + Len(b) /\ SubSeq(Log', 1, Len(Log)) = Log
  <2>1. SubSeq(Log \o b, 1, Len(Log)) = Log
    BY <1>2, <1>3
  <2> QED
    BY <1>2, <1>3, <1>8, <2>1
<1>10. /\ loc' \in [Clients -> Turn] /\ loc'[c] = l
       /\ \A d \in Clients : d # c => loc'[d] = loc[d]
  BY <1>2, <1>6, <1>7, OneMoves
<1>11. Backend' = Backend /\ Manager' = Manager /\ Coded' = Coded
  BY SMTT(30), <1>4 DEF Backend, Manager, Coded
<1>12. TypeInv' /\ RowInv'
  <2>1. row' \in [exists : BOOLEAN, rev : Nat, last : Nat]
    BY SMTT(30), <1>2, <1>3, <1>4 DEF TypeInv
  <2>2. RowInv'
    BY Zenon, <1>2, <1>5, <1>8 DEF RowInv
  <2> QED
    BY <1>2, <1>4, <1>8, <1>10, <1>11, <2>1, <2>2 DEF TypeInv
<1>13. Placed(l) /\ l.pc \notin InSnapshot
  <2>1. CASE l = Idle
    BY Zenon, <1>2, <2>1, IdleFits DEF InSnapshot
  <2>2. CASE l # Idle
    BY Zenon, <1>1, <1>2, <1>7, <2>2 DEF Placed, InSnapshot, Saving, Writing, Unread
  <2> QED
    BY <2>1, <2>2
<1>14. ASSUME NEW d \in Clients PROVE Placed(loc[d])' /\ (d \in stale' \/ Fresh(loc[d])')
  <2>1. Placed(loc'[d])
    BY <1>10, <1>13 DEF SInv
  <2>2. Placed(loc[d])'
    BY SMTT(30), <1>8, <1>11, <2>1 DEF Placed
  <2> QED
    BY Zenon, <1>2, <1>4, <1>6, <1>7, <1>13, <2>2, CommitFresh
<1>15. SInv'
  BY Zenon, <1>12, <1>14 DEF SInv
<1>16. Transcript!VNext
  <2>1. Len(Log') > Len(Log)
    BY SMTT(30), <1>3, <1>9
  <2>2. Transcript!Write(c)
    BY <1>4, <1>5, <1>9, <2>1 DEF Transcript!Write
  <2> QED
    BY <2>2 DEF Transcript!VNext
<1>17. ASSUME KInv PROVE KInv' /\ Extends
  <2>1. Known(loc[c])
    BY <1>17 DEF KInv
  <2>2. ASSUME loc[c].ep = epoch
        PROVE  /\ loc[c].boundary + Len(loc[c].recent) <= Len(Log) /\ loc[c].boundary <= Len(Log)
               /\ Log' = pre \o loc[c].recent \o b
               /\ Log' = SubSeq(Log', 1, loc[c].boundary) \o (loc[c].recent \o b)
    <3>1. loc[c].boundary + Len(loc[c].recent) <= Len(Log) /\ Log = pre \o loc[c].recent
      BY Zenon, <1>1, <2>1, <2>2 DEF Known
    <3>2. loc[c].boundary <= Len(Log)
      BY SMTT(30), <1>3, <3>1
    <3>3. Log' = (pre \o loc[c].recent) \o b
      BY Zenon, <1>8, <3>1
    <3>4. SubSeq(Log', 1, loc[c].boundary) = pre
      BY Zenon, <1>2, <1>3, <1>8, <3>2, PrefixOfMore
    <3>5. pre \in Seq(Blocks)
      BY <1>2, <1>3, <3>2, Halves
    <3> HIDE DEF pre
    <3>6. (pre \o loc[c].recent) \o b = pre \o (loc[c].recent \o b)
      <4> DEFINE r == loc[c].recent
      <4>1. r \in Seq(Blocks) /\ b \in Seq(Blocks) /\ pre \in Seq(Blocks)
        BY <1>3, <3>5
      <4> HIDE DEF r
      <4>2. (pre \o r) \o b = pre \o (r \o b)
        BY SMTT(30), <4>1
      <4> QED
        BY <4>2 DEF r
    <3> QED
      BY Zenon, <3>1, <3>2, <3>3, <3>4, <3>6
  <2>3. ASSUME NEW d \in Clients PROVE Known(loc[d])' /\ Covers(loc[d])'
    <3>1. CASE d # c
      <4>1. loc'[d] = loc[d] /\ Known(loc[d]) /\ Covers(loc[d])
        BY <1>10, <1>17, <3>1 DEF KInv
      <4>2. /\ loc[d].rev \in Nat /\ loc[d].boundary + Len(loc[d].recent) \in Nat
            /\ loc[d].sum.covered \in Nat
        <5>1. loc[d] \in Turn
          BY <1>2 DEF TypeInv
        <5>2. /\ loc[d].recent \in Seq(Blocks) /\ loc[d].boundary \in Nat /\ loc[d].rev \in Nat
              /\ loc[d].sum \in Sum
          BY <5>1 DEF Turn
        <5> QED
          BY SMTT(30), <5>2 DEF Sum
      <4>3. Known(loc[d])'
        <5>1. loc'[d].ep <= epoch'
          BY Zenon, <1>4, <4>1 DEF Known
        <5>2. ASSUME loc[d].ep = epoch
              PROVE  /\ loc[d].boundary + Len(loc[d].recent) <= Len(Log') /\ loc[d].rev <= row'.rev
                     /\ loc[d].rev # row'.rev /\ (loc[d].pc \in Early => loc[d].rev = 0)
                     /\ loc[d].pc \in Early \cup {"range"} => loc[d].recent = <<>>
          <6>1. /\ loc[d].boundary + Len(loc[d].recent) <= Len(Log) /\ loc[d].rev <= row.rev
                /\ loc[d].pc \in Early => loc[d].rev = 0
                /\ loc[d].pc \in Early \cup {"range"} => loc[d].recent = <<>>
            BY Zenon, <4>1, <5>2 DEF Known
          <6> DEFINE x == loc[d].boundary + Len(loc[d].recent)
          <6>2. x \in Nat /\ x <= Len(Log)
            BY <4>2, <6>1
          <6> HIDE DEF x
          <6>3. x <= Len(Log')
            BY SMTT(30), <1>3, <1>9, <6>2
          <6> QED
            BY SMTT(30), <1>2, <1>5, <4>2, <6>1, <6>3 DEF x
        <5> QED
          BY Zenon, <1>4, <4>1, <5>1, <5>2 DEF Known
      <4>4. Covers(loc[d])'
        <5>1. loc[d].sum.covered <= Len(Log) => loc[d].sum.covered <= Len(Log')
          BY <1>3, <1>9, <4>2
        <5> QED
          BY <1>11, <4>1, <5>1 DEF Covers
      <4> QED
        BY <4>3, <4>4
    <3>2. CASE d = c /\ l = Idle
      <4>1. loc'[d].ep <= epoch' /\ loc'[d].ep # epoch'
        BY <1>2, <1>4, <1>10, <3>2 DEF TypeInv, Idle
      <4>2. loc'[d].pc \notin Saving
        BY <1>10, <3>2 DEF Idle, Saving
      <4> QED
        BY Zenon, <4>1, <4>2 DEF Known, Covers
    <3>3. CASE d = c /\ l # Idle
      <4>1. Covers(loc[d])'
        BY <1>7, <1>10, <3>3 DEF Covers, Saving
      <4>2. loc'[d].ep <= epoch
        BY Zenon, <1>7, <1>10, <2>1, <3>3 DEF Known
      <4>3. ASSUME loc[c].ep = epoch
            PROVE  /\ l.boundary + Len(l.recent) <= Len(Log') /\ l.rev <= row'.rev
                   /\ l.pc \notin Early \cup {"range"} /\ Log' = SubSeq(Log', 1, l.boundary) \o l.recent
        <5>1. Len(loc[c].recent \o b) = Len(loc[c].recent) + Len(b) /\ Len(loc[c].recent) \in Nat
          BY <1>3
        <5>2. l.boundary + Len(l.recent) <= Len(Log')
          <6>1. l.boundary = loc[c].boundary /\ l.recent = loc[c].recent \o b
            BY <1>7, <3>3
          <6>2. loc[c].boundary + Len(loc[c].recent) <= Len(Log)
            BY Zenon, <2>2, <4>3
          <6>3. loc[c].boundary + (Len(loc[c].recent) + Len(b)) <= Len(Log) + Len(b)
            BY <1>3, <5>1, <6>2
          <6> QED
            BY <1>9, <5>1, <6>1, <6>3
        <5>3. l.rev <= row'.rev
          BY <1>2, <1>5, <1>7, <3>3
        <5>4. l.pc \notin Early \cup {"range"}
          BY SMTT(30), <1>7, <3>3 DEF Early
        <5> QED
          BY Zenon, <1>7, <2>2, <3>3, <4>3, <5>2, <5>3, <5>4
      <4>4. Known(loc[d])'
        BY Zenon, <1>4, <1>7, <1>10, <3>3, <4>2, <4>3 DEF Known
      <4> QED
        BY Zenon, <4>1, <4>4
    <3> QED
      BY <3>1, <3>2, <3>3
  <2>4. Extends
    <3> SUFFICES ASSUME NEW d \in Clients, loc'[d] # loc[d], loc[d].ep = epoch
                 PROVE  Log' = SubSeq(Log, 1, loc[d].boundary) \o loc[d].recent \o loc[d].batch
      BY Zenon DEF Extends
    <3>1. d = c
      BY <1>10
    <3> QED
      BY Zenon, <2>2, <3>1 DEF b
  <2>5. Manager' = "rolling" => epoch' = 1 /\ state'.covered <= Len(Log')
    <3>1. state.covered \in Nat
      BY <1>2 DEF TypeInv, Sum
    <3> QED
      BY SMTT(30), <1>3, <1>4, <1>9, <1>11, <1>17, <3>1 DEF KInv
  <2> QED
    BY <2>3, <2>4, <2>5 DEF KInv
<1> QED
  BY <1>15, <1>16, <1>17 DEF Simulated

\* SaveContextState in every backend.
LEMMA SaveSteps ==
  ASSUME SInv, NEW c \in Clients,
         \/ SaveState(c) \/ SaveStatePostgres(c) \/ InsertStatePostgres(c)
         \/ SelectStateSqlite(c) \/ WriteStateSqlite(c)
  PROVE  Simulated
<1> DEFINE l == loc[c]
<1>1. l.pc \in Saving /\ l.pc \in Later /\ l.pc \notin {"new", "liteMigrate"}
  BY SMTT(30) DEF SaveState, SaveStatePostgres, InsertStatePostgres, SelectStateSqlite, WriteStateSqlite,
         Saving, Later
<1>2. l \in Turn /\ Placed(l) /\ ~NeedsMigration /\ l.sum \in Sum /\ l.batch \in Seq(Blocks)
  BY Zenon, <1>1, Running DEF Turn
<1>3. CASE StateSaved(c)
  BY SMTT(30), <1>1, <1>3, StateSavedStep
<1>4. CASE Fail(c) /\ UNCHANGED Data /\ stale' \in {stale, stale \ {c}}
  BY <1>2, <1>4, FailStep DEF Data, Stored
<1>5. ASSUME NEW p \in {"pgState", "liteState"}, Goto(c, p), UNCHANGED Data,
             stale' \in {stale, stale \ {c}}, p = "liteState" => Backend = "sqlite"
      PROVE  Simulated
  <2>1. Become(c, [l EXCEPT !.pc = p, !.sum = l.sum, !.batch = l.batch])
    BY Zenon, <1>2, <1>5, SameLater DEF Goto
  <2>2. /\ p \in Later /\ p \in Saving /\ p \notin Writing /\ p \notin {"pgInsert", "pgRows"}
        /\ p # "liteAppend" /\ (p \in InSnapshot => Backend = "sqlite")
    BY <1>5 DEF Later, Saving, Writing, InSnapshot
  <2>3. Manager = "rolling" /\ (KInv => l.sum.covered <= Len(Log))
    BY Zenon, <1>1, <1>2 DEF Placed, KInv, Covers
  <2>4. UNCHANGED Stored
    BY <1>5 DEF Data, Stored
  <2> QED
    BY Zenon, <1>1, <1>2, <1>5, <2>1, <2>2, <2>3, <2>4, LaterStep
<1>6. \/ StateSaved(c)
      \/ Fail(c) /\ UNCHANGED Data /\ stale' \in {stale, stale \ {c}}
      \/ Goto(c, "pgState") /\ UNCHANGED Data /\ stale' = stale
      \/ Goto(c, "liteState") /\ UNCHANGED Data /\ stale' = stale \ {c} /\ Backend = "sqlite"
  <2>1. StateConflict(c) => Fail(c) /\ UNCHANGED Data /\ stale' = stale
    BY Zenon DEF StateConflict
  <2>2. CASE SaveState(c)
    BY <2>1, <2>2 DEF SaveState
  <2>3. CASE SaveStatePostgres(c)
    BY SMTT(30), <2>1, <2>3 DEF SaveStatePostgres
  <2>4. CASE InsertStatePostgres(c)
    BY <2>4 DEF InsertStatePostgres
  <2>5. CASE SelectStateSqlite(c)
    BY <2>1, <2>5 DEF SelectStateSqlite, OpenSnapshot
  <2>6. CASE WriteStateSqlite(c)
    BY <2>6 DEF WriteStateSqlite, OpenSnapshot
  <2> QED
    BY <2>2, <2>3, <2>4, <2>5, <2>6
<1> QED
  BY <1>3, <1>4, <1>5, <1>6

\* Append in every backend: only a write whose revision still stands goes
\* through.
LEMMA AppendSteps ==
  ASSUME SInv, NEW c \in Clients,
         \/ AppendMemory(c) \/ AppendRedis(c)
         \/ AppendPostgres(c) \/ InsertRowPostgres(c) \/ InsertMessagesPostgres(c)
         \/ SelectSqlite(c) \/ WriteSqlite(c)
  PROVE  Simulated
<1> DEFINE l == loc[c]
<1>1. l.pc \in Writing /\ l.pc \in Later /\ l.pc \notin {"new", "liteMigrate"}
  BY Zenon DEF AppendMemory, AppendRedis, AppendPostgres, InsertRowPostgres, InsertMessagesPostgres,
         SelectSqlite, WriteSqlite, Writing, Later
<1>2. /\ l \in Turn /\ Placed(l) /\ ~NeedsMigration /\ l.sum \in Sum /\ l.batch \in Seq(Blocks)
      /\ l.batch # <<>> /\ (~row.exists => row.rev = 0)
  BY Zenon, <1>1, Running DEF Turn, Placed, SInv, RowInv
<1>3. CASE Appended(c) /\ l.rev = row.rev
  BY SMTT(30), <1>1, <1>3, AppendedStep
<1>4. CASE Fail(c) /\ UNCHANGED Data /\ stale' \in {stale, stale \ {c}}
  BY <1>2, <1>4, FailStep DEF Data, Stored
<1>5. ASSUME NEW p \in {"pgInsert", "pgRows", "liteAppend"}, Goto(c, p), UNCHANGED Data,
             stale' \in {stale, stale \ {c}},
             p \in {"pgInsert", "pgRows"} => l.rev = 0,
             p = "liteAppend" => Backend = "sqlite" /\ l.rev = row.rev
      PROVE  Simulated
  <2>1. Become(c, [l EXCEPT !.pc = p, !.sum = l.sum, !.batch = l.batch])
    BY Zenon, <1>2, <1>5, SameLater DEF Goto
  <2>2. p \in Later /\ p \notin Saving /\ (p \in InSnapshot => Backend = "sqlite")
    BY <1>5 DEF Later, Saving, Writing, InSnapshot
  <2>3. UNCHANGED Stored
    BY <1>5 DEF Data, Stored
  <2> QED
    BY Zenon, <1>1, <1>2, <1>5, <2>1, <2>2, <2>3, LaterStep
<1>6. \/ Appended(c) /\ l.rev = row.rev
      \/ Fail(c) /\ UNCHANGED Data /\ stale' \in {stale, stale \ {c}}
      \/ Goto(c, "pgInsert") /\ UNCHANGED Data /\ stale' = stale /\ l.rev = 0
      \/ Goto(c, "pgRows") /\ UNCHANGED Data /\ stale' = stale /\ l.rev = 0
      \/ Goto(c, "liteAppend") /\ UNCHANGED Data /\ stale' = stale \ {c}
           /\ Backend = "sqlite" /\ l.rev = row.rev
  <2>1. Conflict(c) => Fail(c) /\ UNCHANGED Data /\ stale' = stale
    BY Zenon DEF Conflict
  <2>2. CASE AppendMemory(c) \/ AppendRedis(c)
    BY Zenon, <2>1, <2>2 DEF AppendMemory, AppendRedis
  <2>3. CASE AppendPostgres(c)
    BY Zenon, <1>2, <2>1, <2>3 DEF AppendPostgres
  <2>4. CASE InsertRowPostgres(c)
    <3>1. l.rev = 0
      BY Zenon, <1>2, <2>4 DEF InsertRowPostgres, Placed
    <3> QED
      BY Zenon, <1>2, <2>4, <3>1 DEF InsertRowPostgres
  <2>5. CASE InsertMessagesPostgres(c)
    <3>1. l.rev = 0
      BY <1>2, <2>5 DEF InsertMessagesPostgres, Placed
    <3> QED
      BY Zenon, <2>1, <2>5, <3>1 DEF InsertMessagesPostgres
  <2>6. CASE SelectSqlite(c)
    BY Zenon, <2>1, <2>6 DEF SelectSqlite, OpenSnapshot
  <2>7. CASE WriteSqlite(c)
    <3>1. l.pc = "liteAppend" /\ (c \notin stale => l.rev = row.rev)
      BY SMTT(30), <2>7 DEF WriteSqlite, SInv, Fresh
    <3> QED
      BY Zenon, <2>7, <3>1 DEF WriteSqlite, OpenSnapshot
  <2> QED
    BY Zenon, <2>2, <2>3, <2>4, <2>5, <2>6, <2>7
<1> QED
  BY Zenon, <1>3, <1>4, <1>5, <1>6

-----------------------------------------------------------------------------
(* Removal and migration.                                                  *)

\* A removed conversation starts a new life that no turn under way belongs to.
LEMMA RemovedStep ==
  ASSUME SInv, Removed, \A d \in Clients : d \in stale' \/ loc[d].pc \notin InSnapshot
  PROVE  Simulated
<1>1. /\ row' = NoRow /\ msgs' = <<>> /\ legacy' = <<>> /\ won' = {} /\ epoch' = epoch + 1
      /\ conf' = conf /\ loc' = loc /\ state' \in {state, NoState} /\ epoch <= Configs[conf].removals
  BY DEF Removed
<1>2. TypeInv
  BY DEF SInv
<1>3. Backend' = Backend /\ Manager' = Manager /\ Coded' = Coded /\ ~NeedsMigration'
  BY SMTT(30), <1>1 DEF Backend, Manager, Coded, NeedsMigration
<1>4. row'.rev = 0 /\ row'.last = 0 /\ row'.exists = FALSE
  BY Zenon, <1>1 DEF NoRow
<1>5. Log' = <<>>
  <2>1. Log' = Decode(msgs)'
    BY <1>1 DEF Log
  <2>2. <<>> \in Seq(Tags) /\ Len(<<>>) = 0
    OBVIOUS
  <2>3. UnmarshalMessages(<<>>) = <<>>
    <3>1. UnmarshalMessages(<<>>) \in Seq(Blocks) /\ Len(UnmarshalMessages(<<>>)) = 0
      BY Zenon, <2>2, DecodeSeq
    <3> QED
      BY <3>1
  <2> QED
    BY <1>1, <1>3, <2>1, <2>3 DEF Decode
<1>6. TypeInv' /\ RowInv'
  <2>1. NoState \in Sum /\ NoRow \in [exists : BOOLEAN, rev : Nat, last : Nat]
    BY DEF NoState, Sum, NoRow
  <2>2. epoch' \in Nat \ {0} /\ <<>> \in Seq(Coded) /\ <<>> \in Seq(Tags) /\ Len(<<>>) = 0
    BY <1>1, <1>2 DEF TypeInv
  <2> QED
    BY <1>1, <1>2, <1>3, <1>4, <2>1, <2>2 DEF TypeInv, RowInv
<1>7. ASSUME NEW d \in Clients PROVE Placed(loc[d])' /\ (d \in stale' \/ Fresh(loc[d])')
  <2>1. Placed(loc[d])
    BY DEF SInv
  <2>2. Placed(loc[d])'
    BY <1>1, <1>3, <2>1 DEF Placed
  <2>3. loc[d].pc \notin InSnapshot => Fresh(loc[d])'
    BY <1>1 DEF Fresh, InSnapshot
  <2> QED
    BY <2>2, <2>3
<1>8. SInv'
  BY <1>6, <1>7 DEF SInv
<1>9. Transcript!VNext
  BY <1>1, <1>4, <1>5 DEF Transcript!VNext, Transcript!Remove
<1>10. ASSUME Steady, KInv PROVE KInv' /\ Extends
  <2>1. epoch \in Nat \ {0} /\ conf \in DOMAIN Configs /\ row.rev \in Nat
    BY <1>2 DEF TypeInv
  <2>2. Manager # "rolling"
    BY <1>1, <1>10, <2>1 DEF Steady, Manager
  <2>3. ASSUME NEW d \in Clients PROVE Known(loc[d])' /\ Covers(loc[d])'
    <3>1. loc[d].ep <= epoch /\ loc[d].ep \in Nat
      BY <1>2, <1>10 DEF KInv, Known, TypeInv, Turn
    <3>2. loc[d].ep <= epoch' /\ loc[d].ep # epoch'
      BY <1>1, <2>1, <3>1
    <3> QED
      BY Zenon, <1>1, <1>3, <2>2, <3>2 DEF Known, Covers
  <2>4. Extends
    BY <1>4, <2>1 DEF Extends
  <2> QED
    BY <1>3, <2>2, <2>3, <2>4 DEF KInv
<1> QED
  BY <1>8, <1>9, <1>10 DEF Simulated

\* Moving a snapshot to message rows leaves the transcript as it was.
LEMMA MigratedStep ==
  ASSUME SInv, NEW c \in Clients, loc[c].pc \in {"new", "liteMigrate"}, NeedsMigration,
         Backend # "memory", Migrated, Goto(c, "idle"), UNCHANGED <<conf, legacy, state, epoch, won>>,
         \A d \in Clients \ {c} : d \in stale' \/ loc[d].pc \notin InSnapshot
  PROVE  Simulated
<1> DEFINE l == [loc[c] EXCEPT !.pc = "idle"]
           u == UnmarshalMessages(legacy)
<1>1. TypeInv /\ RowInv /\ loc[c] \in Turn /\ Placed(loc[c])
  BY DEF SInv, TypeInv
<1>2. u \in Seq(Blocks) /\ Len(u) = Len(legacy) /\ legacy # <<>> /\ legacy \in Seq(Tags)
  BY <1>1, DecodeSeq DEF TypeInv, NeedsMigration
<1>3. msgs' = MarshalMessages(u) /\ row' = [row EXCEPT !.last = Len(legacy)]
  BY DEF Migrated
<1>4. /\ row' \in [exists : BOOLEAN, rev : Nat, last : Nat] /\ row'.rev = row.rev
      /\ row'.last = Len(legacy) /\ row'.exists = row.exists /\ Len(legacy) \in Nat /\ Len(legacy) # 0
  <2>1. Len(legacy) \in Nat /\ Len(legacy) # 0
    BY <1>2
  <2>2. row \in [exists : BOOLEAN, rev : Nat, last : Nat]
    BY <1>1 DEF TypeInv
  <2> QED
    BY <1>3, <2>1, <2>2
<1> HIDE DEF u
<1>5. msgs' \in Seq(Tags) /\ Len(msgs') = Len(legacy) /\ UnmarshalMessages(msgs') = u
  BY <1>2, <1>3, EncodeSeq, RoundTrip
<1>6. Backend' = Backend /\ Manager' = Manager /\ Coded' = Tags /\ ~NeedsMigration'
  BY <1>4 DEF Backend, Manager, Coded, NeedsMigration
<1>7. Log' = Log
  <2>1. Log = u
    BY DEF Log, NeedsMigration, u
  <2>2. Log' = UnmarshalMessages(msgs')
    BY <1>4, <1>6 DEF Log, Decode
  <2> QED
    BY <1>5, <2>1, <2>2
<1>8. row.exists
  BY <1>1, <1>2 DEF RowInv
<1>9. l \in Turn /\ l.pc = "idle" /\ l.ep = 0 /\ Become(c, l)
  <2>1. "idle" \in Pcs /\ loc[c].ep = 0
    BY <1>1 DEF Pcs, Unread, Placed
  <2> QED
    BY <1>1, <2>1, Elsewhere DEF Goto
<1> HIDE DEF l
<1>10. /\ loc' \in [Clients -> Turn] /\ loc'[c] = l
       /\ \A d \in Clients : d # c => loc'[d] = loc[d]
  BY <1>1, <1>9, OneMoves
<1>11. TypeInv' /\ RowInv'
  <2>1. TypeInv'
    BY <1>1, <1>4, <1>5, <1>6, <1>8, <1>10 DEF TypeInv
  <2>2. RowInv'
    BY <1>1, <1>4, <1>5, <1>6, <1>8 DEF RowInv
  <2> QED
    BY <2>1, <2>2
<1>12. ASSUME NEW d \in Clients PROVE Placed(loc[d])' /\ (d \in stale' \/ Fresh(loc[d])')
  <2>1. CASE d = c
    BY Zenon, <1>6, <1>9, <1>10, <2>1 DEF Placed, Fresh, InSnapshot, Saving, Writing, Unread
  <2>2. CASE d # c
    <3>1. loc'[d] = loc[d] /\ Placed(loc[d])
      BY <1>10, <2>2 DEF SInv
    <3>2. Placed(loc[d])'
      BY Zenon, <1>6, <3>1 DEF Placed
    <3>3. loc[d].pc \notin InSnapshot => Fresh(loc[d])'
      BY Zenon, <3>1 DEF Fresh, InSnapshot
    <3> QED
      BY Zenon, <2>2, <3>2, <3>3
  <2> QED
    BY Zenon, <2>1, <2>2
<1>13. SInv'
  BY <1>11, <1>12 DEF SInv
<1>14. UNCHANGED Transcript!vvars
  BY Zenon, <1>4, <1>7 DEF Transcript!vvars
<1>15. ASSUME KInv PROVE KInv' /\ Extends
  <2>1. epoch \in Nat \ {0} /\ row.rev \in Nat
    BY <1>1 DEF TypeInv
  <2>2. ASSUME NEW d \in Clients PROVE Known(loc[d])' /\ Covers(loc[d])'
    <3>1. Known(l) /\ Covers(l)
      <4>1. l.ep <= epoch /\ l.ep # epoch
        BY <1>9, <2>1
      <4>2. l.pc \notin Saving
        BY <1>9 DEF Saving
      <4> QED
        BY Zenon, <4>1, <4>2 DEF Known, Covers
    <3>2. Known(loc'[d]) /\ Covers(loc'[d])
      BY <1>10, <1>15, <3>1 DEF KInv
    <3> QED
      BY Zenon, <1>4, <1>6, <1>7, <3>2 DEF Known, Covers
  <2>3. Extends
    BY SMTT(30), <1>4, <2>1 DEF Extends
  <2> QED
    BY SMTT(30), <1>6, <1>7, <1>15, <2>2, <2>3 DEF KInv
<1> QED
  BY <1>13, <1>14, <1>15 DEF Simulated

\* Delete, expiry, and the migrations of New.
LEMMA LifeSteps ==
  ASSUME SInv
  PROVE  /\ Expire => Simulated
         /\ \A c \in Clients : Delete(c) \/ MigratePostgres(c) \/ MigrateSqlite(c) => Simulated
<1>1. \A d \in Clients : loc[d].pc \in InSnapshot => Backend = "sqlite"
  BY DEF SInv, Placed
<1>2. Expire => Simulated
  <2> SUFFICES ASSUME Expire PROVE Simulated
    OBVIOUS
  <2>1. Removed /\ Backend = "redis"
    BY DEF Expire
  <2> QED
    BY <1>1, <2>1, RemovedStep
<1>3. ASSUME NEW c \in Clients, Delete(c) PROVE Simulated
  <2>1. Removed /\ Commit(c) /\ loc[c].pc = "idle"
    BY <1>3 DEF Delete
  <2>2. \A d \in Clients : d \in stale' \/ loc[d].pc \notin InSnapshot
    BY <2>1 DEF Commit, InSnapshot
  <2> QED
    BY <2>1, <2>2, RemovedStep
<1>4. ASSUME NEW c \in Clients, NEW p \in {"idle", "new"}, p = "idle" => ~NeedsMigration,
             loc[c].pc \in {"new", "liteMigrate"}, Goto(c, p),
             UNCHANGED Stored, stale' \in {stale, stale \ {c}}
      PROVE  Simulated
  <2> DEFINE l == [loc[c] EXCEPT !.pc = p]
  <2>1. loc[c] \in Turn /\ Placed(loc[c]) /\ p \in Pcs /\ p \in Unread /\ epoch \in Nat \ {0}
    BY DEF SInv, TypeInv, Pcs, Unread
  <2>2. l \in Turn /\ l.pc = p /\ l.ep = 0
    BY <1>4, <2>1, Elsewhere DEF Placed, Unread
  <2> HIDE DEF l
  <2>3. Placed(l) /\ Fresh(l) /\ Known(l) /\ Covers(l)
    BY SMTT(30), <1>4, <2>1, <2>2 DEF Placed, Fresh, Known, Covers, InSnapshot, Saving, Writing
  <2> QED
    BY <1>4, <2>1, <2>3, GotoStep DEF l
<1>5. ASSUME NEW c \in Clients, MigratePostgres(c) PROVE Simulated
  <2>1. /\ Backend = "postgres" /\ loc[c].pc = "new" /\ Goto(c, "idle") /\ stale' = stale
        /\ UNCHANGED <<conf, legacy, state, epoch, won>>
    BY <1>5 DEF MigratePostgres
  <2>2. CASE NeedsMigration
    BY Zenon, <1>1, <1>5, <2>1, <2>2, MigratedStep DEF MigratePostgres
  <2>3. CASE ~NeedsMigration
    <3>1. UNCHANGED Stored
      BY <1>5, <2>1, <2>3 DEF MigratePostgres, Stored
    <3> QED
      BY Zenon, <1>4, <2>1, <2>3, <3>1
  <2> QED
    BY <2>2, <2>3
<1>6. ASSUME NEW c \in Clients, MigrateSqlite(c) PROVE Simulated
  <2>1. loc[c].pc = "liteMigrate" /\ Backend = "sqlite" /\ UNCHANGED <<conf, legacy, state, epoch, won>>
    BY SMTT(30), <1>1, <1>6 DEF MigrateSqlite, InSnapshot
  <2>2. CASE c \notin stale
    <3>1. Migrated /\ Goto(c, "idle") /\ Commit(c)
      BY <1>6, <2>2 DEF MigrateSqlite
    <3>2. NeedsMigration
      BY <2>1, <2>2 DEF SInv, Fresh
    <3>3. \A d \in Clients \ {c} : d \in stale' \/ loc[d].pc \notin InSnapshot
      BY <3>1 DEF Commit
    <3> QED
      BY <2>1, <3>1, <3>2, <3>3, MigratedStep
  <2>3. CASE c \in stale
    <3>1. Goto(c, "new") /\ stale' = stale \ {c} /\ UNCHANGED Stored
      BY <1>6, <2>1, <2>3 DEF MigrateSqlite, OpenSnapshot, Stored
    <3> QED
      BY <1>4, <2>1, <3>1
  <2> QED
    BY <2>2, <2>3
<1> QED
  BY <1>2, <1>3, <1>5, <1>6

-----------------------------------------------------------------------------
(* The theorems.                                                           *)

\* Every step of every backend is a step of the log or leaves it alone.
LEMMA StepSimulated == SInv /\ [Next]_vars => Simulated
<1> SUFFICES ASSUME SInv, [Next]_vars PROVE Simulated
  OBVIOUS
<1>1. ASSUME NEW c \in Clients, Step(c) PROVE Simulated
  BY <1>1, LifeSteps, ScanStep, StartStep, BoundarySteps, LoadSteps, PrepareSteps, SaveSteps,
     ModelStep, AppendSteps DEF Step
<1>2. CASE Expire
  BY <1>2, LifeSteps
<1>3. CASE UNCHANGED vars
  <2>1. UNCHANGED <<conf, row, msgs, legacy, state, loc, stale, epoch, won>>
    BY <1>3 DEF vars
  <2>2. /\ Log' = Log /\ Backend' = Backend /\ Manager' = Manager /\ Coded' = Coded
        /\ NeedsMigration' = NeedsMigration
    BY <2>1, RowsStay
  <2>3. SInv'
    <3>1. TypeInv' /\ RowInv'
      BY SMTT(30), <2>1, <2>2 DEF SInv, TypeInv, RowInv
    <3>2. \A c \in Clients : Placed(loc[c])' /\ (c \in stale' \/ Fresh(loc[c])')
      BY Zenon, <2>1, <2>2 DEF SInv, Placed, Fresh
    <3> QED
      BY Zenon, <3>1, <3>2 DEF SInv
  <2>4. KInv => KInv'
    BY Zenon, <2>1, <2>2 DEF KInv, Known, Covers
  <2>5. UNCHANGED Transcript!vvars /\ Extends
    BY <2>1, <2>2 DEF Transcript!vvars, Extends
  <2> QED
    BY <2>3, <2>4, <2>5 DEF Simulated
<1> QED
  BY <1>1, <1>2, <1>3 DEF Next, Done

\* A deployment on new, migrated or old stores satisfies the invariants, and its
\* transcript starts the log.
LEMMA InitSimulated == Init => SInv /\ KInv /\ Transcript!VInit
<1> SUFFICES ASSUME Init PROVE SInv /\ KInv /\ Transcript!VInit
  OBVIOUS
<1> DEFINE start == Configs[conf].start
           old == Configs[conf].legacy
           p == IF old THEN "new" ELSE "idle"
           l == [Idle EXCEPT !.pc = p]
           full == [exists |-> TRUE, rev |-> IF old THEN 0 ELSE 1, last |-> IF old THEN 0 ELSE Len(start)]
<1>1. /\ conf \in DOMAIN Configs /\ row = IF start = <<>> THEN NoRow ELSE full
      /\ legacy = IF old THEN MarshalMessages(start) ELSE <<>>
      /\ msgs = IF old THEN <<>> ELSE Encode(start)
      /\ loc = [c \in Clients |-> l] /\ state = NoState /\ stale = {} /\ epoch = 1 /\ won = {}
  BY DEF Init
<1>2. start \in Seq(Blocks) /\ old \in BOOLEAN /\ Len(start) \in Nat
  BY <1>1, ConfigAssumption
<1> HIDE DEF start, old
<1>3. /\ MarshalMessages(start) \in Seq(Tags) /\ Len(MarshalMessages(start)) = Len(start)
      /\ Encode(start) \in Seq(Coded) /\ Len(Encode(start)) = Len(start)
  BY <1>2, EncodeSeq DEF Encode, Coded
<1>4. legacy \in Seq(Tags) /\ msgs \in Seq(Coded) /\ Len(msgs) = IF old THEN 0 ELSE Len(start)
  BY <1>1, <1>2, <1>3
<1>5. start = <<>> => legacy = <<>> /\ Len(start) = 0
  BY <1>1, <1>2, <1>3
<1>6. /\ row \in [exists : BOOLEAN, rev : Nat, last : Nat] /\ row.last = Len(msgs)
      /\ ~row.exists => row.rev = 0 /\ row.last = 0 /\ start = <<>>
  <2>1. CASE start = <<>>
    BY <1>1, <1>2, <1>4, <1>5, <2>1 DEF NoRow
  <2>2. CASE start # <<>>
    BY <1>1, <1>2, <1>4, <2>2
  <2> QED
    BY <2>1, <2>2
<1>7. Idle \in Turn /\ Idle.ep = 0 /\ p \in Pcs /\ p \in Unread
  <2>1. Idle \in Turn
    BY SMTT(30) DEF Idle, Turn, Pcs, Unread, Sum, NoState
  <2>2. Idle.ep = 0
    BY DEF Idle
  <2> QED
    BY <2>1, <2>2 DEF Pcs, Unread
<1>8. l \in Turn /\ l.pc = p /\ l.ep = 0
  BY <1>7, Elsewhere
<1>9. state \in Sum /\ state.covered = 0
  BY <1>1 DEF Sum, NoState
<1> HIDE DEF l
<1>10. TypeInv /\ RowInv
  BY SMTT(30), <1>1, <1>4, <1>5, <1>6, <1>8, <1>9 DEF TypeInv, RowInv
<1>11. Log \in Seq(Blocks) /\ Len(Log) \in Nat
  BY <1>10, LogSeq
<1>12. NeedsMigration => old
  BY <1>1 DEF NeedsMigration
<1>13. \A c \in Clients : Placed(loc[c]) /\ Fresh(loc[c]) /\ Known(loc[c]) /\ Covers(loc[c])
  <2> SUFFICES ASSUME NEW c \in Clients PROVE Placed(l) /\ Fresh(l) /\ Known(l) /\ Covers(l)
    BY <1>1
  <2>1. l.pc \in {"new", "idle"} /\ (NeedsMigration => l.pc = "new")
    BY <1>8, <1>12
  <2> QED
    <3>1. Placed(l) /\ Fresh(l) /\ Covers(l)
      BY Zenon, <1>8, <2>1 DEF Placed, Fresh, Covers, InSnapshot, Saving, Writing, Unread
    <3>2. l.ep <= epoch /\ l.ep # epoch
      BY <1>1, <1>8
    <3> QED
      BY Zenon, <3>1, <3>2 DEF Known
<1> QED
  BY SMTT(30), <1>1, <1>6, <1>9, <1>10, <1>11, <1>13 DEF SInv, KInv, Transcript!VInit

\* The in-memory, PostgreSQL, SQLite and Redis transcripts implement the
\* versioned log through concurrent turns, stale SQLite snapshots, lost replies,
\* migrations of the old layout, deletes and expirations (the checks by which
\* ConversationStore.Append refuses a revision that has moved).
THEOREM TranscriptImplementsLog == Spec => TranscriptContract
<1>1. Init => SInv /\ Transcript!VInit
  BY InitSimulated
<1>2. SInv /\ [Next]_vars => SInv' /\ [Transcript!VNext]_(Transcript!vvars)
  BY StepSimulated DEF Simulated
<1>3. Spec => Transcript!VSpec
  BY <1>1, <1>2, PTL DEF Spec, Transcript!VSpec
<1> QED
  BY <1>3 DEF TranscriptContract

\* Where no conversation with a rolling summary is removed, an Append that
\* advances the revision extends exactly what its turn loaded: the messages
\* before its boundary, those read after it and the turn's own, with nothing
\* another process wrote in between (the revision that prepareTurnMessages hands
\* to saveConversation).
THEOREM AppendSafety == ASSUME Steady PROVE Spec => AppendExtendsRead
<1>1. Init => SInv /\ KInv
  BY InitSimulated
<1>2. SInv /\ KInv /\ [Next]_vars => SInv' /\ KInv' /\ [Extends]_vars
  BY StepSimulated DEF Simulated
<1>3. Spec => [][Extends]_vars
  BY <1>1, <1>2, PTL DEF Spec
<1> QED
  BY <1>3 DEF AppendExtendsRead, Extends
=============================================================================
