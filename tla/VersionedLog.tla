---------------------------- MODULE VersionedLog ----------------------------
(***************************************************************************)
(* What a versioned, append-only value promises its writers: a log that    *)
(* grows by one whole batch under one revision, each revision acknowledged *)
(* to at most one writer, until the value is removed and starts again.     *)
(* ConversationStores implements it twice: the canonical transcript of a   *)
(* conversation (ConversationStore.Append) and the rolling summary kept    *)
(* as derived context state (ContextStateStore.SaveContextState).          *)
(***************************************************************************)
EXTENDS Naturals, Sequences

CONSTANTS Writers,   \* the processes that write the value
          Entries    \* what the log is made of

VARIABLES log,       \* the entries written so far
          rev,       \* the revision a writer must know to write
          acks       \* pairs <<writer, revision>> reported as written

vvars == <<log, rev, acks>>

VInit == log \in Seq(Entries) /\ rev \in Nat /\ acks = {}

\* One batch enters whole and advances the revision once. The reply may be
\* lost: then the write stands and nobody is told of it.
Write(w) ==
    /\ log' \in Seq(Entries) /\ Len(log') > Len(log)
    /\ SubSeq(log', 1, Len(log)) = log
    /\ rev' = rev + 1
    /\ acks' \in {acks, acks \cup {<<w, rev + 1>>}}

Remove == log' = <<>> /\ rev' = 0 /\ acks' = {}

VNext == (\E w \in Writers : Write(w)) \/ Remove

VSpec == VInit /\ [][VNext]_vvars

\* An acknowledged revision is not beyond the current one and was reported to
\* one writer only: two writers never both believe they made it.
OneWinner ==
    /\ \A a \in acks : a[2] \in 1 .. rev
    /\ \A a, b \in acks : a[2] = b[2] => a = b
=============================================================================
