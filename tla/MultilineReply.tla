--------------------------- MODULE MultilineReply ---------------------------
(***************************************************************************)
(* Client.MultilineReply (src/internal/reply.go), used by RPL_NAMREPLY and  *)
(* RPL_WHOISCHANNELS: it splits a list of names into chunks and sends one  *)
(* numeric per chunk, the names joined by spaces in the last %s of the     *)
(* format.  A name is a sequence of characters; the loop over from and to  *)
(* is the recursive operator ChunkLoop, and Chunks(names) is the sequence  *)
(* of chunks NumericReply is called with, in order.  Channel uses Chunks   *)
(* for its NAMES and RPL_WHOISCHANNELS replies.                            *)
(*                                                                         *)
(* The line of one chunk is the header ":<server> <code> <nick> ", then    *)
(* the format with its %s verbs replaced by the fixed arguments and the    *)
(* joined names.  MultilineReply estimates it from the header and the raw  *)
(* format, %s verbs included.                                              *)
(***************************************************************************)
EXTENDS Integers, Sequences, SequencesExt

CONSTANTS
  MaxReplyLen,   \* MAX_REPLY_LEN (not defined in src/; 510 in the daemon it derives from)
  LineLimit,     \* spec.md 3: a line is at most 512 bytes with its CRLF
  HeaderLen,     \* len(":<server> <code> <nick> ")
  FormatLen,     \* len(format), e.g. 8 for "= %s :%s"
  Verbs,         \* the %s verbs in format
  FixedArgsLen,  \* the summed lengths of the arguments before the names
  NameSet,       \* the names a list may hold
  MaxNames       \* bound on the number of names

VARIABLES
  names,  \* the names argument
  sent,   \* the chunks sent by NumericReply
  done    \* MultilineReply has returned

vars == <<names, sent, done>>

(* joinedLen: the names and the spaces between them; -1 for no names.      *)
JoinedLen(s) == FoldSeq(LAMBDA n, acc : Len(n) + acc, 0, s) + Len(s) - 1

(* baseLen := len(NewNumericReply(target, code, format)): with no          *)
(* arguments the format is used as it is.                                  *)
BaseLen == HeaderLen + FormatLen

(* tooLong(names)                                                          *)
TooLong(s) == BaseLen + JoinedLen(s) > MaxReplyLen

(* The length of the line NumericReply sends for a chunk, and its CRLF:    *)
(* Sprintf replaces every %s verb by its argument.                         *)
LineLen(s) == HeaderLen + FormatLen - 2 * Verbs + FixedArgsLen + JoinedLen(s) + 2

(* names[lo:hi] of Go.                                                     *)
Slice(s, lo, hi) == SubSeq(s, lo + 1, hi)

(* The for loop from (from, to) on: a chunk names[from:to] that is too     *)
(* long, and holds more than one name, sends names[from:to-1] and starts   *)
(* the next chunk at to - 1; otherwise to grows.  After the loop the rest  *)
(* names[from:] is sent, if there is any.                                  *)
RECURSIVE ChunkLoop(_, _, _)
ChunkLoop(s, from, to) ==
  IF to < Len(s)
  THEN IF from < to - 1 /\ TooLong(Slice(s, from, to))
       THEN <<Slice(s, from, to - 1)>> \o ChunkLoop(s, to - 1, to)
       ELSE ChunkLoop(s, from, to + 1)
  ELSE IF from < Len(s) THEN <<Slice(s, from, Len(s))>> ELSE <<>>

(* from, to := 0, 1                                                        *)
Chunks(s) == ChunkLoop(s, 0, 1)

-----------------------------------------------------------------------------
(* One call of MultilineReply.                                             *)
Reply ==
  /\ ~done
  /\ sent' = Chunks(names)
  /\ done' = TRUE
  /\ UNCHANGED names

Init ==
  /\ names \in UNION {[1..k -> NameSet] : k \in 0..MaxNames}
  /\ sent = <<>>
  /\ done = FALSE

Next == Reply

Spec == Init /\ [][Next]_vars

-----------------------------------------------------------------------------
(* spec.md 3 (P4): every line sent is at most 512 bytes with its CRLF.     *)
LinesFit ==
  done => \A i \in 1..Len(sent) : LineLen(sent[i]) <= LineLimit
=============================================================================
