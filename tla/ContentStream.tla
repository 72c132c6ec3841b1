--------------------------- MODULE ContentStream ---------------------------
(***************************************************************************)
(* ReadContent() and WriteContent() (src/content_stream.cc) at the two     *)
(* ends of a byte stream, with the Reader and Writer they use.  A byte is  *)
(* its character code.  The writing program calls WriteContent(), may end  *)
(* at any moment, and may let other output slip into the stream between    *)
(* two messages; bytes arrive one by one.  The reading program calls       *)
(* ReadContent() until it fails.                                           *)
(***************************************************************************)
EXTENDS Integers, Sequences, SequencesExt

CONSTANTS
    kContentLength, \* the bytes of "Content-Length: "
    Contents,       \* the messages that may be written
    Stray,          \* other output that may slip into the stream
    MaxSize,        \* std::string::max_size()
    LenModulus,     \* one more than the largest uint64_t
    MaxMessages     \* bound: messages written

ASSUME ContentAssumption ==
    /\ kContentLength \in Seq(0..255) \ {<<>>}
    /\ MaxSize \in Nat /\ LenModulus \in Nat /\ MaxSize < LenModulus
    /\ \A c \in Contents : c \in Seq(0..255) /\ Len(c) <= MaxSize
    /\ Stray \subseteq Seq(0..255) \ {<<>>}

VARIABLES
    pending,  \* written, on its way
    stream,   \* arrived and not yet read
    eof,      \* no more bytes will arrive
    pc,       \* where ReadContent() is, or how the last call ended
    len,      \* its local variable
    count,    \* history: the byte count it asked of Read() last
    written,  \* history: the contents WriteContent() was given
    got,      \* history: the contents ReadContent() has returned
    clean     \* history: how many contents were written before other output

contentVars == <<pending, stream, eof, pc, len, count, written, got, clean>>

CR == 13
LF == 10
Digits == 48..57

ContentTypeOK ==
    /\ pending \in Seq(0..255) /\ stream \in Seq(0..255)
    /\ eof \in BOOLEAN
    /\ pc \in {"header", "length", "newlines", "content", "failed", "thrown"}
    /\ len \in 0..(LenModulus - 1)
    /\ count \in Nat
    /\ written \in Seq(Contents)
    /\ got \in Seq(Seq(0..255))
    /\ clean \in Nat \cup {-1}

ContentInit ==
    /\ pending = <<>> /\ stream = <<>> /\ eof = FALSE
    /\ pc = "header" /\ len = 0 /\ count = Len(kContentLength)
    /\ written = <<>> /\ got = <<>> /\ clean = -1
-----------------------------------------------------------------------------
(* The writing program. *)

(* How operator<< prints a length. *)
Decimal[n \in Nat] ==
    IF n < 10 THEN <<48 + n>> ELSE Decimal[n \div 10] \o <<48 + (n % 10)>>

(* A variant of Framed: the length counts the blank line too. *)
FramedTooLong(c) ==
    kContentLength \o Decimal[Len(c) + 4] \o <<CR, LF, CR, LF>> \o c

Framed(c) == kContentLength \o Decimal[Len(c)] \o <<CR, LF, CR, LF>> \o c

WriteContent(c) ==
    /\ ~eof /\ Len(written) < MaxMessages
    /\ pending' = pending \o Framed(c)
    /\ written' = Append(written, c)
    /\ UNCHANGED <<stream, eof, pc, len, count, got, clean>>

(* The program sends what ReadContent() may not expect: once is enough.    *)
WriteStray(s) ==
    /\ ~eof /\ clean = -1
    /\ pending' = pending \o s
    /\ clean' = Len(written)
    /\ UNCHANGED <<stream, eof, pc, len, count, written, got>>

Arrive ==
    /\ pending # <<>>
    /\ stream' = Append(stream, Head(pending))
    /\ pending' = Tail(pending)
    /\ UNCHANGED <<eof, pc, len, count, written, got, clean>>

(* The program ends, in the middle of a message perhaps. *)
Close ==
    /\ ~eof
    /\ eof' = TRUE
    /\ pending' = <<>>
    /\ UNCHANGED <<stream, pc, len, count, written, got, clean>>
-----------------------------------------------------------------------------
(* The reading program.                                                    *)

(* Read() blocks until n bytes have arrived or none will follow.           *)
Read(n)  == Len(stream) >= n /\ stream' = SubSeq(stream, n + 1, Len(stream))
Short(n) == eof /\ Len(stream) < n /\ stream' = <<>>

Fail == pc' = "failed" /\ UNCHANGED <<len, count, got>>

Goto(where, n) == pc' = where /\ count' = n

(* Match(): the whole of kContentLength, or a failure. *)
MatchHeader ==
    LET n == Len(kContentLength)
    IN  /\ pc = "header"
        /\ \/ /\ Read(n) /\ SubSeq(stream, 1, n) = kContentLength
              /\ Goto("length", 1) /\ len' = 0
              /\ UNCHANGED got
           \/ Read(n) /\ SubSeq(stream, 1, n) # kContentLength /\ Fail
           \/ Short(n) /\ Fail
        /\ UNCHANGED <<pending, eof, written, clean>>

(* A variant of NextLen: a wider integer than uint64_t. *)
NextLenWide(l, c) == l * 10 + (c - 48)

(* A variant of NextLen: only the last digit counts. *)
NextLenLastDigit(l, c) == (c - 48) % LenModulus

(* len * 10 + (c - '0'), in uint64_t arithmetic. *)
NextLen(l, c) == (l * 10 + (c - 48)) % LenModulus

(* One turn of the loop over the digits. *)
ReadLength ==
    LET c == Head(stream)
    IN  /\ pc = "length"
        /\ \/ /\ Read(1) /\ c \in Digits
              /\ len' = NextLen(len, c)
              /\ UNCHANGED <<pc, count, got>>
           \/ Read(1) /\ c = CR /\ Goto("newlines", 3) /\ UNCHANGED <<len, got>>
           \/ Read(1) /\ c \notin Digits \cup {CR} /\ Fail
           \/ Short(1) /\ Fail
        /\ UNCHANGED <<pending, eof, written, clean>>

ReadNewlines ==
    /\ pc = "newlines"
    /\ \/ /\ Read(3) /\ SubSeq(stream, 1, 3) = <<LF, CR, LF>>
          /\ pc' = "content" /\ count' = IF len <= MaxSize THEN len ELSE count
          /\ UNCHANGED <<len, got>>
       \/ Read(3) /\ SubSeq(stream, 1, 3) # <<LF, CR, LF>> /\ Fail
       \/ Short(3) /\ Fail
    /\ UNCHANGED <<pending, eof, written, clean>>

(* Reader::String(): resize() may throw, and nothing catches that. *)
Throw(n) == n > MaxSize /\ pc' = "thrown" /\ UNCHANGED <<stream, len, count, got>>

ReadContent ==
    /\ pc = "content"
    /\ \/ /\ len <= MaxSize /\ Read(len)
          /\ got' = Append(got, SubSeq(stream, 1, len))
          /\ Goto("header", Len(kContentLength))
          /\ UNCHANGED len
       \/ len <= MaxSize /\ Short(len) /\ Fail
       \/ Throw(len)
    /\ UNCHANGED <<pending, eof, written, clean>>

ReaderNext == MatchHeader \/ ReadLength \/ ReadNewlines \/ ReadContent

ContentNext ==
    \/ \E c \in Contents : WriteContent(c)
    \/ \E s \in Stray : WriteStray(s)
    \/ Arrive
    \/ Close
    \/ ReaderNext

ContentSpec == ContentInit /\ [][ContentNext]_contentVars

(* Bytes that were written arrive, and the reading program keeps reading. *)
FairContentSpec ==
    ContentSpec /\ WF_contentVars(Arrive) /\ WF_contentVars(ReaderNext)
-----------------------------------------------------------------------------
(* The contents come out whole, unchanged and in the order in which they   *)
(* went in, even if they look like headers, and none is cut short by the   *)
(* end of the stream: what WriteContent() frames ReadContent() unframes.   *)
(* Other output can only harm the contents written after it.               *)
ContentsIntact ==
    /\ clean = -1 => IsPrefix(got, written)
    /\ \A k \in 1..Len(got) : k <= clean => got[k] = written[k]

(* Nothing but the end of the stream or other output makes ReadContent()   *)
(* return a failure or throw.                                              *)
FailsAtEnd == pc \in {"failed", "thrown"} => eof \/ clean # -1

(* Unless the program ends or sends something else, ReadContent() returns  *)
(* every message that was written.                                         *)
AllRead ==
    \A n \in 1..MaxMessages :
        Len(written) >= n ~> Len(got) >= n \/ eof \/ clean # -1

(* Reader::Read() is documented to need a count that "Must be greater than *)
(* 0" (reader.h:48); ReadContent() asks for as many bytes as announced.    *)
ReadCountPositive == count > 0
=============================================================================
