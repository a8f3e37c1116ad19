------------------------------- MODULE UrlFile -------------------------------
(***************************************************************************)
(* How the URLs of a file get into the service: the command line client    *)
(* reads the file byte by byte into an array of lines                      *)
(* (cli-client/util/client-util.c), serialises the array into an add       *)
(* command, and the service takes the command apart again                  *)
(* (service/url-processor/url-processor.c).                                *)
(*                                                                         *)
(* The buffers grow by doubling.  A write past the end of one leaves       *)
(* nothing to say about what follows; here the program stops then.         *)
(***************************************************************************)
EXTENDS Integers, Sequences, FiniteSets

LOCAL INSTANCE SequencesExt

CONSTANTS Byte,       \* the bytes of a URL
          Newline,    \* ends a line
          Nul,        \* ends a string
          MaxFile,    \* bound: the length of a file
          ArraySize,  \* how many URLs the array has room for at first: 32
          PointerSize,\* how many bytes a pointer takes
          LineSize    \* how many bytes a line has room for at first: 64

ASSUME UrlFileAssumption ==
    /\ Newline \notin Byte /\ Nul \notin Byte \cup {Newline}
    /\ MaxFile \in Nat
    /\ ArraySize \in Nat \ {0} /\ PointerSize \in Nat \ {0} /\ LineSize \in Nat \ {0}

VARIABLES
    phase,     \* read the file, parse the command, done; or nothing to send
    file,      \* what is left of the file
    line,      \* the line as far as it was read
    line_size, \* the bytes there is room for
    urls,      \* the array of URLs
    urls_size, \* the length the code takes the array for
    room,      \* the URLs there really is room for
    overrun,   \* a write went past the end of a buffer
    command,   \* what the service has yet to parse of the command
    parsed,    \* the URLs it found
    text       \* history: the whole file

vars == <<phase, file, line, line_size, urls, urls_size, room, overrun, command, parsed, text>>

-------------------------------------------------------------------------------

Files == UNION {[1 .. n -> Byte \cup {Newline}] : n \in 0 .. MaxFile}

\* Mutant: the line grows a byte too late.
LineRoomTooLate(eof) == IF Len(line) > line_size THEN 2 * line_size ELSE line_size

\* The room of the line after an iteration that appends a byte or, at the end of
\* the file, a terminator: it is asked for one byte more then.
LineRoom(eof) ==
    IF Len(line) + (IF eof THEN 2 ELSE 1) > line_size THEN 2 * line_size ELSE line_size

\* The strings one after another, each with a terminator.
Joined(strings, terminator) ==
    FlattenSeq([i \in DOMAIN strings |-> Append(strings[i], terminator)])

Serialized(strings) == Joined(strings, Nul)

\* strnlen.
FirstLength(bytes) ==
    CHOOSE n \in 0 .. Len(bytes) :
        /\ n < Len(bytes) => bytes[n + 1] = Nul
        /\ \A i \in 1 .. n : bytes[i] # Nul

-------------------------------------------------------------------------------

Init ==
    /\ phase = "read"
    /\ text \in Files /\ file = text
    /\ line = <<>> /\ line_size = LineSize
    /\ urls = <<>> /\ urls_size = ArraySize /\ room = ArraySize
    /\ overrun = FALSE
    /\ command = <<>> /\ parsed = <<>>

\* A line is complete.  An array that is too small is reallocated, but the number of
\* its elements is passed for its size in bytes.
AppendUrl(url) ==
    /\ urls' = Append(urls, url)
    /\ IF Len(urls) + 1 > urls_size
       THEN /\ urls_size' = 2 * urls_size
            /\ room' = urls_size' \div PointerSize
       ELSE UNCHANGED <<urls_size, room>>

\* An iteration that reads a byte.
ReadByte ==
    /\ phase = "read" /\ file # <<>>
    /\ file' = Tail(file)
    /\ line_size' = LineRoom(FALSE)
    /\ IF Head(file) = Newline
       THEN line' = <<>> /\ AppendUrl(line)
       ELSE line' = Append(line, Head(file)) /\ UNCHANGED <<urls, urls_size, room>>
    /\ overrun' = (Len(line) + 1 > line_size' \/ Len(urls') > room')
    /\ UNCHANGED <<phase, command, parsed, text>>

\* Mutant: only a newline completes a line.
ReadEndUnlessNewline ==
    /\ phase = "read" /\ file = <<>>
    /\ line_size' = LineRoom(TRUE)
    /\ phase' = IF urls = <<>> THEN "nothing" ELSE "parse"
    /\ command' = Serialized(urls)
    /\ UNCHANGED <<file, line, urls, urls_size, room, overrun, parsed, text>>

\* The iteration at the end of the file: it compares a byte that was not read, which
\* may be anything, with a newline, and takes one off the line if they are equal.
\* What was read is serialised into a command; without any URL there is none.
ReadEnd ==
    /\ phase = "read" /\ file = <<>>
    /\ line_size' = LineRoom(TRUE)
    /\ \E next \in Byte \cup {Newline} :
          IF line = <<>>
          THEN UNCHANGED <<urls, urls_size, room>>
          ELSE AppendUrl(IF next = Newline THEN Front(line) ELSE line)
    /\ line' = <<>>
    /\ overrun' = (line # <<>> /\ (Len(line) + 1 > line_size' \/ Len(urls') > room'))
    /\ phase' = IF urls' = <<>> THEN "nothing" ELSE "parse"
    /\ command' = Serialized(urls')
    /\ UNCHANGED <<file, parsed, text>>

\* Mutant: the terminator is taken for a part of the string.
CmdUrlsGetTerminated ==
    /\ phase = "parse" /\ command # <<>>
    /\ parsed' = Append(parsed, SubSeq(command, 1, FirstLength(command) + 1))
    /\ command' = SubSeq(command, FirstLength(command) + 2, Len(command))
    /\ phase' = IF command' = <<>> THEN "done" ELSE "parse"
    /\ UNCHANGED <<file, line, line_size, urls, urls_size, room, overrun, text>>

\* An iteration of gnunet_search_url_processor_cmd_urls_get: a string and its
\* terminator, until the size of the command is used up.
CmdUrlsGet ==
    /\ phase = "parse" /\ command # <<>>
    /\ parsed' = Append(parsed, SubSeq(command, 1, FirstLength(command)))
    /\ command' = SubSeq(command, FirstLength(command) + 2, Len(command))
    /\ phase' = IF command' = <<>> THEN "done" ELSE "parse"
    /\ UNCHANGED <<file, line, line_size, urls, urls_size, room, overrun, text>>

Next ==
    /\ ~overrun
    /\ ReadByte \/ ReadEnd \/ CmdUrlsGet

Spec == Init /\ [][Next]_vars

-------------------------------------------------------------------------------
(***************************************************************************)
(* Properties                                                              *)
(***************************************************************************)

String == Seq(Byte)

TypeOK ==
    /\ phase \in {"read", "parse", "done", "nothing"}
    /\ text \in Files /\ file \in Seq(Byte \cup {Newline})
    /\ line \in String /\ line_size \in Nat
    /\ urls \in Seq(String) /\ urls_size \in Nat /\ room \in Nat
    /\ overrun \in BOOLEAN
    /\ command \in Seq(Byte \cup {Nul}) /\ parsed \in Seq(String)

Newlines == {i \in DOMAIN text : text[i] = Newline}

\* Every line ends with a newline.
Terminated == text # <<>> => Last(text) = Newline

\* The array never has to grow.
Small == Cardinality(Newlines) < ArraySize

\* Reading stays within its buffers however long the lines are, also when the last
\* has no newline (gnunet_search_util_urls_read), as long as the array need not grow.
InBounds == Small => ~overrun

\* The service gets the lines of the file as its URLs, all of them, in order and
\* unchanged, through an array, a serialised command and back: the reader, the
\* writer and the parser agree on terminators and sizes.  With a newline after each
\* URL they are the file.  Of a last line without a newline all that can get lost,
\* however the byte that was not read turns out, is its last byte.
UrlsArrive ==
    phase \in {"done", "nothing"} /\ ~overrun =>
        /\ \A i \in DOMAIN parsed : parsed[i] \in String
        /\ IF Terminated
           THEN text = Joined(parsed, Newline)
           ELSE LET lines == Joined(Front(parsed), Newline)
                    rest  == SubSeq(text, Len(lines) + 1, Len(text))
                IN  parsed # <<>> /\ text = lines \o rest /\ Last(parsed) \in {rest, Front(rest)}
===============================================================================
