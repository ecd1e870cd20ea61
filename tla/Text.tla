-------------------------------- MODULE Text ---------------------------------
(* library/fd-fgets.c, the reader of lines over read() or over a mapped file, *)
(* as the loops "do { fd_fgets_r() } while (!fd_fgets_eof_r())" of its        *)
(* callers use it, and the shell escapes of library/escape.c.  A character is *)
(* its code.                                                                  *)
EXTENDS Integers, Sequences, FiniteSets, SequencesExt

CONSTANTS
    Inputs,     \* contents of the file that is read
    BuffSize,   \* the buffer, for the reads that fill it
    Lengths,    \* sizes of the buffer of the caller
    MAX_SIZE    \* the limit of the length of an escaped string

VARIABLES
    input,      \* the file
    blen,       \* the size of the buffer of the caller
    mem_type,   \* MEM_MALLOC or MEM_MMAP_FILE
    left,       \* what read() has not returned yet
    buffer,     \* what is between st->buffer and st->current
    start,      \* st->buffer - st->orig
    eof,        \* st->eof
    out,        \* what the caller was given so far
    line        \* the last piece the caller was given

fgets_vars == <<input, blen, mem_type, left, buffer, start, eof, out, line>>

Newline == 10

fd_setvbuf_r ==
    /\ input \in Inputs /\ blen \in Lengths /\ mem_type \in {"MEM_MALLOC", "MEM_MMAP_FILE"}
    /\ (mem_type = "MEM_MMAP_FILE") => input # <<>>
    /\ left = IF mem_type = "MEM_MALLOC" THEN input ELSE <<>>
    /\ buffer = IF mem_type = "MEM_MALLOC" THEN <<>> ELSE input
    /\ start = 0 /\ eof = FALSE /\ out = <<>> /\ line = <<>>

\* The room up to st->eptr.  One byte is kept for the terminating NUL of a buffer
\* that is read into.
Room(text, from) == IF mem_type = "MEM_MMAP_FILE" THEN 0 ELSE BuffSize - 1 - from - Len(text)

HasNewline(text) == Newline \in ToSet(text)

LineLen(text) ==
    LET nl == CHOOSE i \in DOMAIN text : text[i] = Newline /\ \A j \in 1 .. i - 1 : text[j] # Newline
        avail == IF HasNewline(text) THEN nl ELSE Len(text)
    IN  IF avail < blen - 1 THEN avail ELSE blen - 1

\* Steps 3 to 5 of fd_fgets_r(): text is buffered from the offset from on, end
\* says that read() met the end of the file.
Deliver(text, from, end) ==
    LET n == LineLen(text)
        early == ~HasNewline(text) /\ ~end /\ Len(text) < blen - 1 /\ Room(text, from) > 0
    IN  IF early
        THEN buffer' = text /\ start' = from /\ eof' = end /\ line' = <<>> /\ UNCHANGED out
        ELSE /\ line' = SubSeq(text, 1, n) /\ out' = out \o SubSeq(text, 1, n)
             /\ buffer' = SubSeq(text, n + 1, Len(text)) /\ start' = from + n
             /\ eof' = (end \/ (mem_type = "MEM_MMAP_FILE" /\ n = Len(text)))

\* Mutant: text that does not begin at the start of the buffer is not moved there
\* before more is read.
Compacted_Never == start

\* What is buffered is moved to the start of the buffer before a read.
Compacted == IF mem_type = "MEM_MMAP_FILE" THEN start ELSE 0

\* A call that finds a line, or cannot read.
fd_fgets_r_Buffered ==
    /\ ~eof /\ HasNewline(buffer)
    /\ Deliver(buffer, start, eof) /\ UNCHANGED <<input, blen, mem_type, left>>

\* A call that reads; read() returns as much as it pleases.
fd_fgets_r_Read ==
    /\ ~eof /\ ~HasNewline(buffer)
    /\ LET room == Room(buffer, Compacted) IN
       IF room = 0
       THEN Deliver(buffer, Compacted, eof) /\ UNCHANGED left
       ELSE \/ /\ left = <<>>
               /\ Deliver(buffer, Compacted, TRUE) /\ UNCHANGED left
            \/ \E n \in 1 .. Len(left) :
                  /\ n <= room
                  /\ Deliver(buffer \o SubSeq(left, 1, n), Compacted, FALSE)
                  /\ left' = SubSeq(left, n + 1, Len(left))
    /\ UNCHANGED <<input, blen, mem_type>>

fgets_Next == fd_fgets_r_Buffered \/ fd_fgets_r_Read

fgets_Spec == fd_setvbuf_r /\ [][fgets_Next]_fgets_vars

\* The last line of a text, without the newline before it.
LastLine(text) ==
    LET breaks == {i \in DOMAIN text : text[i] = Newline}
    IN  Len(text) - (IF breaks = {} THEN 0 ELSE CHOOSE i \in breaks : \A j \in breaks : j <= i)

\* However read() divides the file, and wherever the lines lie in the buffer, the
\* caller is given all of it in order and in pieces that fit, each a whole line
\* or as much of one as fits; when the reader reports the end nothing is left,
\* unless the file ends in a line without newline that does not fit.
ReaderComplete ==
    /\ out \o buffer \o left = input
    /\ Len(line) <= blen - 1
    /\ \A i \in 1 .. Len(line) - 1 : line[i] # Newline
    /\ line # <<>> =>
          line[Len(line)] = Newline \/ Len(line) \in {blen - 1, BuffSize - 1} \/ left = <<>>
    /\ eof /\ LastLine(input) < blen => out = input

-----------------------------------------------------------------------------
(* escape.c *)

Backslash == 92

\* The quotes, the grave accent, $ \ ! ( ) | and the blank.
sh_set == {34, 39, 96, 36, Backslash, 33, 40, 41, 124, 32}

escape_shell_width(c) == IF c < 32 THEN 4 ELSE IF c \in sh_set THEN 2 ELSE 1

\* The length of the escaped string, 0 when nothing needs to be escaped.
check_escape_shell(s) ==
    LET widths[i \in 0 .. Len(s)] == IF i = 0 THEN 0 ELSE widths[i - 1] + escape_shell_width(s[i])
    IN  IF \A i \in DOMAIN s : escape_shell_width(s[i]) = 1 THEN 0 ELSE widths[Len(s)]

Digit(d) == 48 + d

Escaped(c) ==
    CASE escape_shell_width(c) = 4 -> <<Backslash, Digit(c \div 64), Digit((c \div 8) % 8), Digit(c % 8)>>
      [] escape_shell_width(c) = 2 -> <<Backslash, c>>
      [] OTHER -> <<c>>

Refused == [ok |-> FALSE]

\* escape_shell() of a string and the length that check_escape_shell() gave.
escape_shell(s, expected_size) ==
    LET text == FlattenSeq([i \in DOMAIN s |-> Escaped(s[i])])
    IN  IF expected_size >= MAX_SIZE \/ Len(text) # expected_size THEN Refused
        ELSE [ok |-> TRUE, text |-> text]

isoctal(c) == c \in 48 .. 55

\* The loop of unescape_shell() from position i on.
unescape_shell(s) ==
    LET n == Len(s)
        octal(i) == /\ s[i] = Backslash /\ n - i + 1 >= 4
                    /\ isoctal(s[i + 1]) /\ isoctal(s[i + 2]) /\ isoctal(s[i + 3])
        char(i) == s[i] = Backslash /\ n - i + 1 >= 2 /\ ~isoctal(s[i + 1])
        from[i \in 1 .. n + 1] ==
            IF i = n + 1 THEN <<>>
            ELSE IF octal(i)
                 THEN <<((s[i + 1] - 48) * 64 + (s[i + 2] - 48) * 8 + s[i + 3] - 48) % 256>> \o from[i + 4]
            ELSE IF char(i) THEN <<s[i + 1]>> \o from[i + 2]
            ELSE <<s[i]>> \o from[i + 1]
    IN  from[1]

\* Every string that is short enough is escaped to the announced length, with no
\* character left that the shell or a log line would take for its own, and the
\* decoder used for the mount table gives the string back.
EscapeInverse(s) ==
    LET size == check_escape_shell(s)
        e == escape_shell(s, size)
    IN  /\ size = 0 => \A i \in DOMAIN s : s[i] >= 32 /\ s[i] \notin sh_set
        /\ size \in 1 .. MAX_SIZE - 1 =>
              e.ok /\ Len(e.text) = size /\ unescape_shell(e.text) = s
              /\ \A i \in DOMAIN e.text : e.text[i] >= 32
        /\ size >= MAX_SIZE => ~e.ok

=============================================================================
