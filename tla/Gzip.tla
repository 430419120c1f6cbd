--------------------------------- MODULE Gzip ---------------------------------
(***************************************************************************)
(* Compressed files (pyrpm/io.py): PyGZIP writes a member of a gzip file    *)
(* and reads files of one or more members again, in calls of any sizes.    *)
(*                                                                         *)
(* A file is a sequence of units [kind, data]: a header, pieces of deflated *)
(* data (a piece is what decompresses together, "last" is the one that     *)
(* ends a member), and the two words of the trailer, the checksum standing *)
(* for the data it is computed from.  8 bytes of trailer are two units.    *)
(***************************************************************************)
EXTENDS Integers, Sequences, SequencesExt, FiniteSetsExt

CONSTANTS
    Char, NewLine,  \* the characters of data
    MaxMembers,     \* bound: members of the file
    MaxData,        \* bound: length of the data of all members
    MaxChunk,       \* bound: units that one read of the file asks for
    MaxCalls        \* bound: calls of the reader

VARIABLES
    mode,      \* "write", "closed", "read" or "failed" (IOError)
    stream,    \* the file
    pending,   \* data that the compressor has not put out
    crc,       \* the data of the member that is written
    written,   \* the data of every member
    fault,     \* what happened to the file afterwards
    at,        \* fileobj.tell() of the reader
    newMember, \* _new_member
    done,      \* the decompressor has come to the end of the member
    unused,    \* decompobj.unused_data
    data,      \* units of the next member that _read() has left
    buffer,    \* decompressed blocks
    pos,       \* what was taken of the first block
    crcval,    \* the data of the member that was decompressed
    offset,    \* what the program has got
    call,      \* the call that is going on: [op, size, eof]
    answer,    \* what the last call returned: [op, size, from, data]
    calls

writerVars == <<stream, pending, crc, written, fault>>
readerVars == <<at, newMember, done, unused, data, buffer, pos, crcval, offset, call, answer, calls>>
gzipVars == <<mode, writerVars, readerVars>>

NoCall == [op |-> "none", size |-> 0, eof |-> FALSE]
NoAnswer == [op |-> "none", size |-> 0, from |-> 0, data |-> <<>>]
Trailer == 2

Unit(k, d) == [kind |-> k, data |-> d]

Init ==
    /\ mode = "closed"
    /\ stream = <<>> /\ pending = <<>> /\ crc = <<>> /\ written = <<>> /\ fault = "none"
    /\ at = 0 /\ newMember = TRUE /\ done = FALSE /\ unused = <<>> /\ data = <<>>
    /\ buffer = <<>> /\ pos = 0 /\ crcval = <<>> /\ offset = 0
    /\ call = NoCall /\ answer = NoAnswer /\ calls = 0

-----------------------------------------------------------------------------
(* Writing.                                                                *)

Members == Len(SelectSeq(stream, LAMBDA u : u.kind = "head"))

InitWrite == pending' = <<>> /\ crc' = <<>>

\* Opened with 'w', or with 'a' if there is a member.
OpenWrite ==
    /\ mode = "closed" /\ fault = "none" /\ Members < MaxMembers
    /\ mode' = "write"
    /\ stream' = Append(stream, Unit("head", <<>>))
    /\ InitWrite
    /\ UNCHANGED <<written, fault, readerVars>>

\* The compressor puts out n characters of what it has.
Emit(n, all) ==
    /\ stream' = IF n = 0 THEN stream ELSE Append(stream, Unit("piece", SubSeq(all, 1, n)))
    /\ pending' = SubSeq(all, n + 1, Len(all))

Write(s) ==
    /\ mode = "write" /\ Len(written) + Len(s) =< MaxData
    /\ crc' = crc \o s
    /\ written' = written \o s
    /\ \E n \in 0..Len(pending \o s) : Emit(n, pending \o s)
    /\ UNCHANGED <<mode, fault, readerVars>>

Close ==
    /\ mode = "write"
    /\ mode' = "closed"
    /\ stream' = stream \o <<Unit("last", pending), Unit("crc", crc), Unit("size", <<Len(crc)>>)>>
    /\ pending' = <<>>
    /\ UNCHANGED <<crc, written, fault, readerVars>>

\* The file is cut off, or a character of its data changes.
Damage ==
    /\ mode = "closed" /\ stream # <<>> /\ fault = "none"
    /\ \/ /\ \E n \in 1..Len(stream) - 1 : stream' = SubSeq(stream, 1, n)
          /\ fault' = "cut"
       \/ /\ \E i \in {k \in DOMAIN stream : stream[k].kind \in {"piece", "last"}} :
                \E j \in DOMAIN stream[i].data, c \in Char :
                    /\ c # stream[i].data[j]
                    /\ stream' = [stream EXCEPT ![i].data[j] = c]
          /\ fault' = "changed"
    /\ UNCHANGED <<mode, pending, crc, written, readerVars>>

-----------------------------------------------------------------------------
(* Reading.                                                                *)

OpenRead ==
    /\ mode = "closed" /\ stream # <<>>
    /\ mode' = "read"
    /\ UNCHANGED <<writerVars, readerVars>>

Rewind ==
    /\ at' = 0 /\ newMember' = TRUE
    /\ done' = FALSE /\ unused' = <<>> /\ data' = <<>>
    /\ buffer' = <<>> /\ pos' = 0
    /\ crcval' = <<>> /\ offset' = 0

\* A call begins: the header of the first member is read.  To seek backwards is
\* to rewind and to read again.
Begin(op, size) ==
    /\ mode = "read" /\ call = NoCall /\ calls < MaxCalls
    /\ calls' = calls + 1
    /\ call' = [op |-> op, size |-> size, eof |-> FALSE]
    /\ IF newMember
       THEN /\ at' = at + 1 /\ newMember' = FALSE
            /\ UNCHANGED <<done, unused, data, buffer, pos, crcval, offset>>
       ELSE UNCHANGED <<at, newMember, done, unused, data, buffer, pos, crcval, offset>>
    /\ UNCHANGED <<mode, writerVars, answer>>

SeekBack ==
    /\ mode = "read" /\ call = NoCall /\ calls < MaxCalls /\ offset > 0
    /\ Rewind
    /\ calls' = calls + 1 /\ answer' = NoAnswer
    /\ UNCHANGED <<mode, call, writerVars>>

Buffered == SubSeq(FlattenSeq(buffer), pos + 1, Len(FlattenSeq(buffer)))

\* How many blocks a read of that size uses up.
Popped(size) == Max({0} \union {i \in DOMAIN buffer : Len(FlattenSeq(SubSeq(buffer, 1, i))) < size + pos})

Mut_Position(size, n) == size - Len(FlattenSeq(SubSeq(buffer, 1, n))) + (IF n = 0 THEN 0 ELSE pos)

\* Where the data goes on in the first of the other blocks.
Position(size, n) == size + pos - Len(FlattenSeq(SubSeq(buffer, 1, n)))

Return(asked, size) ==
    LET n == Popped(size)
    IN  /\ answer' = [op |-> call.op, size |-> asked, from |-> offset,
                      data |-> SubSeq(Buffered, 1, size)]
        /\ buffer' = SubSeq(buffer, n + 1, Len(buffer))
        /\ pos' = Position(size, n)
        /\ offset' = offset + size
        /\ call' = NoCall

\* The decompressor takes units: what it has no use for comes after the member.
Decompressed(units) ==
    LET ends == {i \in DOMAIN units : units[i].kind = "last"}
    IN  IF done THEN 0 ELSE IF ends = {} THEN Len(units) ELSE Min(ends)

TrailerFits(trailer, got) == trailer[1].data = got /\ trailer[2].data = <<Len(got)>>

\* A PaddedFile: one unit is read, of those that are given or else of the file.
ReadPadded(units, from) ==
    [unused |-> SubSeq(units, 2, Len(units)),
     at |-> IF units # <<>> THEN from ELSE Min({from + 1, Len(stream)})]

\* The trailer of a member, then the header of another one or nothing.  What
\* else has been read of that one is left in data.
ReadEof(rest, end, got, size) ==
    LET more == Max({0, Trailer - Len(rest)})
        all == rest \o SubSeq(stream, end + 1, Min({end + more, Len(stream)}))
        last == Min({end + more, Len(stream)})
        header == ReadPadded(SubSeq(all, Trailer + 1, Len(all)), last)
    IN  IF Len(all) < Trailer \/ ~TrailerFits(all, got)
        THEN mode' = "failed" /\ UNCHANGED <<at, done, unused, data, crcval, call>>
        ELSE /\ data' = header.unused /\ at' = header.at
             /\ done' = FALSE /\ unused' = <<>> /\ crcval' = <<>>
             /\ call' = [call EXCEPT !.size = size, !.eof = data' = <<>>]
             /\ UNCHANGED mode

\* One turn of the loop in _read(), with the units it has just got from the file
\* or has left of the member before.  It is at the end if nothing is left: at the
\* end of the file, and after a member of which nothing else was read.
Fill(size) ==
    \E k \in 1..MaxChunk :
        LET units == IF data # <<>> THEN data ELSE SubSeq(stream, at + 1, Min({at + k, Len(stream)}))
            end == IF data # <<>> THEN at ELSE Min({at + k, Len(stream)})
            n == Decompressed(units)
            block == FlattenSeq([i \in 1..n |-> units[i].data])
            rest == unused \o SubSeq(units, n + 1, Len(units))
        IN  /\ data # <<>> => k = 1
            /\ buffer' = Append(buffer, block)
            /\ IF rest = <<>>
               THEN /\ crcval' = crcval \o block
                    /\ done' = (done \/ (n > 0 /\ units[n].kind = "last"))
                    /\ at' = end /\ data' = <<>>
                    /\ call' = [call EXCEPT !.size = size, !.eof = units = <<>>]
                    /\ UNCHANGED <<mode, unused>>
               ELSE ReadEof(rest, end, crcval \o block, size)


NewLines == {i \in DOMAIN Buffered : Buffered[i] = NewLine}

Enough == call.eof \/ (call.size >= 0 /\ Len(Buffered) >= call.size)

ReadMore ==
    /\ mode = "read" /\ call.op = "read"
    /\ data # <<>> \/ ~Enough
    /\ Fill(call.size)
    /\ UNCHANGED <<writerVars, newMember, pos, offset, answer, calls>>

ReadDone ==
    /\ mode = "read" /\ call.op = "read"
    /\ data = <<>> /\ Enough
    /\ Return(call.size, IF call.size < 0 THEN Len(Buffered) ELSE Min({call.size, Len(Buffered)}))
    /\ UNCHANGED <<mode, writerVars, at, newMember, done, unused, data, crcval, calls>>

\* readline() goes through the blocks it has before it asks for another one.
LineMore ==
    /\ mode = "read" /\ call.op = "line"
    /\ data # <<>> \/ (~call.eof /\ NewLines = {})
    /\ Fill(IF data # <<>> THEN call.size ELSE Len(Buffered))
    /\ UNCHANGED <<writerVars, newMember, pos, offset, answer, calls>>

LineDone ==
    /\ mode = "read" /\ call.op = "line"
    /\ data = <<>> /\ (call.eof \/ NewLines # {})
    /\ Return(-1, IF call.eof THEN call.size ELSE Min(NewLines))
    /\ UNCHANGED <<mode, writerVars, at, newMember, done, unused, data, crcval, calls>>

Next ==
    \/ OpenWrite
    \/ \E n \in 1..2 : \E s \in [1..n -> Char] : Write(s)
    \/ Close
    \/ Damage
    \/ OpenRead
    \/ \E size \in {-1, 1, 2} : Begin("read", size)
    \/ Begin("line", -1)
    \/ ReadMore
    \/ ReadDone
    \/ LineMore
    \/ LineDone
    \/ SeekBack

Spec == Init /\ [][Next]_gzipVars

-----------------------------------------------------------------------------
(* What the reader promises.                                               *)

\* What is in the file, whether it was written like that or not.
InFile == FlattenSeq([i \in DOMAIN stream |->
              IF stream[i].kind \in {"piece", "last"} THEN stream[i].data ELSE <<>>])

Returned == call = NoCall /\ answer # NoAnswer /\ mode = "read"

\* Calls of whatever sizes, in blocks of whatever sizes, return the data in
\* order: nothing is left out or returned twice, within a member or from one to
\* the next, also after a seek back.  A line has no end of line but its last
\* character.
InOrder ==
    Returned =>
        /\ answer.from + Len(answer.data) =< Len(InFile)
        /\ answer.data = SubSeq(InFile, answer.from + 1, answer.from + Len(answer.data))
        /\ offset = answer.from + Len(answer.data)
        /\ answer.op = "line" => \A i \in 1..Len(answer.data) - 1 : answer.data[i] # NewLine

\* A file of one member is read to its end: what is returned is less than what
\* was asked for only where there is no more, and if the trailer is there all of
\* it is what was written, or the call fails.
OneMemberWhole ==
    (Returned /\ Members = 1 /\ answer.op = "read") =>
        /\ answer.size >= 0 /\ Len(answer.data) # answer.size => offset = Len(InFile)
        /\ answer.size = -1 /\ fault # "cut" =>
               answer.data = SubSeq(written, answer.from + 1, Len(written))

=============================================================================
