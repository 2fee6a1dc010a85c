------------------------------- MODULE FileScan -------------------------------
(***************************************************************************)
(* How multi_threaded_patternMatch/greptile.c searches one file.  main     *)
(* takes its size with lstat and puts it in the job; the worker opens the  *)
(* file, allocates a buffer of the size fstat sees, reads into it, puts a  *)
(* terminator where the size of the job says and walks over the non-empty  *)
(* lines with strtok_r.  Meanwhile another process may rewrite the file.   *)
(*                                                                         *)
(* buf is the memory from the start of the buffer on; the cells from room  *)
(* on are not the buffer's.  What malloc returns is uninitialised.         *)
(***************************************************************************)
EXTENDS TextLines

CONSTANT Fresh  \* what memory may hold where malloc returns a buffer

Cells == 0 .. MaxSize

ASSUME FileScanAssumption == Fresh # {} /\ Fresh \subseteq [Cells -> Chars]

VARIABLES
  content,    \* the file
  changes,    \* how often it has been rewritten
  appended,   \* it has only ever been rewritten by appending to it
  file_size,  \* of the job
  seen,       \* what the file held when main took its size
  room,       \* bytes of the buffer
  buf,        \* memory from the start of the buffer on
  items_read, \* bytes of the file in the buffer
  next_line,  \* where strtok_r goes on
  line_num,
  jobs,       \* line numbers in the print queue
  pc          \* "lstat", "open", "read", "cut", "scan", "done"; "exit" after error()

file   == <<content, changes, appended>>
reader == <<file_size, seen, room, buf, items_read, next_line, line_num, jobs, pc>>
vars   == <<file, reader>>

Init ==
  /\ content \in Texts /\ changes = 0 /\ appended = TRUE
  /\ file_size = 0 /\ seen = <<>> /\ room = 0 /\ buf = [i \in Cells |-> NUL]
  /\ items_read = 0 /\ next_line = 0 /\ line_num = 1 /\ jobs = <<>> /\ pc = "lstat"

\* Another process.  Before the lstat any content is an initial one; after
\* the fread nothing reads the file any more.
Rewrite ==
  /\ changes < MaxChanges /\ pc \in {"open", "read"}
  /\ content' \in Texts /\ changes' = changes + 1
  /\ appended' = (appended /\ Len(content) <= Len(content')
                           /\ content = SubSeq(content', 1, Len(content)))
  /\ UNCHANGED reader

\* traverse_directory, in main: an empty file makes no job.
Lstat ==
  /\ pc = "lstat"
  /\ file_size' = Len(content) /\ seen' = content
  /\ pc' = IF Len(content) = 0 THEN "done" ELSE "open"
  /\ UNCHANGED <<room, buf, items_read, next_line, line_num, jobs, file>>

\* Seeded bug: no byte for the terminator.
BufferExact ==
  /\ pc = "open" /\ room' = Len(content)
  /\ buf' \in Fresh
  /\ pc' = "read"
  /\ UNCHANGED <<file_size, seen, items_read, next_line, line_num, jobs, file>>

\* fopen, fstat and malloc.
Buffer ==
  /\ pc = "open" /\ room' = Len(content) + 1
  /\ buf' \in Fresh
  /\ pc' = "read"
  /\ UNCHANGED <<file_size, seen, items_read, next_line, line_num, jobs, file>>

\* fopen fails: the worker ends the process.
CannotOpen ==
  /\ pc = "open" /\ pc' = "exit"
  /\ UNCHANGED <<file_size, seen, room, buf, items_read, next_line, line_num, jobs, file>>

\* fread of room - 1 bytes; at the end of the file or after an error there
\* are fewer, which is only reported.
Read ==
  /\ pc = "read"
  /\ \E n \in 0 .. Len(content) :
       /\ n <= room - 1 /\ items_read' = n
       /\ buf' = [i \in Cells |-> IF i < n THEN content[i + 1] ELSE buf[i]]
  /\ pc' = "cut"
  /\ UNCHANGED <<file_size, seen, room, next_line, line_num, jobs, file>>

\* buf[file_size] = '\0'
Cut ==
  /\ pc = "cut" /\ buf' = [buf EXCEPT ![file_size] = NUL] /\ pc' = "scan"
  /\ UNCHANGED <<file_size, seen, room, items_read, next_line, line_num, jobs, file>>

\* Seeded bug: empty lines are not skipped.
TokenStartHere == next_line

\* The next token: from the first byte that is no newline to the byte before
\* the next newline or terminator.
TokenStart == Least({i \in Cells : i >= next_line /\ buf[i] # NL})
TokenEnd   == Least({i \in Cells : i >= TokenStart /\ buf[i] \in {NL, NUL}})
Token      == [i \in 1 .. TokenEnd - TokenStart |-> buf[TokenStart + i - 1]]

\* Seeded bug: strtok_r is not told where to go on.
LineAgain ==
  /\ pc = "scan" /\ buf[TokenStart] # NUL
  /\ jobs' = IF Occurrences(Token) = {} THEN jobs ELSE <<line_num>>
  /\ UNCHANGED <<next_line, line_num, file_size, seen, room, buf, items_read, pc, file>>

\* One turn of the loop.  strtok_r puts a terminator after the token.
Line ==
  /\ pc = "scan" /\ buf[TokenStart] # NUL
  /\ jobs' = IF Occurrences(Token) = {} THEN jobs ELSE Append(jobs, line_num)
  /\ next_line' = IF buf[TokenEnd] = NL THEN TokenEnd + 1 ELSE TokenEnd
  /\ buf' = [buf EXCEPT ![TokenEnd] = NUL]
  /\ line_num' = line_num + 1
  /\ UNCHANGED <<file_size, seen, room, items_read, pc, file>>

LastLine ==
  /\ pc = "scan" /\ buf[TokenStart] = NUL /\ pc' = "done"
  /\ UNCHANGED <<file_size, seen, room, buf, items_read, next_line, line_num, jobs, file>>

Step == Lstat \/ Buffer \/ CannotOpen \/ Read \/ Cut \/ Line \/ LastLine

Next == Step \/ Rewrite

\* The worker is scheduled; nobody has to touch the file.
Spec == Init /\ [][Next]_vars /\ WF_vars(Step)
-----------------------------------------------------------------------------
(* Properties *)

\* The terminator lands inside the buffer as long as the file was only
\* appended to since main took its size (greptile.c:174-178, 222).
StaysInBuffer ==
  appended /\ file_size > 0 /\ pc \notin {"open", "exit"} => file_size < room

ReadInFull == pc = "done" /\ file_size > 0 /\ appended /\ items_read = room - 1

\* If the file was only appended to and read in full, the print queue holds
\* exactly the lines with the pattern that the file had, up to its first NUL,
\* when main took its size: in order, each once, and numbered among the lines
\* that are not empty (greptile.c:222-241).
ReportsWhatMainSaw ==
  ReadInFull => Increasing(jobs) /\ Elements(jobs) = MatchingTokens(CString(seen))

\* "line number where the match is found" (greptile.h:57): the number a print
\* job carries is that of the line in the file.
NumberedAsInFile ==
  ReadInFull => Elements(jobs) = MatchingLines(CString(seen))

\* The walk over the lines ends, whatever the buffer holds
\* (greptile.c:228-241).
ScanEnds == (pc = "lstat") ~> (pc \in {"done", "exit"})
=============================================================================
