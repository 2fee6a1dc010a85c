------------------------------ MODULE FgetsScan ------------------------------
(***************************************************************************)
(* How single_threaded_pattern_matcher/greptile.c searches one file:       *)
(* helper_func takes its size with lstat, search_file reads it with fgets  *)
(* into a buffer of that size and looks for the pattern in every piece.    *)
(* Another process may rewrite or remove the file until it is read.  A     *)
(* file of this size reaches the stream with the first fgets.  No name is  *)
(* one of FileScan, so that LineScanProofs can extend both modules.        *)
(***************************************************************************)
EXTENDS TextLines

VARIABLES
  bytes,        \* the file
  gone,         \* it has been removed
  rewrites,     \* how often it has been rewritten
  st_size,      \* in helper_func; file_size of search_file
  pos,          \* bytes fgets has taken from the stream
  line_number,
  printed,      \* line numbers search_file has printed
  where         \* "stat", "check", "open", "read", "done"; "exit" after exit(2)

fgetsVars == <<bytes, gone, rewrites, st_size, pos, line_number, printed, where>>

FgetsInit ==
  /\ bytes \in Texts /\ gone = FALSE /\ rewrites = 0 /\ st_size = 0
  /\ pos = 0 /\ line_number = 1 /\ printed = <<>> /\ where = "stat"

\* Another process, while the file is not open or its first byte not read.
RewriteFile ==
  /\ rewrites < MaxChanges /\ ~gone /\ where \in {"stat", "check", "open", "read"}
  /\ pos = 0 /\ line_number = 1
  /\ bytes' \in Texts /\ rewrites' = rewrites + 1
  /\ UNCHANGED <<gone, st_size, pos, line_number, printed, where>>

Remove ==
  /\ where \in {"stat", "check", "open"} /\ gone' = TRUE
  /\ UNCHANGED <<bytes, rewrites, st_size, pos, line_number, printed, where>>

\* helper_func.  A file that is gone is reported by myfunc and skipped.
Stat ==
  /\ where = "stat"
  /\ IF gone THEN where' = "done" /\ UNCHANGED st_size
             ELSE where' = "check" /\ st_size' = Len(bytes)
  /\ UNCHANGED <<bytes, gone, rewrites, pos, line_number, printed>>

\* The second lstat, and fopen: exit(2) if the file is gone by then.
Check ==
  /\ where = "check" /\ where' = IF gone THEN "exit" ELSE "open"
  /\ UNCHANGED <<bytes, gone, rewrites, st_size, pos, line_number, printed>>

Open ==
  /\ where = "open" /\ where' = IF gone THEN "exit" ELSE "read"
  /\ UNCHANGED <<bytes, gone, rewrites, st_size, pos, line_number, printed>>

\* Seeded bug: fgets is given one byte less than the size of the file.
PieceShort(n) ==
  LET ends == {i \in pos + 1 .. pos + n - 2 : i <= Len(bytes) /\ bytes[i] = NL}
                \cup {Len(bytes), pos + n - 2}
  IN  SubSeq(bytes, pos + 1, Least(ends))

\* The bytes fgets takes: n - 1 at most, to the end of the line at most.
Piece(n) ==
  LET ends == {i \in pos + 1 .. pos + n - 1 : i <= Len(bytes) /\ bytes[i] = NL}
                \cup {Len(bytes), pos + n - 1}
  IN  SubSeq(bytes, pos + 1, Least(ends))

\* Seeded bug: the end of the file is not noticed.
EndOfFileNever == st_size = 0

\* fgets returns NULL at the end of the file, or if it is given no byte at all.
EndOfFile == st_size = 0 \/ (st_size > 1 /\ pos >= Len(bytes))

\* Given one byte, fgets returns an empty string and takes nothing.  strstr
\* stops at a NUL of the file.  The line number is bounded: beyond the file it
\* says nothing more.
ReadPiece ==
  /\ where = "read" /\ ~EndOfFile
  /\ printed' = IF Occurrences(CString(Piece(st_size))) = {} THEN printed
                ELSE Append(printed, line_number)
  /\ pos' = pos + Len(Piece(st_size))
  /\ line_number' = IF line_number <= MaxSize THEN line_number + 1 ELSE line_number
  /\ UNCHANGED <<bytes, gone, rewrites, st_size, where>>

Finish ==
  /\ where = "read" /\ EndOfFile /\ where' = "done"
  /\ UNCHANGED <<bytes, gone, rewrites, st_size, pos, line_number, printed>>

FgetsStep == Stat \/ Check \/ Open \/ ReadPiece \/ Finish

FgetsNext == FgetsStep \/ RewriteFile \/ Remove

\* The process is scheduled; nobody has to touch the file.
FgetsSpec == FgetsInit /\ [][FgetsNext]_fgetsVars /\ WF_fgetsVars(FgetsStep)
-----------------------------------------------------------------------------
(* Properties *)

Ended == where \in {"done", "exit"}

\* The search of a file nobody touched has come to its end.
Searched == where = "done" /\ ~gone /\ rewrites = 0

\* A file of two or more lines, the last one possibly unfinished.
SeveralLines == \E i \in 1 .. Len(bytes) - 1 : bytes[i] = NL

\* In a file of several lines that nobody touched, exactly the lines are
\* printed that have the pattern before any NUL, each once and with its
\* number: no piece fgets takes ends before its line does
\* (greptile.c:120-151).
Reported ==
  Searched /\ SeveralLines =>
    Increasing(printed) /\ Elements(printed) = MatchingLines(bytes)

\* "file is read line by line and each line it checks if the pattern exist"
\* (greptile.c:123-124): whatever the lines, those with the pattern are printed.
ReadLineByLine == Searched => Elements(printed) = MatchingLines(bytes)

\* A search that has begun comes to its end, whatever happened to the file
\* since its size was taken, unless that size was one byte: fgets then makes
\* no progress (greptile.c:125).
EndsUnlessOneByte == (where = "read" /\ st_size # 1) ~> Ended
=============================================================================
