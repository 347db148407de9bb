----------------------------- MODULE LineEditor -----------------------------
(***************************************************************************)
(* exercises/v3/kamned.c: a program that appends lines to a file, deletes  *)
(* line n or inserts lines before it.  To delete or insert it writes the   *)
(* new text to temp.txt, unlinks the file and renames temp.txt.  Several   *)
(* runs share a directory, may overlap and may be killed at any step.      *)
(*                                                                         *)
(* A text is a sequence of lines of one length, shorter than the buffer of *)
(* fgets, and all of it is shorter than the buffers of the streams: a file *)
(* is read by the first fgets and written when its stream is closed.  The  *)
(* file that is edited has a name, and a number that outlives the name as  *)
(* long as somebody has the file open.                                     *)
(***************************************************************************)
EXTENDS Naturals, Integers, Sequences, SequencesExt

CONSTANTS
    Runs,     \* runs of the program
    Files,    \* the names that may be given to it
    Lines,    \* line numbers that may be given to it
    FirstText, \* what the files hold at first
    Inodes     \* the numbers of files that the file system has room for

Temp == "temp.txt"
Names == Files \cup {Temp}
None == 0

VARIABLES
    directory, \* the file each name is for
    content,   \* the text of each file
    call,      \* the next step of each run
    mode,      \* append, delete or insert
    name,      \* the file a run was given
    n,         \* the line, counted from 0
    source,    \* the file it has open to read or append to
    target,    \* the file it has open as temp.txt
    text,      \* what it has read of the source, then what it is to write
    wanted,    \* history: what each file is to hold
    spoilt     \* history: runs were in each other's way

runVars == <<call, mode, name, n, source, target, text>>
vars == <<directory, content, runVars, wanted, spoilt>>

Init ==
    /\ LET f == CHOOSE g \in [Files -> Inodes] : \A x, y \in Files : g[x] = g[y] => x = y
       IN  directory = [x \in Names |-> IF x \in Files THEN f[x] ELSE None]
    /\ content = [i \in Inodes |-> FirstText]
    /\ call = [r \in Runs |-> "open"] /\ mode \in [Runs -> {"append", "delete", "insert"}]
    /\ name \in [Runs -> Files] /\ n \in [Runs -> {l - 1 : l \in Lines}]
    /\ \A r \in Runs : mode[r] = "append" => n[r] = -1  \* it is not used
    /\ source = [r \in Runs |-> None] /\ target = [r \in Runs |-> None]
    /\ text = [r \in Runs |-> <<>>]
    /\ wanted = [x \in Files |-> FirstText] /\ spoilt = FALSE

-----------------------------------------------------------------------------
Goes(r, from, to) == call[r] = from /\ call' = [call EXCEPT ![r] = to]

\* Descriptors and text of a run that ends are gone.
Quit(r) ==
    /\ source' = [source EXCEPT ![r] = None] /\ target' = [target EXCEPT ![r] = None]
    /\ text' = [text EXCEPT ![r] = <<>>]

\* The inodes nobody uses, and the one that is taken.
FreeInodes ==
    {i \in Inodes : /\ \A x \in Names : directory[x] # i
                    /\ \A r \in Runs : source[r] # i /\ target[r] # i}
Free == CHOOSE i \in FreeInodes : TRUE

Active(r) == call[r] \notin {"open", "ended"}
Edits(r) == mode[r] # "append"

\* Two runs are in each other's way if they are given one file and not both append
\* to it, or if both edit: then they share temp.txt.
InTheWay(r) ==
    \E q \in Runs \ {r} :
        /\ Active(q) /\ (Edits(q) \/ Edits(r))
        /\ name[q] = name[r] \/ (Edits(q) /\ Edits(r))

\* fopen: "a" makes a file that is not there, if there is room; "r+" fails.
Open(r) ==
    /\ call[r] = "open"
    /\ \/ /\ directory[name[r]] # None
          /\ call' = [call EXCEPT ![r] = IF Edits(r) THEN "openTemp" ELSE "append"]
          /\ source' = [source EXCEPT ![r] = directory[name[r]]]
          /\ UNCHANGED <<directory, content>>
       \/ /\ directory[name[r]] = None /\ ~Edits(r) /\ FreeInodes # {}
          /\ call' = [call EXCEPT ![r] = "append"] /\ source' = [source EXCEPT ![r] = Free]
          /\ directory' = [directory EXCEPT ![name[r]] = Free]
          /\ content' = [content EXCEPT ![Free] = <<>>]
       \/ /\ directory[name[r]] = None /\ (Edits(r) \/ FreeInodes = {})
          /\ call' = [call EXCEPT ![r] = "ended"] /\ UNCHANGED <<directory, content, source>>
    /\ spoilt' = (spoilt \/ InTheWay(r) \/ (~Edits(r) /\ directory[name[r]] = None))
    /\ UNCHANGED <<mode, name, n, target, text, wanted>>

\* A line from the input goes to the end of the file, wherever that is by then.
AppendLine(r) ==
    /\ Goes(r, "append", "ended") /\ Quit(r)
    /\ content' = [content EXCEPT ![source[r]] = Append(@, r)]
    /\ wanted' = [wanted EXCEPT ![name[r]] = Append(@, r)]
    /\ UNCHANGED <<directory, mode, name, n, spoilt>>

\* fopen "w" makes temp.txt or empties the one there is.  That may be what a run
\* that was killed has left of a file.  Without room it fails, as any call may (Kill).
OpenTemp(r) ==
    /\ Goes(r, "openTemp", "read") /\ (directory[Temp] # None \/ FreeInodes # {})
    /\ LET i == IF directory[Temp] = None THEN Free ELSE directory[Temp]
       IN  /\ directory' = [directory EXCEPT ![Temp] = i]
           /\ content' = [content EXCEPT ![i] = <<>>]
           /\ target' = [target EXCEPT ![r] = i]
    /\ spoilt' = (spoilt \/ \E x \in Files : directory[x] = None)
    /\ UNCHANGED <<mode, name, n, source, text, wanted>>

Read(r) ==
    /\ Goes(r, "read", "closeTemp")
    /\ text' = [text EXCEPT ![r] = content[source[r]]]
    /\ UNCHANGED <<directory, content, mode, name, n, source, target, wanted, spoilt>>

\* copy_n_lines: n lines, none for a negative n, all if there are fewer.
Copied(t, k) == SubSeq(t, 1, IF k < 0 THEN 0 ELSE IF k < Len(t) THEN k ELSE Len(t))

\* copy_all_lines: the lines that follow those that were read.
Rest(t, k) == SubSeq(t, k + 1, Len(t))

Edited_Slip(r, t) ==  \* the line that is skipped counts as one of the n
    LET head == Copied(t, n[r])
    IN  IF mode[r] = "delete" THEN head \o Rest(t, Len(head))
        ELSE head \o <<r>> \o Rest(t, Len(head))

\* The text without the line after the first n, or with the input between them.
Edited(r, t) ==
    LET head == Copied(t, n[r])
    IN  IF mode[r] = "delete" THEN head \o Rest(t, Len(head) + 1)
        ELSE head \o <<r>> \o Rest(t, Len(head))

\* fclose(temp) writes from the beginning of the file and leaves what it holds beyond.
CloseTemp(r) ==
    /\ Goes(r, "closeTemp", "unlink")
    /\ LET t == Edited(r, text[r]) IN
         /\ content' = [content EXCEPT ![target[r]] = t \o Rest(@, Len(t))]
         /\ text' = [text EXCEPT ![r] = t]
    /\ UNCHANGED <<directory, mode, name, n, source, target, wanted, spoilt>>

\* What the file is to hold, from the manual's point of view: line 0 counts as line 1.
After(r, t) ==
    LET l == IF n[r] < 0 THEN 1 ELSE n[r] + 1
    IN  IF mode[r] = "delete" THEN (IF l > Len(t) THEN t ELSE RemoveAt(t, l))
        ELSE InsertAt(t, IF l > Len(t) THEN Len(t) + 1 ELSE l, r)

Unlink_Slip(r) ==  \* before the temporary file is closed
    /\ Goes(r, "closeTemp", "rename")
    /\ directory' = [directory EXCEPT ![name[r]] = None]
    /\ wanted' = [wanted EXCEPT ![name[r]] = After(r, @)]
    /\ UNCHANGED <<content, mode, name, n, source, target, text, spoilt>>

Unlink(r) ==
    /\ Goes(r, "unlink", "rename")
    /\ directory' = [directory EXCEPT ![name[r]] = None]
    /\ wanted' = [wanted EXCEPT ![name[r]] = After(r, @)]
    /\ UNCHANGED <<content, mode, name, n, source, target, text, spoilt>>

\* A rename that fails is not noticed: another run may have taken temp.txt away.
Rename(r) ==
    /\ Goes(r, "rename", "ended") /\ Quit(r)
    /\ directory' = IF directory[Temp] = None THEN directory
                    ELSE [directory EXCEPT ![name[r]] = directory[Temp], ![Temp] = None]
    /\ UNCHANGED <<content, mode, name, n, wanted, spoilt>>

\* The run is killed, or fails for another reason: what it has not written is lost.
Kill(r) ==
    /\ Active(r) /\ call' = [call EXCEPT ![r] = "ended"] /\ Quit(r)
    /\ UNCHANGED <<directory, content, mode, name, n, wanted, spoilt>>

Edit(r) ==
    \/ Open(r) \/ AppendLine(r)
    \/ OpenTemp(r) \/ Read(r) \/ CloseTemp(r) \/ Unlink(r) \/ Rename(r)

Next == \E r \in Runs : Edit(r) \/ Kill(r)

Spec == Init /\ [][Next]_vars
-----------------------------------------------------------------------------
TypeOK ==
    /\ directory \in [Names -> Inodes \cup {None}]
    /\ content \in [Inodes -> Seq(Runs \cup Range(FirstText))]
    /\ call \in [Runs -> {"open", "append", "openTemp", "read", "closeTemp", "unlink", "rename",
                          "ended"}]
    /\ source \in [Runs -> Inodes \cup {None}] /\ target \in [Runs -> Inodes \cup {None}]
    /\ spoilt \in BOOLEAN

\* No run, whole or killed anywhere, costs a line: every file is there with the text
\* it should have, or is gone and temp.txt has that text, unless runs overlapped on
\* one file or on temp.txt, or one came to a directory in which a file was missing
\* (kamned.c:73, 86-91, 97, 119-122).
NoLineLost ==
    ~spoilt => \A x \in Files :
        LET i == IF directory[x] # None THEN directory[x] ELSE directory[Temp]
        IN  i # None /\ content[i] = wanted[x]
=============================================================================
