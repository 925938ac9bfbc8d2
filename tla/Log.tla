-------------------------------- MODULE Log ---------------------------------
(***************************************************************************)
(* nxs-log: one process writes lines to a file that it keeps open, or      *)
(* opens for each line, while others rename the file away; nxs_log_reopen, *)
(* called by the process or by its handler of a signal, lets it open the   *)
(* new one.  A file is a number, and what the path names is a file.        *)
(*                                                                         *)
(* The steps of a call are those between which a handler can run.  What    *)
(* comes after a misuse is left out: nxs_log_reopen with no FILE open, or  *)
(* a handler that closes the FILE, or takes the buffer, of the call that   *)
(* it interrupts.                                                          *)
(***************************************************************************)
EXTENDS Integers, Sequences, FiniteSets

CONSTANTS
  Paths,      (* names of files                                            *)
  MaxFiles,   (* bound: files that are made                                *)
  MaxLines    (* bound: lines that are written                             *)

Console == 0

VARIABLES
  path,       (* log->path; "" is NULL                                     *)
  mode,       (* NXS_LOG_MODE_KEEP_OPEN or _REOPEN                         *)
  level,      (* the levels that are written                               *)
  fp,         (* the file that is open; 0: none                            *)
  tmp,        (* tmp_msg_buf                                               *)
  pc,         (* where the call under way is: "none", "open", "format",    *)
              (* "print" or "flush"                                        *)
  line,       (* what it was called with                                   *)
  dir,        (* the file that a path names; 0: none                       *)
  content,    (* the lines of each file, and of the console                *)
  lines,      (* history: how many calls                                   *)
  failed,     (* history: the lines that could not be written              *)
  inside,     (* history: lines that a handler wrote in the middle of one  *)
  old,        (* history: files that were not named when the log was last  *)
              (* closed, or that it gave up                                *)
  astray      (* history: it was misused                                   *)

set == <<path, mode, level>>
out == <<dir, content>>
vars == <<set, fp, tmp, pc, line, out, lines, failed, inside, old, astray>>

Init ==
  /\ path \in Paths \cup {""} /\ mode \in {"KEEP_OPEN", "REOPEN"} /\ level = {"INFO"}
  /\ fp = 0 /\ tmp = 0 /\ pc = "none" /\ line = 0
  /\ dir = [p \in Paths |-> 0] /\ content = [i \in {Console} |-> << >>]
  /\ lines = 0 /\ failed = {} /\ inside = {} /\ old = {} /\ astray = FALSE

Exists == DOMAIN content \ {Console}
-----------------------------------------------------------------------------
(***************************************************************************)
(* nxs_log_write, nxs_log_write_raw, nxs_log_write_console                 *)
(***************************************************************************)
To(next) == pc' = next /\ UNCHANGED <<set, lines, inside, old, astray>>

Write(l) ==
  /\ pc = "none" /\ lines < MaxLines /\ lines' = lines + 1
  /\ l \in level \cup {"RAW"}
  /\ line' = lines' /\ pc' = IF path = "" THEN "format" ELSE "open"
  /\ UNCHANGED <<set, fp, tmp, out, failed, inside, old, astray>>

(* nxs_log_open *)
Open ==
  /\ pc = "open"
  /\ \/ /\ fp # 0 \/ dir[path] # 0
        /\ fp' = IF fp # 0 THEN fp ELSE dir[path]
        /\ To("format") /\ UNCHANGED <<tmp, line, out, failed>>
     \/ /\ fp = 0 /\ dir[path] = 0 /\ Cardinality(Exists) < MaxFiles
        /\ fp' = Cardinality(Exists) + 1
        /\ dir' = [dir EXCEPT ![path] = fp']
        /\ content' = [i \in DOMAIN content \cup {fp'} |-> IF i = fp' THEN << >> ELSE content[i]]
        /\ To("format") /\ UNCHANGED <<tmp, line, failed>>
     \/ /\ fp = 0 /\ failed' = failed \cup {line}
        /\ To("none") /\ UNCHANGED <<fp, tmp, line, out>>

Format ==
  /\ pc = "format" /\ tmp' = line /\ To("print")
  /\ UNCHANGED <<fp, line, out, failed>>

(* fprintf into the buffer of the FILE, or printf *)
FilePrint ==
  /\ pc = "print" /\ line' = tmp
  /\ IF path = ""
     THEN content' = [content EXCEPT ![Console] = Append(@, tmp)] /\ To("none")
     ELSE UNCHANGED content /\ To("flush")
  /\ UNCHANGED <<fp, tmp, dir, failed>>

(* The file is closed by nxs_log_close; it stays open only when it is kept *)
(* and could be written.                                                   *)
NotNamed == {i \in Exists : \A p \in Paths : p = path => dir[p] # i}

(* mutant: a FILE that could not be written is kept *)
FlushKept ==
  /\ pc = "flush"
  /\ \E flushed \in BOOLEAN, written \in BOOLEAN :
       /\ flushed => written
       /\ IF written THEN content' = [content EXCEPT ![fp] = Append(@, line)] /\ UNCHANGED failed
          ELSE failed' = failed \cup {line} /\ UNCHANGED content
       /\ fp' = fp
       /\ old' = IF mode = "REOPEN" \/ ~flushed THEN NotNamed ELSE old
  /\ pc' = "none" /\ UNCHANGED <<set, lines, inside, astray, tmp, line, dir>>

(* What fflush could not write fclose tries again. *)
Flush ==
  /\ pc = "flush"
  /\ \E flushed \in BOOLEAN, written \in BOOLEAN :
       /\ flushed => written
       /\ IF written THEN content' = [content EXCEPT ![fp] = Append(@, line)] /\ UNCHANGED failed
          ELSE failed' = failed \cup {line} /\ UNCHANGED content
       /\ fp' = IF flushed /\ mode = "KEEP_OPEN" THEN fp ELSE 0
       /\ old' = IF fp' = 0 THEN NotNamed ELSE old
  /\ pc' = "none" /\ UNCHANGED <<set, lines, inside, astray, tmp, line, dir>>
-----------------------------------------------------------------------------
(***************************************************************************)
(* The handler of a signal, and what the process does between two lines    *)
(***************************************************************************)

(* nxs_log_reopen *)
Reopen ==
  /\ astray' = (fp = 0 \/ (path # "" /\ pc \in {"format", "print", "flush"}))
  /\ fp' = 0 /\ old' = NotNamed
  /\ UNCHANGED <<set, tmp, pc, line, out, lines, failed, inside>>

(* A line that the handler writes in the middle of another, whose FILE is  *)
(* open: it takes the buffer, flushes with its own what was printed, and   *)
(* closes the FILE as every line does.                                     *)
WriteInHandler ==
  /\ pc \in {"format", "print", "flush"} /\ lines < MaxLines
  /\ lines' = lines + 1 /\ inside' = inside \cup {lines'} /\ tmp' = lines'
  /\ LET i == IF path = "" THEN Console ELSE fp
     IN content' = [content EXCEPT ![i] = @ \o (IF pc = "flush" THEN <<line>> ELSE << >>) \o <<lines'>>]
  /\ astray' = (pc = "print" \/ (path # "" /\ mode = "REOPEN"))
  /\ pc' = IF pc = "flush" THEN "none" ELSE pc
  /\ UNCHANGED <<set, fp, line, dir, failed, old>>

SetLevel(ls) ==
  /\ pc = "none" /\ level' = ls
  /\ UNCHANGED <<path, mode, fp, tmp, pc, line, out, lines, failed, inside, old, astray>>

(* The FILE stays as it is: the new path counts when it is opened again. *)
SetPath(p) ==
  /\ pc = "none" /\ path' = p /\ old' = {}
  /\ UNCHANGED <<mode, level, fp, tmp, pc, line, out, lines, failed, inside, astray>>

(* nxs_log_free and nxs_log_init *)
Again(p, m) ==
  /\ pc = "none" /\ path' = p /\ mode' = m /\ level' = {"INFO"}
  /\ fp' = 0 /\ tmp' = 0 /\ old' = {}
  /\ UNCHANGED <<pc, line, out, lines, failed, inside, astray>>

(* Others rename the file away. *)
Rotate(p) ==
  /\ dir[p] # 0 /\ dir' = [dir EXCEPT ![p] = 0]
  /\ UNCHANGED <<set, fp, tmp, pc, line, content, lines, failed, inside, old, astray>>

Next ==
  /\ ~astray
  /\ \/ \E l \in {"INFO", "DEBUG", "RAW"} : Write(l)
     \/ Open \/ Format \/ FilePrint \/ Flush
     \/ Reopen \/ WriteInHandler
     \/ \E ls \in SUBSET {"INFO", "DEBUG"} : SetLevel(ls)
     \/ \E p \in Paths \cup {""} : SetPath(p) \/ \E m \in {"KEEP_OPEN", "REOPEN"} : Again(p, m)
     \/ \E p \in Paths : Rotate(p)

Spec == Init /\ [][Next]_vars
-----------------------------------------------------------------------------
InOrder(s) == \A i, j \in DOMAIN s : i < j /\ s[i] \notin inside => s[i] < s[j]
Places(n) == {p \in (DOMAIN content) \X (1 .. MaxLines) :
                p[2] \in DOMAIN content[p[1]] /\ content[p[1]][p[2]] = n}

(* A call whose level is written leaves its line in one place, after the   *)
(* lines of earlier calls, or nowhere if it could not be written; and once *)
(* the log was closed no line goes to a file that had been renamed away by *)
(* then.                                                                   *)
LinesRight ==
  /\ \A i \in DOMAIN content : InOrder(content[i])
  /\ ~astray => \A n \in 1 .. lines :
       IF n \in failed \/ (n = line /\ pc # "none") THEN Places(n) = {}
       ELSE Cardinality(Places(n)) = 1
  /\ ~astray /\ pc = "flush" => fp # 0 /\ fp \notin old
=============================================================================
