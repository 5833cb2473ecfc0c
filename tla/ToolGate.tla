------------------------------ MODULE ToolGate ------------------------------
(***************************************************************************)
(* What a tool call of a sub-agent may do before it does it: the hooks of  *)
(* PreToolUse in their order, permission then scope                        *)
(* (packages/harness/src/hooks/pre/tooluse.ts), and the handlers of the    *)
(* file tools (packages/harness/src/tools/heavy/index.ts), which resolve   *)
(* the same raw paths once more and stage an operation.                    *)
(*                                                                         *)
(* A path is the sequence of its names. A backslash is part of a segment   *)
(* for node's path functions, and a separator for the hook, so each name   *)
(* says whether a backslash joins the next one to it. The model writes a   *)
(* path as it likes: from the root, from the home directory (~), or from   *)
(* the first authorised directory, with ".." anywhere. Symbolic links are  *)
(* not looked at by the code.                                              *)
(***************************************************************************)
EXTENDS Integers, Sequences, SequencesExt, FiniteSetsExt

CONSTANTS
  Home,     \* the home directory
  Dirs,     \* scope.dirs of the tasks, made absolute; the board writes them with slashes
  Net,      \* scope.net
  NoBody    \* the body of an operation that writes none

\* A call: banned when its input matches a built-in rule for its tool, online
\* when its command needs the network, paths as inputPaths() finds them.
Call(tool, paths, body) ==
  [tool |-> tool, paths |-> paths, body |-> body, banned |-> FALSE, online |-> FALSE]
Name == [name : STRING, joined : BOOLEAN]

RawPath(from, names) == [from |-> from, names |-> names]
RawPaths == [from : {"root", "home", "base"}, names : Seq(Name)]

\* The tools that stage, those that read files, those that fetch something new, and
\* those that note how the task goes under outputs/, beside the user's files.
Stages == {"fs_write", "fs_move", "fs_rename", "fs_trash"}
Reads == {"fs_read", "fs_glob", "ocr"}
Fetches == {"screenshot", "web_fetch"}
Reports == {"todo_write", "report_progress"}

\* A name that no registered tool has is denied.
EvaluateLevel(c) ==
  IF c.banned THEN "L3"
  ELSE CASE c.tool \in Stages \cup Fetches \cup {"shell"} -> "L1"
         [] c.tool \in Reads \cup Reports             -> "L0"
         [] c.tool = "applescript"                   -> "L2"
         [] OTHER                                    -> "L3"

\* L2 needs an approval that nothing asks for yet.
PermissionDenied(c) == EvaluateLevel(c) \in {"L2", "L3"}

\* path.resolve(): a segment ".." takes back the whole segment before it.
Parent(path) ==
  SubSeq(path, 1, Max({0} \cup {i \in 1..Len(path) - 1 : ~path[i].joined}))
Alone(path, n) == ~n.joined /\ (path = << >> \/ ~Last(path).joined)
Climb(path, n) ==
  IF n.name = ".." /\ Alone(path, n) THEN Parent(path) ELSE Append(path, n)

Walk(raw) ==
  LET start == CASE raw.from = "root" -> << >>
                 [] raw.from = "home" -> Home
                 [] raw.from = "base" -> Dirs[1]
  IN FoldLeft(Climb, << >>, start \o raw.names)

\* The file that the handlers name.
ResolveTaskPath(raw) == Walk(raw)

\* The path that the hook judges: the same, with slashes for its backslashes.
Slashed(path) == [i \in DOMAIN path |-> [path[i] EXCEPT !.joined = FALSE]]
NormalizePath(raw) == Slashed(Walk(raw))

HasBackslash(path) == \E i \in DOMAIN path : path[i].joined

\* path is one of the authorised directories or lies under one.
InScope(path) == \E d \in Range(Dirs) : IsPrefix(d, path)

\* A shell call without cwd runs in the first authorised directory.
ScopeViolatedByFirst(c) ==
  \/ c.tool = "web_fetch" /\ ~Net
  \/ c.paths # << >> /\ ~InScope(NormalizePath(c.paths[1]))
ScopeViolated(c) ==
  \/ c.tool = "web_fetch" /\ ~Net
  \/ \E raw \in Range(c.paths) : ~InScope(NormalizePath(raw))

\* The audit comes third: a denied call leaves no line.
Blocked(c) == PermissionDenied(c) \/ ScopeViolated(c)

\* Carried out, a command may do anything to files, without staging.
RunsCommand(c) == c.tool = "shell" /\ ~Blocked(c) /\ (c.online => Net)

\* What the handler of a file tool stages.
StagedOp(c) ==
  LET kind == CASE c.tool = "fs_write" -> "write"
                [] c.tool \in {"fs_move", "fs_rename"} -> "move"
                [] c.tool = "fs_trash" -> "trash"
      last == c.paths[Len(c.paths)]
  IN [kind |-> kind, src |-> ResolveTaskPath(c.paths[1]), dst |-> ResolveTaskPath(last),
      body |-> IF kind = "write" THEN c.body ELSE NoBody]
=============================================================================
