--------------------------- MODULE TaskPipelineMC ---------------------------
(* Tasks whose sub-agents may write the same file or delete it, and ask    *)
(* for what they may not have; and one whose paths are written in every    *)
(* way.                                                                    *)
EXTENDS TaskPipeline
CONSTANTS old, new

\* Names with slashes between them, and with backslashes.
Plain(names) == [i \in DOMAIN names |-> [name |-> names[i], joined |-> FALSE]]
Joined(names) == [i \in DOMAIN names |-> [name |-> names[i], joined |-> i < Len(names)]]

WorkNames == <<"u", "work">>
X == Plain(WorkNames \o <<"x">>)
OnePath == {X}
TwoContents == {old, new}
OneContent == {new}
AtHome == Plain(<<"u">>)
OneDir == <<Plain(WorkNames)>>

Inside == Gate!RawPath("base", Plain(<<"x">>))
Around == Gate!RawPath("home", Plain(<<"..", "u", "work", "y", "..", "x">>))
Outside == Gate!RawPath("base", Plain(<<"..", "x">>))
SomeCalls ==
  {Gate!Call("fs_write", <<Inside>>, new),
   Gate!Call("fs_trash", <<Around>>, Absent),
   Gate!Call("fs_move", <<Inside, Outside>>, Absent),
   Gate!Call("shell", << >>, Absent),
   [Gate!Call("shell", << >>, Absent) EXCEPT !.banned = TRUE],
   Gate!Call("fs_read", <<Outside>>, Absent)}

\* The same names, with a backslash instead of the last slash: within the
\* directory, under a segment that ".." takes back whole, beside the directory,
\* and with a ".." that is not a segment of its own.
Within == Gate!RawPath("base", Joined(<<"y", "x">>))
Through == Gate!RawPath("base", Joined(<<"y", "z">>) \o Plain(<<"..", "x">>))
Beside == Gate!RawPath("base", Plain(<<"..">>) \o Joined(<<"work", "x">>))
Upward == Gate!RawPath("base", Joined(<<"..", "x">>))

\* Two tasks between two files, one of which only the handler takes for a file
\* of its own.
TwoPaths == {X, Gate!Walk(Beside)}
MixedCalls ==
  {Gate!Call("fs_write", <<Through>>, new),
   Gate!Call("fs_move", <<Around, Beside>>, Absent),
   Gate!Call("fs_move", <<Inside, Outside>>, Absent),
   Gate!Call("shell", << >>, Absent),
   [Gate!Call("shell", << >>, Absent) EXCEPT !.banned = TRUE],
   Gate!Call("fs_read", <<Outside>>, Absent)}

Spellings == {Inside, Around, Outside, Within, Through, Beside, Upward}
SpelledPaths == {X, Gate!Walk(Within), Gate!Walk(Beside), Gate!Walk(Upward)}
SpelledCalls ==
  {Gate!Call("fs_write", <<raw>>, new) : raw \in Spellings}
    \cup {Gate!Call("fs_move", <<Inside, raw>>, Absent) : raw \in Spellings}
=============================================================================
