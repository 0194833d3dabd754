-------------------------------- MODULE Tools --------------------------------
(***************************************************************************)
(* The tools that a run offers the model, as ToolRegistryService executes  *)
(* them one after the other in the run's sandbox: workspace paths, the     *)
(* truncation of outputs, and which failures the model is told of and      *)
(* which end the run.                                                      *)
(*                                                                         *)
(* A path is a sequence of segments.  A text is a sequence of characters,  *)
(* each given by its width in UTF-8.  The sandbox has no links.            *)
(***************************************************************************)
EXTENDS Naturals, FiniteSets, Sequences, SequencesExt

CONSTANTS
  Names,           \* bound: what files and directories are called
  Relative,        \* bound: the relative paths that the model gives
  Texts,           \* bound: what is written to files and printed by commands
  Touched,         \* bound: the files that commands write or remove
  MaxFiles,        \* bound: files in the sandbox
  MaxOutputBytes,  \* MAX_OUTPUT_BYTES
  None             \* no path, no tool

Segments == Names \cup {"home", "user", ".", ".."}

ASSUME RelativeAssumption == Relative \subseteq Seq(Segments)

ASSUME TextsAssumption ==
  Texts \subseteq Seq(1 .. 4) /\ MaxOutputBytes \in Nat \ {0}

VARIABLES
  files,    \* the sandbox: path -> text; a directory is there with its files
  live,     \* the run is under way
  last,     \* the last tool call, where its path leads, and its result (history)
  written   \* what write_file wrote and no command has touched (history)

vars == <<files, live, last, written>>

Workspace == <<"home", "user">>

\* What the model gives as a path: a relative one, an absolute one, or nothing.
Absolute == "an absolute path"
Missing  == "no string, or an empty one"
Given    == {[kind |-> "relative", segments |-> s] : s \in Relative}
              \cup [kind : {Absolute, Missing}, segments : {<<>>}]

-----------------------------------------------------------------------------
(* resolveWorkspacePath                                                    *)

\* Mutant: a path cannot climb above where it starts.
NormalizeRooted(segments) ==
  FoldLeft(LAMBDA path, s :
             CASE s = "."                   -> path
               [] s = ".." /\ path = <<>>   -> path
               [] s = ".." /\ path # <<>>   -> Front(path)
               [] OTHER                     -> Append(path, s),
           <<>>, segments)

\* Mutant: ".." is dropped like ".".
NormalizeDroppingDots(segments) == SelectSeq(segments, LAMBDA s : s \notin {".", ".."})

\* normalize of node:path, for a relative path: leading ".." stay.
Follow(path, s) ==
  CASE s = "." -> path
    [] s = ".." /\ path # <<>> /\ Last(path) # ".." -> Front(path)
    [] OTHER   -> Append(path, s)

Normalize(segments) == FoldLeft(Follow, <<>>, segments)

\* One segment from a directory; the parent of the root is the root.
Enter(path, s) ==
  CASE s = "."  -> path
    [] s = ".." -> IF path = <<>> THEN path ELSE Front(path)
    [] OTHER    -> Append(path, s)

\* resolve of node:path.
Resolve(path, segments) == FoldLeft(Enter, path, segments)

InWorkspace(path) == IsPrefix(Workspace, path)

\* requireString and resolveWorkspacePath; None is a ToolExecutionError.
ResolveWorkspacePath(given) ==
  LET resolved == Resolve(Workspace, Normalize(given.segments)) IN
  IF given.kind = "relative" /\ InWorkspace(resolved) THEN resolved ELSE None

-----------------------------------------------------------------------------
(* truncate                                                                *)

\* Besides 1 to 4: U+FFFD for a character cut in two, the line with the exit code,
\* and the notice that follows a cut.
Cut      == 5
ExitCode == 6
Notice   == 7

Width(c) == CASE c = Cut -> 3 [] c = ExitCode -> 1 [] OTHER -> c

Bytes(text) == FoldLeft(LAMBDA n, c : n + Width(c), 0, text)

\* Mutant: the limit counts characters.
TruncateCharacters(text) ==
  IF Bytes(text) <= MaxOutputBytes THEN text
    ELSE SubSeq(text, 1, IF Len(text) < MaxOutputBytes THEN Len(text) ELSE MaxOutputBytes)
           \o <<Notice>>

Truncate(text) ==
  IF Bytes(text) <= MaxOutputBytes
    THEN text
    ELSE LET n == CHOOSE i \in 0 .. Len(text) - 1 :
                    /\ Bytes(SubSeq(text, 1, i)) <= MaxOutputBytes
                    /\ Bytes(SubSeq(text, 1, i + 1)) > MaxOutputBytes
             whole == SubSeq(text, 1, n)
         IN whole \o (IF Bytes(whole) < MaxOutputBytes THEN <<Cut>> ELSE <<>>)
                  \o <<Notice>>

-----------------------------------------------------------------------------
(* The sandbox, as the tools use it.                                       *)

IsDirectory(path) ==
  \/ IsPrefix(path, Workspace)
  \/ \E f \in DOMAIN files : IsStrictPrefix(path, f)

CanWrite(path) ==
  /\ ~ IsDirectory(path)
  /\ \A f \in DOMAIN files : ~ IsStrictPrefix(f, path)
  /\ Cardinality(DOMAIN files \cup {path}) <= MaxFiles

With(f, path, text) ==
  [p \in DOMAIN f \cup {path} |-> IF p = path THEN text ELSE f[p]]

Without(f, path) == [p \in DOMAIN f \ {path} |-> f[p]]

-----------------------------------------------------------------------------
(* A call that ends with a result, and one that throws.                    *)

\* Where a path leads from the workspace, one segment after the other.
Walk(given) ==
  IF given.kind = "relative" THEN FoldLeft(Enter, Workspace, given.segments) ELSE None

Nothing == [tool |-> None, leads |-> None, target |-> None, content |-> <<>>,
            isError |-> FALSE, failed |-> FALSE]

\* path is what the sandbox is asked for.
Call(tool, given, path) ==
  [Nothing EXCEPT !.tool = tool, !.leads = Walk(given), !.target = path]

Result(call, content) ==
  /\ last' = [call EXCEPT !.content = content]
  /\ UNCHANGED live

\* ToolExecutionError.
ToolError(call) ==
  /\ last' = [call EXCEPT !.isError = TRUE]
  /\ UNCHANGED <<files, live, written>>

\* Any other error leaves execute: the run fails, and its sandbox is killed.
Throw(call) ==
  /\ last' = call
  /\ live' = FALSE

UnknownTool == ToolError(Nothing)

\* A file that is missing or a directory, or a call that fails.
ReadFile(given) ==
  LET path == ResolveWorkspacePath(given)
      call == Call("read_file", given, path) IN
  \/ ToolError(call)
  \/ /\ path \in DOMAIN files
     /\ Result(call, Truncate(files[path]))
     /\ UNCHANGED <<files, written>>

ListFiles(given) ==
  LET path  == ResolveWorkspacePath(given)
      call  == Call("list_files", given, path)
      below == {f \in DOMAIN files : IsStrictPrefix(path, f)} IN
  \/ ToolError(call)
  \/ /\ path # None
     /\ IsDirectory(path)
     /\ Result(call, {[name |-> f[Len(path) + 1], isDirectory |-> Len(f) > Len(path) + 1]
                       : f \in below})
     /\ UNCHANGED <<files, written>>

\* Mutant: a failure is a ToolExecutionError, as it is with read_file.
WriteFileCaught(given, text) ==
  LET path == ResolveWorkspacePath(given)
      call == Call("write_file", given, path) IN
  \/ ToolError(call)
  \/ /\ path # None
     /\ CanWrite(path)
     /\ files' = With(files, path, text)
     /\ written' = With(written, Walk(given), text)
     /\ \E isError \in BOOLEAN : last' = [call EXCEPT !.isError = isError]
     /\ UNCHANGED live

\* A call that throws may have written before.
WriteFile(given, text) ==
  LET path == ResolveWorkspacePath(given)
      call == Call("write_file", given, path) IN
  \/ path = None /\ ToolError(call)
  \/ /\ path # None
     /\ CanWrite(path)
     /\ files' = With(files, path, text)
     /\ written' = With(written, Walk(given), text)
     /\ Result(call, <<>>) \/ Throw(call)
  \/ /\ path # None
     /\ Throw(call)
     /\ UNCHANGED <<files, written>>

\* runCommand: what a failing command printed comes after its exit code.
CommandOutput(text, failed) == Truncate(IF failed THEN <<ExitCode>> \o text ELSE text)

\* BashTool passes the output on, not whether the command failed.  A command may do
\* anything to the files, and throws when it times out.
Bash(text, failed) ==
  LET call == [Nothing EXCEPT !.tool = "bash", !.failed = failed] IN
  /\ \/ UNCHANGED <<files, written>>
     \/ \E f \in Touched :
          /\ \/ CanWrite(f) /\ files' = With(files, f, text)
             \/ files' = Without(files, f)
          /\ written' = Without(written, f)
  /\ Result(call, CommandOutput(text, failed)) \/ Throw(call)

\* SandboxService.create, for the next run.
Create ==
  /\ files'   = <<>>
  /\ live'    = TRUE
  /\ written' = <<>>
  /\ last'    = Nothing

Init ==
  /\ files   = <<>>
  /\ live    = TRUE
  /\ written = <<>>
  /\ last    = Nothing

Execute ==
  \/ UnknownTool
  \/ \E given \in Given : ReadFile(given) \/ ListFiles(given)
  \/ \E given \in Given, text \in Texts : WriteFile(given, text)
  \/ \E text \in Texts, failed \in BOOLEAN : Bash(text, failed)

Next == (live /\ Execute) \/ Create

Spec == Init /\ [][Next]_vars

-----------------------------------------------------------------------------
(* Properties.                                                             *)

\* A tool works on the place where its path leads from the workspace, even through
\* directories outside, and only if that is the workspace or within it; no other
\* call reaches the sandbox.
WorksWherePathLeads ==
  last.tool \in {"read_file", "list_files", "write_file"} =>
    last.target = IF last.leads # None /\ InWorkspace(last.leads) THEN last.leads ELSE None

\* What is read of a file, however its path is spelled, is what write_file last wrote
\* there, up to a cut that loses no more than it has to.
ReadsWhatWasWritten ==
  last.tool = "read_file" /\ ~ last.isError /\ last.leads \in DOMAIN written =>
    LET text == written[last.leads] IN
    \/ last.content = text
    \/ \E n \in 0 .. Len(text) - 1 :
         /\ Bytes(SubSeq(text, 1, n + 1)) > MaxOutputBytes
         /\ \E cut \in {<<>>, <<Cut>>} :
              last.content = SubSeq(text, 1, n) \o cut \o <<Notice>>

\* What comes before the notice.
Printed(content) ==
  IF content # <<>> /\ Last(content) = Notice THEN Front(content) ELSE content

\* Outputs are bounded in bytes, with the two more that U+FFFD may take, and a command
\* that failed is told from one that did not however much it printed.
OutputBounded ==
  live =>
    /\ last.tool \in {"read_file", "bash"} =>
         Bytes(Printed(last.content)) <= MaxOutputBytes + 2
    /\ last.tool = "bash" => (last.failed <=> Contains(last.content, ExitCode))

\* A call that the model is told has failed has changed nothing: a write that may have
\* been done ends the run instead.
ErrorChangedNothing == [][last'.isError => files' = files]_vars

==============================================================================
