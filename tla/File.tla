-------------------------------- MODULE File --------------------------------
(***************************************************************************)
(* The file module (pkg/module/file): where a transfer goes, and what it     *)
(* leaves there when it fails.  A path is a sequence of names, "/" as the    *)
(* first of them if it is absolute; "none" stands for a path that is not     *)
(* configured, and an argument is the sequence of its parts between colons.  *)
(***************************************************************************)
EXTENDS ModuleRun, SequencesExt

CONSTANTS
  FilePaths,   \* the paths that are typed as arguments
  DotDotNames  \* the names that begin with two dots

(* Only the first name of a path can be the root.                           *)
ASSUME FilePathsAssumption ==
  /\ \A p \in FilePaths : p \in Seq(STRING) /\ \A k \in 2..Len(p) : p[k] # "/"
  /\ ".." \in DotDotNames

VARIABLES
  paths,   \* sourcePath and destPath, which stay on the instance until the next Run
  dest,    \* the file at the destination of an upload: "absent", "old" (as this Run
           \* found it), "new" (of this Run), "partial"
  fetched, \* a download was sent to the client
  ignored  \* history: the error of Close or os.Remove was ignored

fileVars == <<paths, dest, fetched, ignored>>

NoPath == <<"none">>
Bad == [ok |-> FALSE, source |-> NoPath, dest |-> NoPath]
Both(source, destination) == [ok |-> TRUE, source |-> source, dest |-> destination]

(* filepath.Clean, with "." for the empty result (external): one name after   *)
(* the other is added to what is left of the names before it.               *)
CleanName(done, name) ==
  CASE name = "." -> done
    [] name = ".." /\ done # <<>> /\ Last(done) \notin {"..", "/"} -> Front(done)
    [] name = ".." /\ done = <<"/">> -> done
    [] OTHER -> Append(done, name)

Clean(path) ==
  LET done[k \in 0..Len(path)] == IF k = 0 THEN <<>> ELSE CleanName(done[k - 1], path[k])
  IN  done[Len(path)]

(* Absolute paths and those that begin with two dots are refused, the ones    *)
(* that lead out of the tree among them.                                    *)
sanitizePath(path) ==
  IF Clean(path) # <<>> /\ Clean(path)[1] \in {"/"} \cup DotDotNames THEN Bad ELSE Both(NoPath, Clean(path))

(* One path: the destination, the source, or both.                          *)
parseSinglePath(arg) ==
  CASE mod.source # NoPath -> [sanitizePath(arg) EXCEPT !.source = mod.source]
    [] mod.source = NoPath /\ mod.destination # NoPath -> Both(arg, mod.destination)
    [] OTHER -> Both(arg, <<Last(arg)>>)

(* SRC:DEST, only if neither is configured.                                 *)
parseColonPath(arg) ==
  IF mod.source # NoPath \/ mod.destination # NoPath \/ Len(arg) # 2 \/ <<>> \in ToSet(arg) THEN Bad
  ELSE LET s == sanitizePath(arg[1]) d == sanitizePath(arg[2]) IN
       IF s.ok /\ d.ok THEN Both(s.dest, d.dest) ELSE Bad

(* evalArgs: no argument if both are configured, one otherwise.             *)
parsePaths(args) ==
  IF mod.source # NoPath /\ mod.destination # NoPath
    THEN IF args = <<>> THEN Both(mod.source, mod.destination) ELSE Bad
  ELSE IF Len(args) # 1 \/ args[1] = <<<<>>>> THEN Bad
  ELSE IF Len(args[1]) = 1 THEN parseSinglePath(args[1][1]) ELSE parseColonPath(args[1])

-----------------------------------------------------------------------------

(* The operation must be configured, and an octal permission if any.        *)
fileInit ==
  /\ kind = "file" /\ InitReturns(mod.operation \in {"upload", "download"} /\ mod.permission \in {"default", "octal"})
  /\ UNCHANGED fileVars

fileRun ==
  /\ kind = "file" /\ pc = "begin"
  /\ LET p == parsePaths(cmd) IN
     paths' = p /\ IF p.ok THEN To(mod.operation) ELSE Return("error")
  /\ dest' \in {"absent", "old"} /\ fetched' = FALSE /\ ignored' = FALSE

(* No path, or one that names a directory, cannot be opened for writing.     *)
IsDir(path) == path \in {<<>>, NoPath} \/ Last(path) \in {".", "..", "/"}

(* uploadFile up to the copy: the client's file, the directories, the open,   *)
(* which truncates.                                                         *)
uploadOpen ==
  /\ kind = "file" /\ pc = "upload"
  /\ \/ Return("error") /\ UNCHANGED dest
     \/ ~IsDir(paths.dest) /\ To("copy") /\ dest' = "partial"
  /\ UNCHANGED <<paths, fetched, ignored>>

(* The copy; a failed one is removed.  Nobody hears of a Close or a removal   *)
(* that fails.                                                              *)
uploadCopy ==
  /\ kind = "file" /\ pc = "copy"
  /\ \/ Return("ok") /\ dest' = "new" /\ UNCHANGED ignored
     \/ Return("error") /\ dest' = "absent" /\ UNCHANGED ignored
     \/ (Return("ok") \/ Return("error")) /\ dest' = "partial" /\ ignored' = TRUE
  /\ UNCHANGED <<paths, fetched>>

downloadFile ==
  /\ kind = "file" /\ pc = "download"
  /\ \/ Return("ok") /\ fetched' = TRUE
     \/ Return("error") /\ UNCHANGED fetched
  /\ UNCHANGED <<paths, dest, ignored>>

fileDeinit == kind = "file" /\ DeinitCalled /\ UNCHANGED fileVars

FileInit ==
  /\ paths = Bad /\ dest \in (IF kind = "file" THEN {"absent", "old"} ELSE {"absent"})
  /\ fetched = FALSE /\ ignored = FALSE
FileStep == fileInit \/ fileRun \/ uploadOpen \/ uploadCopy \/ downloadFile \/ fileDeinit

FileArgs ==
  {<<>>, <<<<<<"a">>>>, <<<<"b">>>>>>} \cup {<<<<p>>>> : p \in FilePaths} \cup {<<<<p, q>>>> : p, q \in FilePaths}

(* Another Run of the instance: parsePaths sets both paths to the configured   *)
(* ones and then to its own, or to a mixture if both Runs set them at once;   *)
(* and its upload may be to the same file.                                   *)
Elsewhere == Both(<<"/", "other">>, <<"/", "other">>)

otherTransfers ==
  /\ kind = "file" /\ pc # "idle" /\ OtherRun
  /\ \/ paths' \in {Both(mod.source, mod.destination), Elsewhere} /\ UNCHANGED dest
     \/ dest' \in {"absent", "partial", "old"} /\ UNCHANGED paths
  /\ UNCHANGED <<fetched, ignored>>

FileCall == kind = "file" /\ \E args \in FileArgs : RunCalled(args)

-----------------------------------------------------------------------------

(* A path escapes if it starts at the root, or if some beginning of it goes   *)
(* up more often than it goes down.                                         *)
Escapes(path) ==
  \E k \in 1..Len(path) :
    \/ path[k] = "/"
    \/ Cardinality({i \in 1..k : path[i] = ".."}) > Cardinality({i \in 1..k : path[i] \notin {"..", ".", "/"}})

(* A finished transfer to a destination that came from the arguments stays   *)
(* in the directory it started from, whatever the argument looks like.       *)
(* Except: another Run of the same module has set its destPath meanwhile.    *)
StaysInside ==
  kind = "file" /\ pc = "idle" /\ outcome = "ok" /\ ~overlapped
    /\ mod.operation = "upload" /\ mod.destination = NoPath =>
      ~Escapes(paths.dest)

(* After a Run the destination is as the Run found it, or holds the new file *)
(* or nothing, never a part of one, and the new one if the Run succeeded.    *)
(* Except: the error of Close or of the removal, which the code ignores, or  *)
(* another Run of the same module, which may write to or remove the file.    *)
UploadWhole ==
  kind = "file" /\ pc = "idle" /\ outcome # "none" /\ ~overlapped /\ ~ignored =>
    /\ dest # "partial"
    /\ outcome = "ok" /\ mod.operation = "upload" => dest = "new"
=============================================================================
