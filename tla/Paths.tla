------------------------------- MODULE Paths -------------------------------
(***************************************************************************)
(* Absolute paths over a file system with symbolic links, and the two      *)
(* canonicalizations the server makes of the paths it is given.            *)
(*                                                                         *)
(* A path is the sequence of its components; the root is <<>>.  A given    *)
(* path is [abs, parts], where parts may hold "." and "..".  A file system *)
(* is [dirs, links, files]: the real directories, the links with the real  *)
(* directory each leads to, and for a real directory the names of the      *)
(* files in it that matter here.  The parent of a directory is one, and a  *)
(* directory's own path has no links and no dots in it.                    *)
(***************************************************************************)
EXTENDS Sequences, SequencesExt, FiniteSetsExt, Integers

NotFound == <<"not found">>

Front2(s) == IF s = <<>> THEN <<>> ELSE Front(s)

\* The path given, relative to base unless it is absolute.
Absolute(given, base) == IF given.abs THEN given.parts ELSE base \o given.parts

\* Following the links of every component, one after the other.
Follow(links, at, name) ==
    CASE name = "." -> at
      [] name = ".." -> Front2(at)
      [] OTHER -> LET next == Append(at, name)
                  IN  IF next \in DOMAIN links THEN links[next] ELSE next

Resolve(links, path) ==
    LET at[n \in 0 .. Len(path)] ==
            IF n = 0 THEN <<>> ELSE Follow(links, at[n - 1], path[n])
    IN  at[Len(path)]

Real(fs, path) == Resolve(fs.links, path)

\* PathBuf::components and the pops of normalize_absolute: "." goes, ".." takes
\* the component before it, whatever that component is on disk.
NormalizeAbsolute(parts) == Resolve(<<>>, parts)

\* symlink_metadata: the last component is not followed.
Present(fs, path) ==
    \/ path = <<>>
    \/ LET entry == Append(Real(fs, Front2(path)), Last(path))
       IN  entry \in fs.dirs \/ entry \in DOMAIN fs.links

\* Path::canonicalize fails unless every component leads to a directory.
Canonicalize(fs, path) ==
    IF \A n \in 1 .. Len(path) : Real(fs, SubSeq(path, 1, n)) \in fs.dirs \cup {<<>>}
    THEN Real(fs, path) ELSE NotFound

\* Seeded fault: links in the part that is present are kept.
CanonicalizeByName(fs, parts) == NormalizeAbsolute(parts)

\* The longest part of the path that is present is made canonical, and the rest
\* is kept as it is.
CanonicalizeWithMissingTail(fs, parts) ==
    LET path  == NormalizeAbsolute(parts)
        known == Max({n \in 0 .. Len(path) : Present(fs, SubSeq(path, 1, n))})
        head  == Canonicalize(fs, SubSeq(path, 1, known))
    IN  IF head = NotFound THEN NotFound ELSE head \o SubSeq(path, known + 1, Len(path))

Within(path, root) == IsPrefix(root, path)

\* Directories created along a path, as mkdir -p does.
MakeDirectories(fs, path) ==
    [fs EXCEPT !.dirs = @ \cup {Real(fs, SubSeq(path, 1, n)) : n \in 1 .. Len(path)}]

WorkspaceMarkers == {"MODULE.bazel", "WORKSPACE.bazel", "WORKSPACE"}

FilesIn(fs, dir) == IF dir \in DOMAIN fs.files THEN fs.files[dir] ELSE {}

IsWorkspace(fs, dir) == FilesIn(fs, dir) \cap WorkspaceMarkers # {}
=============================================================================
