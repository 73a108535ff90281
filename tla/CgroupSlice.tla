---------------------------- MODULE CgroupSlice -----------------------------
(***************************************************************************)
(* Resolution of the configured cgroup slice (hst.CgroupConfig.slicePath, *)
(* reached from Validate and SlicePath): an empty slice means the default *)
(* "/sys/fs/cgroup/hakurei.slice", a relative one is joined beneath       *)
(* "/sys/fs/cgroup", the result is lexically cleaned (Go path.Clean) and  *)
(* must be accepted by check.NewAbs, else ErrCgroupPath.                   *)
(*                                                                         *)
(* A path string is a record: abs (it starts with "/") and the sequence   *)
(* of its "/"-separated elements. "" stands for an empty element (as in   *)
(* "a//b"), "NUL" for a name containing a NUL byte, "x" for any other     *)
(* name. The empty string is the relative path with no elements.          *)
(***************************************************************************)
EXTENDS Naturals, Sequences, SequencesExt

CONSTANTS
  Names,     \* element values the input slices are built from
  MaxElems   \* longest input slice, in elements

VARIABLES
  slice,     \* CgroupConfig.Slice
  result     \* what slicePath returned: [err, path], or Pending

vars == <<slice, result>>

Path(abs, elems) == [abs |-> abs, elems |-> elems]
\* slicePath's two results: the path, or ErrCgroupPath
Ok(p) == [err |-> FALSE, path |-> p]
ErrCgroupPath == [err |-> TRUE, path |-> Path(FALSE, <<>>)]
Pending == [err |-> FALSE, path |-> Path(FALSE, <<>>)]
CgroupRoot == Path(TRUE, <<"sys", "fs", "cgroup">>)
DefaultSlice == Path(TRUE, <<"sys", "fs", "cgroup", "hakurei.slice">>)

-----------------------------------------------------------------------------
(* path.Clean: drop empty and "." elements; ".." removes the preceding    *)
(* element, is dropped at the root of a rooted path, and is kept at the   *)
(* start of a relative one. An empty relative result is ".".              *)
RECURSIVE LexKeepRootDotDot(_, _, _)
LexKeepRootDotDot(out, in, abs) ==
  IF in = <<>> THEN out
  ELSE LET e == Head(in) IN
       LexKeepRootDotDot(CASE e \in {"", "."} -> out
                           [] e = ".." /\ out # <<>> /\ Last(out) # ".." -> Front(out)
                           [] OTHER -> Append(out, e),
                         Tail(in), abs)

RECURSIVE Lex(_, _, _)
Lex(out, in, abs) ==
  IF in = <<>> THEN out
  ELSE LET e == Head(in) IN
       Lex(CASE e \in {"", "."} -> out
             [] e = ".." /\ out # <<>> /\ Last(out) # ".." -> Front(out)
             [] e = ".." /\ abs -> out
             [] OTHER -> Append(out, e),
           Tail(in), abs)

Clean(p) ==
  LET l == Lex(<<>>, p.elems, p.abs) IN
  Path(p.abs, IF l = <<>> /\ ~p.abs THEN <<".">> ELSE l)

\* path.Join(CgroupRoot, base): the elements joined by "/", then cleaned.
JoinUnderRoot(base) == Clean(Path(TRUE, CgroupRoot.elems \o base.elems))

\* check.NewAbs accepts an absolute path without NUL bytes.
NewAbsOK(p) == p.abs /\ "NUL" \notin Range(p.elems)

\* slicePath, with its relative-path join dropped.
SlicePathNoJoin(s) ==
  LET base == IF ~s.abs /\ s.elems = <<>> THEN DefaultSlice ELSE s
      cleaned == Clean(base)
  IN IF NewAbsOK(cleaned) THEN Ok(cleaned) ELSE ErrCgroupPath

SlicePath(s) ==
  LET base == IF ~s.abs /\ s.elems = <<>> THEN DefaultSlice ELSE s
      joined == IF ~base.abs THEN JoinUnderRoot(base) ELSE base
      cleaned == Clean(joined)
  IN IF NewAbsOK(cleaned) THEN Ok(cleaned) ELSE ErrCgroupPath

-----------------------------------------------------------------------------
Inputs == {Path(abs, e) : abs \in BOOLEAN, e \in BoundedSeq(Names, MaxElems)}

Init ==
  /\ slice \in Inputs
  /\ result = Pending

\* CgroupConfig.Validate (and SlicePath) resolving the slice.
Resolve ==
  /\ result = Pending
  /\ result' = SlicePath(slice)
  /\ UNCHANGED slice

Next == Resolve

Spec == Init /\ [][Next]_vars

-----------------------------------------------------------------------------
\* check.Absolute: an absolute path, already clean.
IsAbsolute(p) ==
  /\ p \in [abs : {TRUE}, elems : Seq(Names \cup Range(DefaultSlice.elems))]
  /\ Range(p.elems) \cap {"", ".", ".."} = {}

TypeOK ==
  /\ slice \in Inputs
  /\ result \in {Pending, ErrCgroupPath} \/ (~result.err /\ IsAbsolute(result.path))

Resolved == result \notin {Pending, ErrCgroupPath}

(* A relative slice naming plain directories is resolved beneath          *)
(* /sys/fs/cgroup (the documented meaning of a relative slice).           *)
RelativeSliceUnderRoot ==
  (result # Pending /\ ~slice.abs /\ slice.elems # <<>>
     /\ Range(slice.elems) \subseteq {"x"})
    => result = Ok(Path(TRUE, CgroupRoot.elems \o slice.elems))

(* ErrCgroupPath is "returned when a cgroup slice resolves outside of the *)
(* filesystem root", and a slice that escapes /sys/fs/cgroup after        *)
(* cleaning is rejected (spec, scenario 6): every accepted slice lies     *)
(* beneath /sys/fs/cgroup.                                                 *)
SliceBeneathCgroupRoot ==
  Resolved => IsPrefix(CgroupRoot.elems, result.path.elems)
=============================================================================
