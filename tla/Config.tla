------------------------------- MODULE Config -------------------------------
(***************************************************************************)
(* The JSON form of hst.ContainerConfig (MarshalJSON, UnmarshalJSON): the *)
(* Flags bit set is written as one boolean key per flag next to the keys  *)
(* of ContainerConfigF, and read back by copying the decoded              *)
(* ContainerConfigF (whose Flags is never decoded) and setting the bit of *)
(* every true boolean key.                                                *)
(*                                                                         *)
(* A JSON object is a function from its keys to values: TRUE or FALSE for *)
(* a flag key, TRUE for "some value" of any other key. Decoding a         *)
(* ContainerConfigF key allocates the embedded *ContainerConfigF of       *)
(* containerConfigJSON; encoding/json leaves it nil otherwise.            *)
(***************************************************************************)
EXTENDS Naturals, FiniteSets, FiniteSetsExt, Bitwise

CONSTANTS
  FlagsSet,     \* ContainerConfig.Flags values to marshal
  UserObjects   \* JSON objects written by hand (not produced by MarshalJSON)

VARIABLES
  origin,   \* "marshal": json is MarshalJSON(flags); "user": json was given
  flags,    \* ContainerConfig.Flags before marshalling
  json,     \* the JSON object to decode
  decoded   \* what UnmarshalJSON left: Pending, Panic or [flags]

vars == <<origin, flags, json, decoded>>

Pending == [panic |-> FALSE, done |-> FALSE, flags |-> 0]
Panic == [panic |-> TRUE, done |-> TRUE, flags |-> 0]
Decoded(f) == [panic |-> FALSE, done |-> TRUE, flags |-> f]

\* The Flags constants, 1 << iota in declaration order.
FlagValue ==
  [FMultiarch |-> 1, FSeccompCompat |-> 2, FDevel |-> 4, FUserns |-> 8,
   FHostNet |-> 16, FHostAbstract |-> 32, FTty |-> 64, FMapRealUID |-> 128,
   FDevice |-> 256, FShareRuntime |-> 512, FShareTmpdir |-> 1024]
\* fMax - 1
FAll == 2047

\* The boolean fields of containerConfigJSON and their json tags; all but
\* MapRealUID are omitempty.
FieldTag ==
  [SeccompCompat |-> "seccomp_compat", Devel |-> "devel", Userns |-> "userns",
   HostNet |-> "host_net", HostAbstract |-> "host_abstract", Tty |-> "tty",
   Multiarch |-> "multiarch", MapRealUID |-> "map_real_uid",
   Device |-> "device", ShareRuntime |-> "share_runtime",
   ShareTmpdir |-> "share_tmpdir"]
FlagFields == DOMAIN FieldTag
OmitEmpty == FlagFields \ {"MapRealUID"}
FlagKeys == {FieldTag[x] : x \in FlagFields}

\* MarshalJSON: the constant each field is computed from.
MarshalFlag ==
  [SeccompCompat |-> "FSeccompCompat", Devel |-> "FDevel",
   Userns |-> "FUserns", HostNet |-> "FHostNet",
   HostAbstract |-> "FHostAbstract", Tty |-> "FTty",
   Multiarch |-> "FMultiarch", MapRealUID |-> "FMapRealUID",
   Device |-> "FDevice", ShareRuntime |-> "FShareRuntime",
   ShareTmpdir |-> "FShareTmpdir"]

\* UnmarshalJSON: the constant each true field sets.
UnmarshalFlagCopyPaste ==
  [MarshalFlag EXCEPT !.Device = "FMapRealUID"]
UnmarshalFlag ==
  [SeccompCompat |-> "FSeccompCompat", Devel |-> "FDevel",
   Userns |-> "FUserns", HostNet |-> "FHostNet",
   HostAbstract |-> "FHostAbstract", Tty |-> "FTty",
   Multiarch |-> "FMultiarch", MapRealUID |-> "FMapRealUID",
   Device |-> "FDevice", ShareRuntime |-> "FShareRuntime",
   ShareTmpdir |-> "FShareTmpdir"]

\* ContainerConfigF keys: without omitempty, and with it.
AlwaysKeys == {"env", "filesystem", "shell", "home", "args"}
OmitEmptyKeys == {"hostname", "wait_delay", "username", "path", "cgroup"}
ConfigKeys == AlwaysKeys \cup OmitEmptyKeys

IsSet(f, c) == (f & FlagValue[c]) # 0

-----------------------------------------------------------------------------
\* MarshalJSON: the ContainerConfigF keys, the key of every field whose
\* constant is set in Flags, and map_real_uid, written even when false.
MarshalJSON(f) ==
  LET set == {x \in FlagFields : IsSet(f, MarshalFlag[x])}
      written == set \cup (FlagFields \ OmitEmpty)
  IN [k \in AlwaysKeys \cup {FieldTag[x] : x \in written} |->
        k \in AlwaysKeys \/ \E x \in set : FieldTag[x] = k]

OrAll(bits) == FoldSet(LAMBDA b, acc : acc | b, 0, bits)

\* The flags UnmarshalJSON sets, one "if v.X { c.Flags |= FX }" per field.
FlagsFromJSON(j) ==
  LET set == {x \in FlagFields : FieldTag[x] \in DOMAIN j /\ j[FieldTag[x]]}
  IN OrAll({FlagValue[UnmarshalFlag[x]] : x \in set})

\* UnmarshalJSON: *c = *(*ContainerConfig)(v.ContainerConfigF) resets
\* Flags to zero, then the flag bits are set. The dereference panics when
\* v.ContainerConfigF was never allocated.
UnmarshalJSON(j) ==
  IF DOMAIN j \cap ConfigKeys = {} THEN Panic
  ELSE Decoded(FlagsFromJSON(j))

-----------------------------------------------------------------------------
Init ==
  \/ /\ origin = "marshal"
     /\ flags \in FlagsSet
     /\ json = MarshalJSON(0)
  \/ /\ origin = "user"
     /\ flags = 0
     /\ json \in UserObjects
  /\ decoded = Pending

\* The config is marshalled (json holds the zero config until then).
Marshal ==
  /\ origin = "marshal" /\ ~decoded.done /\ json # MarshalJSON(flags)
  /\ json' = MarshalJSON(flags)
  /\ UNCHANGED <<origin, flags, decoded>>

Unmarshal ==
  /\ ~decoded.done
  /\ origin = "marshal" => json = MarshalJSON(flags)
  /\ decoded' = UnmarshalJSON(json)
  /\ UNCHANGED <<origin, flags, json>>

Done ==
  /\ decoded.done
  /\ UNCHANGED vars

Next == Marshal \/ Unmarshal \/ Done

Spec == Init /\ [][Next]_vars

-----------------------------------------------------------------------------
(* Every flag survives a JSON round trip: decoding what MarshalJSON wrote  *)
(* gives back exactly the defined bits of Flags. MarshalJSON and           *)
(* UnmarshalJSON each list the eleven fields with their constants by hand, *)
(* so this holds only while the two lists and the json tags agree.        *)
FlagsRoundTrip ==
  (origin = "marshal" /\ decoded.done) => decoded = Decoded(flags & FAll)

(* Decoding a "container" object never crashes: UnmarshalJSON returns an  *)
(* error or a config for any JSON object, including one that sets no key *)
(* of ContainerConfigF, such as {} or {"devel": true}.                    *)
UnmarshalNeverPanics == ~decoded.panic
=============================================================================
