------------------------------- MODULE Config -------------------------------
(***************************************************************************)
(* Loading an env manifest (src/pkg/config/loader.go, resolver.go): merge  *)
(* the profile, read the files its $refs name, expand every placeholder in *)
(* one walk over the structure, validate.                                  *)
(*                                                                         *)
(* The walk takes struct fields in order and map entries in the random     *)
(* order of Go's map iteration; a ${ref:...} reads whatever the other      *)
(* field holds by then.                                                    *)
(***************************************************************************)
EXTENDS Naturals, Sequences, FiniteSets, SequencesExt

CONSTANTS Kinds,            \* the kinds of placeholders in the manifest; a
                            \* badref is a ref whose path names no key
          Encodings,        \* whether they have the base64 filter: 0, 1 or both
          MaxPlaceholders,  \* bound on the fields that hold one
          NSlots            \* number of $ref slots; the hypervisor is the first

ASSUME ConfigAssumption ==
    /\ Kinds \subseteq {"env", "file", "vault", "gen", "ref", "badref"}
    /\ Encodings \subseteq {0, 1}
    /\ MaxPlaceholders \in Nat /\ NSlots \in Nat \ {0}

(* Metadata.Domain, two entries of Metadata.Tags, Metadata.Description, and *)
(* an entry of IPs in each of two nodes.                                    *)
IPs    == {"ip1", "ip2"}
Fields == {"domain", "tag1", "tag2", "description"} \cup IPs

(* What a field holds: a placeholder, or a value known by where it is from  *)
(* and how often it was base64-encoded.                                     *)
Origin == Fields \cup {"profile", "source", "default", "marker", "password",
                       "empty", "raw-placeholder"}

Value(of, times) ==
    [kind |-> "value", of |-> of, default |-> FALSE, base64 |-> times]
Absent == Value("empty", 0)

Placeholder ==
    {t \in [kind : Kinds, of : Fields \cup {"name"}, default : BOOLEAN,
            base64 : Encodings] :
        /\ t.kind = "ref" <=> t.of \in Fields
        /\ t.default => t.kind \in {"env", "file"}}

Text == Placeholder \cup [kind : {"value"}, of : Origin, default : {FALSE},
                          base64 : 0 .. 2 * Cardinality(Fields)]

VARIABLES
    written,  \* the manifest as written
    source,   \* the environment variable, or file, that env: and file: name
    slots,    \* what each $ref slot resolved so far turned out to be
    text,     \* the loaded structure
    todo,     \* the walk: stages in order, the parts of one in any order,
              \* and the fields of one part against the same structure
    errs,     \* the fields with an error
    ret       \* what Load has come to

vars == <<written, source, slots, text, todo, errs, ret>>

TypeOK ==
    /\ written \in [Fields -> Text]
    /\ source \in {"unset", "empty", "set"}
    /\ slots \in BoundedSeq({"inline", "manifest", "file"}, NSlots)
    /\ text \in [Fields -> Text]
    /\ Len(todo) <= 5 /\ (todo # <<>> => ret = "walk")
    /\ errs \subseteq Fields
    /\ ret \in {"read", "refs", "walk", "validate",
                "ok", "profile", "circular", "unreadable", "unresolved", "invalid"}

Init ==
    /\ \E F \in SUBSET Fields :
           /\ Cardinality(F) <= MaxPlaceholders
           /\ \E w \in [F -> Placeholder], d \in {Absent, Value("description", 0)} :
                  written = [f \in Fields |->
                                IF f \in F THEN w[f]
                                ELSE IF f = "description" THEN d ELSE Value(f, 0)]
    /\ source \in {"unset", "empty", "set"}
    /\ slots = <<>>
    /\ text = written
    /\ todo = <<>>
    /\ errs = {}
    /\ ret = "read"

-----------------------------------------------------------------------------
(* expandPlaceholders.                                                     *)

(* env: takes an empty variable for a missing one, file: an empty file for  *)
(* its content.                                                            *)
Found(t) == IF t.kind = "env" THEN source = "set" ELSE source # "unset"

(* Mutant: a missing source is an error before its default is looked at.    *)
FailsFirst(t) == (t.kind \in {"env", "file"} /\ ~Found(t)) \/ t.kind = "badref"

(* A default covers a missing source, not a path resolveRefPath refuses.   *)
Fails(t) ==
    \/ t.kind \in {"env", "file"} /\ ~Found(t) /\ ~t.default
    \/ t.kind = "badref"

(* The base64 filter, also of a text that is itself a placeholder.          *)
Base64(v, times) ==
    IF times = 0 THEN v
    ELSE IF v.kind = "value" THEN [v EXCEPT !.base64 = @ + times]
    ELSE Value("raw-placeholder", times)

(* What kind's branch yields for placeholder t of a structure s, if any.    *)
Lookup(t, s) ==
    CASE t.kind \in {"env", "file"} ->
             IF Found(t) THEN Value(IF source = "set" THEN "source" ELSE "empty", 0)
             ELSE Value("default", 0)
      [] t.kind = "vault" -> Value("marker", 0)
      [] t.kind = "gen" -> Value("password", 0)
      [] OTHER -> s[t.of]

Expanded(t, s) ==
    IF t.kind = "value" \/ Fails(t) THEN t ELSE Base64(Lookup(t, s), t.base64)

-----------------------------------------------------------------------------
Merged(t) == IF t = Absent THEN Value("profile", 0) ELSE t

(* readEnv and applyProfile.  A profile gives the description if the        *)
(* manifest has none; the other fields it may give are not modelled.        *)
Read ==
    /\ ret = "read"
    /\ \/ ret' = "profile" /\ UNCHANGED text
       \/ /\ ret' = "refs"
          /\ \/ UNCHANGED text
             \/ text' = [text EXCEPT !["description"] = Merged(@)]
    /\ UNCHANGED <<written, source, slots, todo, errs>>

(* resolveRef of the next slot, which the manifest has inline or in a file, *)
(* itself or another one: any file named before is taken for a cycle.       *)
ResolveRef(s) ==
    /\ ret = "refs"
    /\ Len(slots) < NSlots
    /\ slots' = Append(slots, s)
    /\ \/ s \in {"manifest"} \cup (ToSet(slots) \cap {"file"}) /\ ret' = "circular"
       \/ s \in {"file"} \ ToSet(slots) /\ ret' \in {"refs", "unreadable"}
       \/ s = "inline" /\ ret' = "refs"
    /\ UNCHANGED <<written, source, text, todo, errs>>

(* Mutant: the hypervisor is walked before Metadata.                        *)
StagesReversed ==
    LET nodes == {{"ip1"}, {"ip2"}} IN
    <<nodes, {{"domain"}}, {{"tag1", "tag2"}}, {{"description"}}>>

(* walkStrings over Metadata and then the hypervisor.  The updates of a map *)
(* of strings are kept until all its entries are expanded; a node is walked *)
(* as a copy that shares its map of IPs.  An inline hypervisor is copied to *)
(* Value and stays in Inline, with the same maps: they are walked twice.    *)
Stages ==
    LET nodes == {{"ip1"}, {"ip2"}} IN
    <<{{"domain"}}, {{"tag1", "tag2"}}, {{"description"}}, nodes>>
        \o IF slots[1] = "inline" THEN <<nodes>> ELSE <<>>

StartWalk ==
    /\ ret = "refs"
    /\ Len(slots) = NSlots
    /\ ret' = "walk"
    /\ todo' = Stages
    /\ UNCHANGED <<written, source, slots, text, errs>>

Walk(part) ==
    /\ ret = "walk" /\ todo # <<>>
    /\ part \in Head(todo)
    /\ text' = [f \in Fields |-> IF f \in part THEN Expanded(text[f], text) ELSE text[f]]
    /\ errs' = errs \cup {f \in part : Fails(text[f])}
    /\ todo' = IF Head(todo) = {part} THEN Tail(todo)
               ELSE [todo EXCEPT ![1] = @ \ {part}]
    /\ UNCHANGED <<written, source, slots, ret>>

(* Mutant: it stops at the first error.                                     *)
EndWalkEarly ==
    /\ ret = "walk" /\ (todo = <<>> \/ errs # {})
    /\ ret' = IF errs = {} THEN "validate" ELSE "unresolved"
    /\ UNCHANGED <<written, source, slots, text, todo, errs>>

EndWalk ==
    /\ ret = "walk" /\ todo = <<>>
    /\ ret' = IF errs = {} THEN "validate" ELSE "unresolved"
    /\ UNCHANGED <<written, source, slots, text, todo, errs>>

(* An address is a plain text: no placeholder, marker, password or base64.  *)
IsIP(t) == t.kind = "value" /\ t.base64 = 0
           /\ t.of \notin {"marker", "password", "empty", "raw-placeholder"}

(* Validate, of which only the rule on IPs is modelled: the manifest is     *)
(* valid otherwise, and every other text may be an address.                 *)
Check ==
    /\ ret = "validate"
    /\ ret' = IF \A f \in IPs : IsIP(text[f]) THEN "ok" ELSE "invalid"
    /\ UNCHANGED <<written, source, slots, text, todo, errs>>

Loaded ==
    /\ ret \notin {"read", "refs", "walk", "validate"}
    /\ UNCHANGED vars

Next ==
    \/ Read \/ StartWalk \/ EndWalk \/ Check \/ Loaded
    \/ \E s \in {"inline", "manifest", "file"} : ResolveRef(s)
    \/ \E part \in {{f} : f \in Fields} \cup {{"tag1", "tag2"}} : Walk(part)

Spec == Init /\ [][Next]_vars

-----------------------------------------------------------------------------
(* The reference: what a field means, whatever the order of the walk.       *)

Stage(f) == CASE f = "domain" -> 1 [] f \in {"tag1", "tag2"} -> 2
              [] f = "description" -> 3 [] OTHER -> 4

IsRef(f) == written[f].kind = "ref"

(* No reference leads out of these fields.                                 *)
Closed(S) == \A g \in S : IsRef(g) => written[g].of \in S

(* Every reference on the chain from f goes to an earlier part of the env.  *)
GoesBack(f) ==
    \E S \in SUBSET Fields :
        /\ f \in S /\ Closed(S)
        /\ \A g \in S : IsRef(g) => Stage(written[g].of) < Stage(g)

(* It never comes back to a field it went through.                          *)
Ends(f) ==
    \A S \in SUBSET Fields : f \in S /\ Closed(S) => \E g \in S : ~IsRef(g)

Own(f) == IF f = "description" /\ written[f] = Absent THEN text[f] ELSE written[f]

(* What each field stands for, but for references to others.               *)
Leaves ==
    [f \in Fields |-> IF Own(f).kind \in {"value", "ref"} THEN Own(f)
                      ELSE IF Fails(Own(f)) THEN Value("raw-placeholder", 0)
                      ELSE Base64(Lookup(Own(f), written), Own(f).base64)]

(* References followed k times, encoded by every filter on the way.        *)
Followed(leaf) ==
    LET after[k \in 0 .. Cardinality(Fields)] ==
            [f \in Fields |->
                IF leaf[f].kind = "value" THEN leaf[f]
                ELSE IF k = 0 THEN Value("raw-placeholder", 0)
                ELSE Base64(after[k - 1][leaf[f].of], leaf[f].base64)]
    IN  after

(* The value at the end of the chain.                                      *)
Meaning(f) == Followed(Leaves)[Cardinality(Fields)][f]

(* A manifest without errors gives every field its meaning, the placeholder *)
(* copied, encoded or expanded twice included, as long as references point  *)
(* backwards.  (ResolvePlaceholders' single walk over a structure it reads  *)
(* from and writes to.)                                                     *)
ExpandsToMeaning ==
    ret \in {"ok", "invalid"} =>
        \A f \in Fields : GoesBack(f) => text[f] = Meaning(f)

(* Load fails over placeholders exactly when one the manifest has names a   *)
(* source that is not there, without a default, or refers to a key that is  *)
(* not there: a missing one is not lost behind a reference to its field,    *)
(* nor reported though a default covers it.                                 *)
MissingIsReported ==
    LET missing == {f \in Fields : \/ written[f].kind = "badref"
                                   \/ /\ written[f].kind \in {"env", "file"}
                                      /\ ~Found(written[f]) /\ ~written[f].default}
    IN  /\ ret = "unresolved" => missing # {} /\ missing \subseteq errs
        /\ ret \in {"ok", "invalid"} => missing = {}

(* docs/config-reference.md: `ref` is a "Reference another key in the same  *)
(* env".  The code copies a key that the walk has not reached as it is.     *)
RefGivesValue ==
    ret \in {"ok", "invalid"} => \A f \in Fields : Ends(f) => text[f] = Meaning(f)

=============================================================================
