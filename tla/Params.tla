-------------------------------- MODULE Params --------------------------------
(***************************************************************************)
(* Parameter resolution (params/) as `avix server resolve` asks for it     *)
(* (cli/resolve.rs): the user's crews are looked up in users.yaml          *)
(* (config/users.rs); the files of the system, of the crews and of the     *)
(* user are loaded, their limits intersected, their defaults applied layer *)
(* over layer with the manifest on top, and the result clamped.  Two      *)
(* fields stand for the sixteen: chain is entrypoint.maxToolChain (a       *)
(* required number under a range; the other ranged fields are treated      *)
(* alike) and model entrypoint.modelPreference (a required name under a    *)
(* list of allowed names).                                                 *)
(***************************************************************************)
EXTENDS Integers, Sequences, SequencesExt

CONSTANTS
    UserFiles,      \* what users.yaml may hold: sequences of users
    AskedUser,      \* the user that is asked about
    ExtraCrews,     \* what --extra-crew may be: Unset or a crew
    DefaultsFiles,  \* place -> what its defaults file may hold
    LimitsFiles,    \* place -> what its limits file may hold
    Manifests,      \* what the manifest may set
    NoFile,         \* there is no file
    Unset           \* the file does not set the field

ASSUME ParamsAssumption == NoFile # Unset /\ ExtraCrews \subseteq {"crew1", "crew2", Unset}

VARIABLES
    userLookup,       \* the users of users.yaml and the extra crew, while they matter
    crews,        \* the crews that count, in order
    defaultsOf,   \* place -> defaults file
    limitsOf,     \* place -> limits file
    manifest,     \* the manifest's layer
    input,        \* ResolverInput, as loaded
    resolution,   \* what resolve returned
    limitsTold    \* what --limits-only printed

paramVars == <<userLookup, crews, limitsTold, defaultsOf, limitsOf, manifest, input, resolution>>

Places == {"system", "crew1", "crew2", "user"}

NoInput == [state |-> "none", defaults |-> <<>>, limits |-> <<>>]

Unresolved == [state |-> "none", chain |-> Unset, model |-> Unset, source |-> Unset, from |-> Unset]

-----------------------------------------------------------------------------
(* Constraints: a range has a min and a max, either of them Unset *)

IntersectMin(a, b) == IF a = Unset THEN b ELSE IF b = Unset THEN a ELSE IF a > b THEN a ELSE b

\* Faulty variant: the wider of two upper bounds wins.
IntersectMaxWide(a, b) == IF a = Unset THEN b ELSE IF b = Unset THEN a ELSE IF a > b THEN a ELSE b

IntersectMax(a, b) == IF a = Unset THEN b ELSE IF b = Unset THEN a ELSE IF a < b THEN a ELSE b

IntersectModels(a, b) == IF a = Unset THEN b ELSE IF b = Unset THEN a ELSE a \cap b

\* AgentLimits::intersect for the two fields.
Intersect(a, b) ==
    [min    |-> IntersectMin(a.min, b.min),
     max    |-> IntersectMax(a.max, b.max),
     models |-> IntersectModels(a.models, b.models)]

\* RangeConstraint::clamp: the lower bound first, so the upper one wins.
Clamp(limits, v) ==
    LET w == IF limits.min # Unset /\ v < limits.min THEN limits.min ELSE v
    IN  IF limits.max # Unset /\ w > limits.max THEN limits.max ELSE w

-----------------------------------------------------------------------------
(* The users file: a user has a name, a uid, crews, and whether a workspace *)
(* and a home are set and its quotas are numbers or "unlimited"             *)

NoUserLookup == [users |-> <<>>, extra |-> Unset]

\* UsersConfig::validate: one user after the other.
UsersValid(users) ==
    \A i \in DOMAIN users :
        /\ \A j \in 1 .. i - 1 : users[j].uid # users[i].uid
        /\ users[i].uid = 0 \/ users[i].uid >= 1000
        /\ ~(users[i].workspace /\ users[i].home)
        /\ users[i].quota

FindUser(users) == SelectInSeq(users, LAMBDA u : u.username = AskedUser)

WithExtra(own, extra) == IF extra = Unset \/ extra \in Range(own) THEN own ELSE Append(own, extra)

\* run_resolve, step 1: an unreadable file or an unknown user is an error.
LooksUpUser(users, extra) ==
    /\ input.state = "none"
    /\ userLookup' = [users |-> users, extra |-> extra]
    /\ IF UsersValid(users) /\ FindUser(users) # 0
       THEN crews' = WithExtra(users[FindUser(users)].crews, extra) /\ input' = [input EXCEPT !.state = "known"]
       ELSE input' = [input EXCEPT !.state = "refused"] /\ UNCHANGED crews
    /\ UNCHANGED <<defaultsOf, limitsOf, manifest, resolution, limitsTold>>

-----------------------------------------------------------------------------
(* ResolverInputLoader::load *)

\* The crews' and the user's files, in the order in which they apply.
Placed == crews \o <<"user">>

Present(files) == SelectSeq(Placed, LAMBDA p : files[p] # NoFile)

\* A file for every place, of those the place may hold.
FileChoices(files) == {f \in [Places -> UNION {files[p] : p \in Places}] : \A p \in Places : f[p] \in files[p]}

\* Someone is to be given an agent: the files are as they are.
Configured ==
    /\ input.state = "known"
    /\ userLookup' = NoUserLookup
    /\ defaultsOf' \in FileChoices(DefaultsFiles)
    /\ limitsOf' \in FileChoices(LimitsFiles)
    /\ manifest' \in Manifests
    /\ input' = [input EXCEPT !.state = "asked"]
    /\ UNCHANGED <<crews, resolution, limitsTold>>

\* Missing crew and user files are skipped; missing system files are an error.
Load ==
    /\ input.state = "asked"
    /\ input' = IF NoFile \in {defaultsOf["system"], limitsOf["system"]} THEN [NoInput EXCEPT !.state = "error"]
                ELSE [state    |-> "loaded",
                      defaults |-> <<"system">> \o Present(defaultsOf),
                      limits   |-> Present(limitsOf)]
    /\ UNCHANGED <<userLookup, crews, defaultsOf, limitsOf, manifest, resolution, limitsTold>>

-----------------------------------------------------------------------------
(* ParamResolver::resolve *)

EffectiveLimits == FoldLeft(LAMBDA acc, p : Intersect(acc, limitsOf[p]), limitsOf["system"], input.limits)

\* Field::apply for both fields; source is the annotation of chain.
Applied(acc, layer, place) ==
    [chain |-> IF layer.chain = Unset THEN acc.chain ELSE layer.chain,
     model |-> IF layer.model = Unset THEN acc.model ELSE layer.model,
     source |-> IF layer.chain = Unset THEN acc.source ELSE place]

Layered ==
    LET nothing == [chain |-> Unset, model |-> Unset, source |-> Unset]
        files   == FoldLeft(LAMBDA acc, p : Applied(acc, defaultsOf[p], p), nothing, input.defaults)
    IN  Applied(files, manifest, "manifest")

ModelRefused(limits, model) == limits.models # Unset /\ model # Unset /\ model \notin limits.models

\* A refused model is an error before a missing field is; a clamped value
\* keeps its source and notes what it was clamped from.
Resolve ==
    LET l       == Layered
        limits  == EffectiveLimits
        clamped == IF l.chain = Unset THEN Unset ELSE Clamp(limits, l.chain)
    IN  /\ input.state = "loaded" /\ resolution.state = "none"
        /\ resolution' =
             IF ModelRefused(limits, l.model) THEN [Unresolved EXCEPT !.state = "violation"]
             ELSE IF Unset \in {l.model, l.chain} THEN [Unresolved EXCEPT !.state = "missing"]
             ELSE [state |-> "ok", chain |-> clamped, model |-> l.model, source |-> l.source,
                   from |-> IF clamped = l.chain THEN Unset ELSE l.chain]
        /\ UNCHANGED <<userLookup, crews, defaultsOf, limitsOf, manifest, input, limitsTold>>

\* --limits-only: run_resolve intersects on its own and resolves nothing.
TellsLimits ==
    /\ input.state = "loaded" /\ resolution.state = "none"
    /\ resolution' = [Unresolved EXCEPT !.state = "limits"]
    /\ limitsTold' = FoldLeft(LAMBDA acc, p : Intersect(acc, limitsOf[p]), limitsOf["system"], input.limits)
    /\ UNCHANGED <<userLookup, crews, defaultsOf, limitsOf, manifest, input>>

-----------------------------------------------------------------------------

NoLimits == [min |-> Unset, max |-> Unset, models |-> Unset]

ParamsInit ==
    /\ userLookup = NoUserLookup /\ crews = <<>> /\ limitsTold = NoLimits
    /\ defaultsOf = [p \in Places |-> NoFile] /\ limitsOf = [p \in Places |-> NoFile]
    /\ manifest = [chain |-> Unset, model |-> Unset]
    /\ input = NoInput /\ resolution = Unresolved

ParamsNext ==
    \/ \E users \in UserFiles, extra \in ExtraCrews : LooksUpUser(users, extra)
    \/ Configured \/ Load \/ Resolve \/ TellsLimits

ParamsSpec == ParamsInit /\ [][ParamsNext]_paramVars

-----------------------------------------------------------------------------
(* Properties *)

\* The limits files that apply, and the defaults that apply with the manifest.
LimitsInForce == {limitsOf[p] : p \in {"system", "user"} \cup Range(crews)} \ {NoFile}

Setters(field) ==
    {p \in {"system", "user"} \cup Range(crews) :
        defaultsOf[p] # NoFile /\ defaultsOf[p][field] # Unset}
    \cup (IF manifest[field] = Unset THEN {} ELSE {"manifest"})

\* The order of precedence: manifest, user, later crews, earlier crews, system.
Above(p, q) ==
    LET rank == <<"system">> \o crews \o <<"user", "manifest">>
    IN  \E i, j \in 1 .. Len(rank) : rank[i] = p /\ rank[j] = q /\ i >= j

Winner(field) == CHOOSE p \in Setters(field) : \A q \in Setters(field) : Above(p, q)

Value(p, field) == IF p = "manifest" THEN manifest[field] ELSE defaultsOf[p][field]

\* A resolution is annotated with a layer that set the field, and clamped-from
\* is there exactly when the value is not the one that layer asked for.
AnnotationsTell ==
    resolution.state = "ok" =>
        /\ resolution.source = Winner("chain")
        /\ (resolution.from = Unset) <=> (resolution.chain = Value(Winner("chain"), "chain"))

\* The resolved number respects every limits file in force, whatever layer it
\* came from: no upper bound is ever passed, and no lower bound unless the
\* files contradict each other (clamp lets the upper bound win); a value all of
\* them allow is left alone.
WithinEveryLimit ==
    resolution.state = "ok" =>
        LET wanted == Value(Winner("chain"), "chain")
            Allows(l, v) == (l.min = Unset \/ v >= l.min) /\ (l.max = Unset \/ v <= l.max)
            conflict == \E a, b \in LimitsInForce : a.min # Unset /\ b.max # Unset /\ a.min > b.max
        IN  /\ \A l \in LimitsInForce : l.max = Unset \/ resolution.chain <= l.max
            /\ conflict \/ \A l \in LimitsInForce : Allows(l, resolution.chain)
            /\ (\A l \in LimitsInForce : Allows(l, wanted)) => resolution.chain = wanted

\* A model is resolved iff some layer names one and every limits file allows the
\* one with the highest precedence; refusals are never spurious.
ModelsAreChecked ==
    resolution.state \notin {"none", "limits"} =>
        LET refused == Setters("model") # {} /\
                       \E l \in LimitsInForce : l.models # Unset /\ Value(Winner("model"), "model") \notin l.models
        IN  /\ (resolution.state = "violation") <=> refused
            /\ resolution.state = "ok" => resolution.model = Value(Winner("model"), "model")

\* --limits-only tells the tightest bounds: an upper bound of some file in force
\* that none of the others is below, and only names that all of them allow.
LimitsAreTightest ==
    resolution.state = "limits" =>
        /\ \A l \in LimitsInForce : l.max # Unset => limitsTold.max # Unset /\ limitsTold.max <= l.max
        /\ limitsTold.max # Unset => \E l \in LimitsInForce : l.max = limitsTold.max
        /\ \A l \in LimitsInForce : l.models # Unset => limitsTold.models # Unset /\ limitsTold.models \subseteq l.models

\* The crews looked up are the user's own and the extra one, each counted once;
\* a users.yaml with two users of one uid, or a reserved one, is refused.
CrewsAreTheirs ==
    /\ input.state = "known" =>
           LET own == UNION {Range(u.crews) : u \in {v \in Range(userLookup.users) : v.username = AskedUser}}
           IN  /\ Range(crews) = own \cup ({userLookup.extra} \ {Unset})
               /\ IsInjective(crews)
               /\ \A u, v \in Range(userLookup.users) : u.uid = v.uid => u = v
    /\ input.state = "refused" =>
           \/ \A u \in Range(userLookup.users) : u.username # AskedUser
           \/ \E u \in Range(userLookup.users) : u.uid \in 1 .. 999 \/ (u.workspace /\ u.home) \/ ~u.quota
           \/ Cardinality({u.uid : u \in Range(userLookup.users)}) < Len(userLookup.users)

\* Together: ParamResolver::resolve and run_resolve agree with the reference:
\* membership, precedence, limits, refusals and annotations.
ResolutionIsRight ==
    /\ AnnotationsTell /\ WithinEveryLimit /\ ModelsAreChecked
    /\ LimitsAreTightest /\ CrewsAreTheirs
=============================================================================
