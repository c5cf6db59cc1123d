----------------------------- MODULE MCCatalog -----------------------------
(***************************************************************************)
(* The instance of Catalog for TLC: a super admin, a platform admin and a  *)
(* team leader; two categories, the second below the first; the module     *)
(* from before its creation or after a first deploy.                       *)
(***************************************************************************)
EXTENDS Catalog, TLC

MCAbove == "std" :> {"std"} @@ "std.cbb" :> {"std", "std.cbb"}
MCTeam == "std" :> "core" @@ "std.cbb" :> None
MCResponsible == "std" :> "core" @@ "std.cbb" :> "core"
MCManaged == "root" :> {} @@ "ann" :> {"std.cbb"} @@ "lea" :> {}

Empty == [module |-> {}, versions |-> {}, entries |-> {}, pages |-> {},
          teams |-> {[key |-> "core", leaders |-> {"lea"}, members |-> {"lea"}]}]
Created == CreateModule(Empty, "ann", [token |-> "t1", name |-> "one", cats |-> {"std"}])
Deployed == IngestArtifact(Created, {}, The(Created.module), 0,
                           [ver |-> "v1", name |-> "one", keys |-> {"guide"}])
MCStarts == {Empty, Deployed}

MCAsks ==
  { [op |-> "CreateModule", token |-> "t1", name |-> "one", cats |-> {"std"}],
    [op |-> "UpdateModule", patch |-> [name |-> "two", owner |-> "core"]],
    [op |-> "UpdateModule", patch |-> [token |-> "t2"]],
    [op |-> "UpdateModule", patch |-> [dflt |-> "v1", cats |-> {"std.cbb"}]],
    [op |-> "Migrate", patch |-> [cats |-> {"std", "std.cbb"}]],
    [op |-> "CreateVersion", ver |-> "v2", dflt |-> TRUE],
    [op |-> "CreateVersion", ver |-> "v3", dflt |-> TRUE],
    [op |-> "CreateVersion", ver |-> "v3", dflt |-> FALSE],
    [op |-> "UpdateVersion", ver |-> "v1", patch |-> [title |-> "old", dflt |-> FALSE]],
    [op |-> "UpdateVersion", ver |-> "v1", patch |-> [title |-> "v1", dflt |-> TRUE]],
    [op |-> "CreateEntry", ver |-> "v1", key |-> "faq", title |-> "faq"],
    [op |-> "DeleteEntry", id |-> <<0, "guide">>],
    [op |-> "UpdateEntry", id |-> <<0, "guide">>, patch |-> [title |-> "new"]],
    [op |-> "Deploy", token |-> "t1", ver |-> None, keys |-> {"guide", "api"}],
    [op |-> "Deploy", token |-> "t1", ver |-> "v2", keys |-> {"guide"}],
    [op |-> "CreateTeam", team |-> [key |-> "qa", leaders |-> {"ann"}, members |-> {}]],
    [op |-> "UpdateTeam", key |-> "core", patch |-> [leaders |-> {"ann"}]],
    [op |-> "AddTeamMember", key |-> "core", user |-> "ann"],
    [op |-> "RemoveTeamMember", key |-> "core", user |-> "lea"],
    [op |-> "DeleteTeam", key |-> "core"] }
  \cup {[op |-> "DeleteEntry", id |-> <<k, "faq">>] : k \in 1 .. MaxRequests - 1}

\* Sound: every property is one of safety and no request is named.
MCSymmetry == Permutations(Request)

=============================================================================
