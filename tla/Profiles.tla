------------------------------ MODULE Profiles ------------------------------
(***************************************************************************)
(* Profiles, the fleets they are assigned to, and what hangs on both:      *)
(* builds, releases, rollouts, devices and the access of a user. A handler *)
(* that edits a profile reads all of it, changes one part of its copy and  *)
(* writes the whole copy back; a handler that deletes goes through the     *)
(* tables one statement at a time, with no transaction around them, and    *)
(* every foreign key on the way is ON DELETE RESTRICT.                     *)
(***************************************************************************)
EXTENDS FiniteSets, Naturals, Sequences

CONSTANTS
  Fleets, Profiles, Builds,    \* ids; one that nothing refers to is drawn again
  Handlers,                    \* requests that the server may be processing
  MaxRequests,                 \* bound: how many are received
  None                         \* NULL, no row

ASSUME MaxRequestsAssumption == MaxRequests \in Nat

VARIABLES
  db,       \* the tables
  draft,    \* the draft of the profile wizard in the session
  req,      \* the requests in flight
  begun,    \* how many there were
  saved     \* history: what each part of a profile was last meant to be

profileVars == <<db, draft, req, begun, saved>>

-----------------------------------------------------------------------------
\* The parts of a profile; all but its fleets make up its configuration. The
\* latest revision holds the configuration: UPDATE profiles locks the row, so
\* revisions of one profile are made one after the other. Of the names it is not
\* modelled which are the same: another profile may have any.
ConfigParts == {"packages", "kernel", "security", "openclaw"}
Parts == ConfigParts \cup {"name", "raw", "imports", "fleets"}
Contents == 0..1
ProfileData == [fleets : SUBSET Fleets, name : Contents, packages : Contents, kernel : Contents,
                security : Contents, openclaw : Contents, raw : Contents, imports : Contents]
Blank == [fleets |-> {}, name |-> 0, packages |-> 0, kernel |-> 0, security |-> 0, openclaw |-> 0,
          raw |-> 0, imports |-> 0]
BuildData == [profile : Profiles, fleet : Fleets]
ASSUME NoneAssumption == None \notin Fleets \cup Profiles \cup Builds \cup ProfileData \cup BuildData

\* released: builds with a release; rollouts: builds whose release has a rollout,
\* which is to the fleet of the build (releaseBelongsToFleet); devices: fleets
\* with devices; access: what the user of the requests owns or was granted. An
\* administrator is a user with access to everything.
Tables == [fleets : SUBSET Fleets, profiles : [Profiles -> ProfileData \cup {None}],
           builds : [Builds -> BuildData \cup {None}],
           released : SUBSET Builds, rollouts : SUBSET Builds, devices : SUBSET Fleets,
           access : SUBSET (Fleets \cup Profiles)]

\* original: the profile as it was read; copy: as it is to be saved; stale: the
\* parts somebody saved in between.
Draft == [on : Profiles \cup {None}, original : ProfileData, copy : ProfileData, stale : SUBSET Parts]

\* A call a deletion has yet to make: todo is left of the list it goes through,
\* alone are the profiles on it that list one fleet.
Lists == [rolloutsIn |-> "rollouts", rolloutsOf |-> "rollouts", releasesOf |-> "releases",
          buildsIn |-> "builds", buildsOf |-> "builds", profilesIn |-> "profiles"]
Rows == {"build", "release", "profile", "devices", "fleet"}
Ids == Fleets \cup Profiles \cup Builds
IsCall(c) ==
  /\ c.do \in DOMAIN Lists \cup {Lists[l] : l \in DOMAIN Lists} \cup Rows \cup {"save"}
  /\ c.of \in Ids /\ c.todo \subseteq Ids /\ c.alone \subseteq c.todo

\* quiet: nobody else has written to the tables since the request began.
NoRequest == [step |-> "idle", on |-> None, original |-> Blank, copy |-> Blank, stale |-> {},
              fleet |-> None, wizard |-> FALSE, calls |-> <<>>, quiet |-> TRUE]
Steps == {"idle", "chat", "imports", "save", "insert", "cascade", "failed", "refused"}

Call(do, of) == [do |-> do, of |-> of, todo |-> {}, alone |-> {}]

\* Ids that nothing refers to.
Mentioned ==
  {req[h].on : h \in Handlers} \cup (IF draft = None THEN {} ELSE {draft.on})
    \cup UNION {UNION {{c.of} \cup c.todo : c \in {req[h].calls[i] : i \in DOMAIN req[h].calls}} : h \in Handlers}
Unused(ids) == ids \ (Mentioned \cup {req[h].fleet : h \in Handlers})
NewFleets == Unused(Fleets) \ db.fleets
NewProfiles == {p \in Unused(Profiles) : db.profiles[p] = None}
NewBuilds == {b \in Unused(Builds) : db.builds[b] = None}

\* What a request is checked against.
UserCanManageFleet(f) == f \in db.fleets \cap db.access
UserCanManageProfile(p) == db.profiles[p] # None /\ p \in db.access

\* The profile as the handlers read it (three statements that are one step here),
\* and the check that the user may change it.
GetProfileForEdit(p) == db.profiles[p]
resolveProfileAccessContext(p) == GetProfileForEdit(p) # None /\ UserCanManageProfile(p)
MyProfiles == {p \in Profiles : resolveProfileAccessContext(p)}

\* The fleets that a form may name, for the user has access to them.
ensureUserCanManageFleetIDs(F) == \A f \in F : UserCanManageFleet(f)
selectedFleetIDsFromForm == {F \in (SUBSET Fleets) \ {{}} : ensureUserCanManageFleetIDs(F)}

\* What the lists return, of everyone's rows; the callers skip those of others.
ListFleetsForUser == {f \in Fleets : UserCanManageFleet(f)}
ListProfiles == {p \in Profiles : db.profiles[p] # None}
ListBuilds == {b \in Builds : db.builds[b] # None}
ListReleases == db.released
ListRollouts == db.rollouts

getProfileFleetAssignments(p) == db.profiles[p].fleets

-----------------------------------------------------------------------------
\* A request is received: mine is what it is after its checks.
Receive(h, mine) ==
  /\ req[h].step = "idle" /\ begun < MaxRequests
  /\ begun' = begun + 1
  /\ req' = [req EXCEPT ![h] = mine]
  /\ UNCHANGED <<db, saved>>

Failed(h) == [NoRequest EXCEPT !.step = "failed", !.quiet = req[h].quiet]

\* Request h goes on as mine; with it, or a request of one statement (h = None),
\* the tables become new, and the parts of profile p change.
Disturbed(q, p, parts) ==
  IF q.step \in {"idle", "failed", "refused"} THEN q
  ELSE [q EXCEPT !.quiet = FALSE, !.stale = IF p # None /\ q.on = p THEN @ \cup parts ELSE @]
Write(h, mine, new, p, parts) ==
  /\ db' = new
  /\ req' = [x \in Handlers |-> IF x = h THEN mine ELSE Disturbed(req[x], p, parts)]

\* A statement that fails changes nothing but the request.
Fail(h) == req' = [req EXCEPT ![h] = Failed(h)] /\ UNCHANGED <<db, draft, saved, begun>>

\* A unique key is taken. Who brings a name or a version of their own is told so
\* (a draft of the wizard has a name, however old); for any other it is a failure.
BringsName(q) == q.step = "insert" \/ q.on = None \/ q.wizard \/ q.copy.name # q.original.name
Refuse(h) ==
  /\ req' = [req EXCEPT ![h] = IF BringsName(req[h]) THEN [NoRequest EXCEPT !.step = "refused"] ELSE Failed(h)]
  /\ UNCHANGED <<db, draft, saved, begun>>

\* The handler answers that it could not.
Answer(h) ==
  /\ req[h].step \in {"failed", "refused"}
  /\ req' = [req EXCEPT ![h] = NoRequest]
  /\ UNCHANGED <<db, draft, saved, begun>>

-----------------------------------------------------------------------------
(* Saving a profile.                                                       *)

\* The transaction of UpdateProfile: the row, its fleets, and a revision if the
\* configuration differs. Then it goes on as mine.
UpdateProfileRow(h, mine) ==
  LET p == req[h].on
      new == req[h].copy
      changed == {s \in Parts : db.profiles[p][s] # new[s]}
      meant == req[h].stale \cup {s \in Parts : req[h].original[s] # new[s]}
  IN /\ db.profiles[p] # None /\ new.fleets # {} /\ new.fleets \subseteq db.fleets
     /\ Write(h, mine, [db EXCEPT !.profiles[p] = new], p, changed)
     /\ saved' = [saved EXCEPT ![p] = [s \in Parts |-> IF s \in meant THEN new[s] ELSE @[s]]]
     /\ draft' = IF req[h].wizard THEN None
                 ELSE IF draft # None /\ draft.on = p THEN [draft EXCEPT !.stale = @ \cup changed]
                 ELSE draft
     /\ UNCHANGED begun

CannotUpdate(h) ==
  LET p == req[h].on IN db.profiles[p] = None \/ ~(req[h].copy.fleets \subseteq db.fleets)

\* A row that gets another name than it has may be refused it.
NameIsTaken(h) ==
  LET p == req[h].on IN db.profiles[p] # None /\ db.profiles[p].name # req[h].copy.name /\ Refuse(h)

Save(h) ==
  /\ req[h].step = "save" /\ req[h].on # None
  /\ UpdateProfileRow(h, NoRequest) \/ (CannotUpdate(h) /\ Fail(h)) \/ NameIsTaken(h)

\* The transaction of db.CreateProfile; the user owns the profile.
CreateProfileRow(h) ==
  /\ req[h].step = "save" /\ req[h].on = None
  /\ \/ /\ req[h].copy.fleets \subseteq db.fleets
        /\ \E p \in NewProfiles :
             /\ Write(h, NoRequest, [db EXCEPT !.profiles[p] = req[h].copy, !.access = @ \cup {p}], None, {})
             /\ saved' = [saved EXCEPT ![p] = req[h].copy]
        /\ draft' = IF req[h].wizard THEN None ELSE draft
        /\ UNCHANGED begun
     \/ ~(req[h].copy.fleets \subseteq db.fleets) /\ Fail(h)
     \/ Refuse(h)

\* The configuration with one of its parts replaced.
profileConfigWithPackages(config, v) == [config EXCEPT !.packages = v]
profileConfigWithKernel(config, v) == [config EXCEPT !.kernel = v]
profileConfigWithSecurity(config, v) == [config EXCEPT !.security = v]
profileConfigWithOpenclawMicrovmEnabled(config, v) == [config EXCEPT !.openclaw = v]

packagesFromProfileConfig(config) == config.packages

\* An edit of profile p: what it read, and what it will save.
Edit(h, p, old, new) ==
  /\ resolveProfileAccessContext(p)
  /\ Receive(h, [NoRequest EXCEPT !.step = "save", !.on = p, !.original = old, !.copy = new])
  /\ UNCHANGED draft

\* A package is added when it is not there, and removed when it is. The other
\* forms here change what they show, for saving it as it is changes nothing.
AddProfilePackage(h, p) ==
  LET old == GetProfileForEdit(p)
  IN old # None /\ packagesFromProfileConfig(old) = 0 /\ Edit(h, p, old, profileConfigWithPackages(old, 1))
RemoveProfilePackage(h, p) ==
  LET old == GetProfileForEdit(p)
  IN old # None /\ packagesFromProfileConfig(old) = 1 /\ Edit(h, p, old, profileConfigWithPackages(old, 0))

UpdateProfileKernel(h, p) ==
  LET old == GetProfileForEdit(p)
  IN old # None /\ Edit(h, p, old, profileConfigWithKernel(old, 1 - old.kernel))
UpdateProfileSecurity(h, p) ==
  LET old == GetProfileForEdit(p)
  IN old # None /\ Edit(h, p, old, profileConfigWithSecurity(old, 1 - old.security))
UpdateProfileOpenClaw(h, p) ==
  LET old == GetProfileForEdit(p)
  IN old # None /\ Edit(h, p, old, profileConfigWithOpenclawMicrovmEnabled(old, 1 - old.openclaw))
UpdateProfileRawNix(h, p) ==
  LET old == GetProfileForEdit(p)
  IN old # None /\ Edit(h, p, old, [old EXCEPT !.raw = 1 - @])
UpdateProfileForeignImports(h, p) ==
  LET old == GetProfileForEdit(p)
  IN old # None /\ Edit(h, p, old, [old EXCEPT !.imports = 1 - @])

\* The settings page.
UpdateProfile(h, p) ==
  LET old == GetProfileForEdit(p)
  IN old # None /\ \E F \in selectedFleetIDsFromForm, name \in Contents :
                     Edit(h, p, old, [old EXCEPT !.fleets = F, !.name = name])

CreateProfile(h) ==
  \E F \in selectedFleetIDsFromForm :
    Receive(h, [NoRequest EXCEPT !.step = "save", !.copy.fleets = F]) /\ UNCHANGED draft

\* The API: the fields a request may give, one of them here, and PUT the
\* configuration too.
decodeAPIProfileMutationRequest(replace) ==
  {{field} \cup (IF replace THEN {"config"} ELSE {}) : field \in {"config", "packages", "kernel", "openclaw", "raw"}}

\* The fields for single parts are put into the configuration,
applyAPIProfileMutationFields(config, fields) ==
  CASE "packages" \in fields -> profileConfigWithPackages(config, 1 - config.packages)
    [] "kernel" \in fields -> profileConfigWithKernel(config, 1 - config.kernel)
    [] "openclaw" \in fields -> profileConfigWithOpenclawMicrovmEnabled(config, 1 - config.openclaw)
    [] OTHER -> config
\* and what is no field stays as it is.
buildAPIProfileMutationInput(old, config, fields) ==
  [s \in Parts |-> IF s \in ConfigParts THEN config[s]
                   ELSE IF s = "raw" /\ "raw" \in fields THEN 1 - old.raw
                   ELSE old[s]]

\* PUT replaces the configuration, here by one that differs in every part.
buildAPIProfileReplaceInput(old, fields) ==
  buildAPIProfileMutationInput(old, applyAPIProfileMutationFields([s \in ConfigParts |-> 1 - old[s]], fields), fields)
\* PATCH merges one, here the part that has no field, into that of the profile.
buildAPIProfilePatchInput(old, fields) ==
  LET config == IF "config" \in fields THEN [old EXCEPT !.security = 1 - @] ELSE old
  IN buildAPIProfileMutationInput(old, applyAPIProfileMutationFields(config, fields), fields)

handleAPIProfileMutation(h, p, replace) ==
  LET old == GetProfileForEdit(p)
  IN /\ old # None
     /\ \E fields \in decodeAPIProfileMutationRequest(replace) :
          Edit(h, p, old, IF replace THEN buildAPIProfileReplaceInput(old, fields)
                          ELSE buildAPIProfilePatchInput(old, fields))

APIReplaceProfile(h, p) == handleAPIProfileMutation(h, p, TRUE)
APIPatchProfile(h, p) == handleAPIProfileMutation(h, p, FALSE)

-----------------------------------------------------------------------------
(* The wizard: a copy of a profile that waits in the session.              *)

\* A fresh draft; it has no room for imports.
newProfileWizardState(p) ==
  LET old == IF p = None THEN Blank ELSE [GetProfileForEdit(p) EXCEPT !.imports = 0]
  IN [on |-> p, original |-> old, copy |-> old, stale |-> {}]

profileWizardStateMismatch(p) == draft.on # p

\* A request about profile p, or about a new one, goes on with the draft in the
\* session; one of another profile gives way.
prepareProfileWizardState(p) ==
  IF draft = None \/ profileWizardStateMismatch(p) THEN newProfileWizardState(p) ELSE draft
MayUseWizard(p) == p # None => resolveProfileAccessContext(p)

\* ?reset=1 starts over.
ProfileWizardPage(p) ==
  /\ MayUseWizard(p)
  /\ draft' \in {prepareProfileWizardState(p), newProfileWizardState(p)}
  /\ UNCHANGED <<db, req, begun, saved>>

ProfileWizardDiscard(p) == MayUseWizard(p) /\ draft' = None /\ UNCHANGED <<db, req, begun, saved>>

\* The draft as it is goes to the assistant.
ProfileWizardChat(h, p) ==
  LET state == prepareProfileWizardState(p)
  IN /\ MayUseWizard(p)
     /\ Receive(h, [NoRequest EXCEPT !.step = "chat", !.on = p, !.original = state.original,
                                     !.copy = state.copy, !.stale = state.stale])
     /\ draft' = state

\* What a call of the tool makes of a draft: one part is given, the fleets are
\* any, for they are checked at the end, and
applyProfileWizardDraftUpdate(copy) ==
  {profileConfigWithPackages(copy, 1 - copy.packages), profileConfigWithKernel(copy, 1 - copy.kernel),
   profileConfigWithOpenclawMicrovmEnabled(copy, 1 - copy.openclaw), [copy EXCEPT !.raw = 1 - @],
   [copy EXCEPT !.name = 1 - @]}
    \cup {[copy EXCEPT !.fleets = F] : F \in SUBSET Fleets}
\* other tools start over or leave it as it is.
executeProfileWizardTool(original, copy) == applyProfileWizardDraftUpdate(copy) \cup {original, copy}

\* The assistant calls one tool here (more are more messages), or fails. Its
\* result goes to the session, whatever that has become.
ResolveDraft(h) ==
  LET q == req[h]
  IN /\ q.step = "chat"
     /\ \/ \E new \in executeProfileWizardTool(q.original, q.copy) :
             draft' = [on |-> q.on, original |-> q.original, copy |-> new, stale |-> q.stale]
        \/ UNCHANGED draft
     /\ req' = [req EXCEPT ![h] = NoRequest]
     /\ UNCHANGED <<db, begun, saved>>

\* A draft is complete, and its fleets are there for the user.
validateProfileWizardDraft(copy) == copy.fleets # {} /\ copy.fleets \subseteq ListFleetsForUser

ProfileWizardApply(h, p) ==
  LET state == prepareProfileWizardState(p)
  IN /\ MayUseWizard(p)
     /\ validateProfileWizardDraft(state.copy) /\ ensureUserCanManageFleetIDs(state.copy.fleets)
     /\ Receive(h, [NoRequest EXCEPT !.step = IF p = None THEN "save" ELSE "imports", !.on = p, !.wizard = TRUE,
                                     !.original = state.original, !.copy = state.copy, !.stale = state.stale])
     /\ draft' = state

\* Mutant: the draft is saved as it is.
DropImports(h) ==
  /\ req[h].step = "imports"
  /\ req' = [req EXCEPT ![h].step = "save", ![h].stale = @ \ {"imports"}]
  /\ UNCHANGED <<db, draft, begun, saved>>

\* the imports of the profile, if there is still one, are added to the draft.
PreserveImports(h) ==
  LET p == req[h].on
  IN /\ req[h].step = "imports"
     /\ req' = [req EXCEPT ![h].step = "save",
                  ![h].original.imports = IF GetProfileForEdit(p) = None THEN @ ELSE GetProfileForEdit(p).imports,
                  ![h].copy.imports = IF GetProfileForEdit(p) = None THEN @ ELSE GetProfileForEdit(p).imports,
                  ![h].stale = @ \ {"imports"}]
     /\ UNCHANGED <<db, draft, begun, saved>>

-----------------------------------------------------------------------------
(* Requests of one statement, and builds.                                  *)

Single(new) ==
  /\ begun < MaxRequests /\ begun' = begun + 1
  /\ Write(None, NoRequest, new, None, {})
  /\ UNCHANGED <<draft, saved>>

\* Rows of fleets, releases, rollouts and devices.
CreateFleet == \E f \in NewFleets : Single([db EXCEPT !.fleets = @ \cup {f}, !.access = @ \cup {f}])
CreateRelease(b) == Single([db EXCEPT !.released = @ \cup {b}])
CreateRollout(b) == Single([db EXCEPT !.rollouts = @ \cup {b}])
ClaimEnrollment == \E f \in Fleets \ db.devices : UserCanManageFleet(f) /\ Single([db EXCEPT !.devices = @ \cup {f}])

\* Access that another user gives or takes.
GrantFleetViewer(f) == Single([db EXCEPT !.access = @ \cup {f}])
RevokeFleetViewer(f) == Single([db EXCEPT !.access = @ \ {f}])
GrantProfileViewer(p) == Single([db EXCEPT !.access = @ \cup {p}])
RevokeProfileViewer(p) == Single([db EXCEPT !.access = @ \ {p}])
AddFleetUser == \E f \in db.fleets \ db.access : GrantFleetViewer(f)
RemoveFleetUser == \E f \in db.fleets \cap db.access : RevokeFleetViewer(f)
AddProfileUser == \E p \in ListProfiles \ db.access : GrantProfileViewer(p)
RemoveProfileUser == \E p \in ListProfiles \cap db.access : RevokeProfileViewer(p)

\* Releases and rollouts of the builds of a profile.
CreateProfileRelease(p) ==
  /\ resolveProfileAccessContext(p)
  /\ \E b \in ListBuilds \ db.released : db.builds[b].profile = p /\ CreateRelease(b)
CreateProfileRollout(p) ==
  /\ resolveProfileAccessContext(p)
  /\ \E b \in db.released \ db.rollouts :
       /\ db.builds[b].profile = p /\ ensureUserCanManageFleetIDs({db.builds[b].fleet})
       /\ CreateRollout(b)
DeleteProfileRollout(p) ==
  /\ resolveProfileAccessContext(p)
  /\ \E b \in db.rollouts : db.builds[b].profile = p /\ Single([db EXCEPT !.rollouts = @ \ {b}])

\* The profile, the fleet and that one is assigned to the other are checked,
fleetsAssignedToProfile(p) == getProfileFleetAssignments(p) \cap ListFleetsForUser
CreateProfileBuild(h, p, f) ==
  /\ resolveProfileAccessContext(p) /\ f \in fleetsAssignedToProfile(p)
  /\ Receive(h, [NoRequest EXCEPT !.step = "insert", !.on = p, !.fleet = f])
  /\ UNCHANGED draft

\* and once more; then the row refers to the latest revision and to the fleet. A
\* build of the same two may be of the same revision and version, and not have failed.
CreateBuild(h) ==
  LET p == req[h].on
      f == req[h].fleet
  IN /\ req[h].step = "insert"
     /\ \/ /\ db.profiles[p] # None /\ f \in db.fleets
           /\ \E b \in NewBuilds :
                Write(h, NoRequest, [db EXCEPT !.builds[b] = [profile |-> p, fleet |-> f]], None, {})
           /\ UNCHANGED <<draft, saved, begun>>
        \/ (db.profiles[p] = None \/ f \notin db.fleets) /\ Fail(h)
        \/ db.profiles[p] # None /\ f \notin getProfileFleetAssignments(p) /\ Fail(h)
        \/ (\E b \in ListBuilds : db.builds[b] = [profile |-> p, fleet |-> f]) /\ Refuse(h)

-----------------------------------------------------------------------------
(* Deletions: the calls that are left, the next one first.                 *)

\* Mutant: the builds go with the profiles.
ProfilesOfFleetFirst(f) ==
  <<Call("rolloutsIn", f), Call("profilesIn", f), Call("devices", f), Call("fleet", f)>>

deleteFleetCascade(f) ==
  <<Call("rolloutsIn", f), Call("buildsIn", f), Call("profilesIn", f), Call("devices", f), Call("fleet", f)>>
deleteProfileCascade(p) == <<Call("buildsOf", p), Call("profile", p)>>
deleteBuildCascade(b) == <<Call("releasesOf", b), Call("build", b)>>
deleteReleaseCascade(b) == <<Call("rolloutsOf", b), Call("release", b)>>

Delete(h, calls) == Receive(h, [NoRequest EXCEPT !.step = "cascade", !.calls = calls]) /\ UNCHANGED draft

DeleteFleet(h) == \E f \in Fleets : UserCanManageFleet(f) /\ Delete(h, deleteFleetCascade(f))
DeleteProfile(h) == \E p \in MyProfiles : Delete(h, deleteProfileCascade(p))
DeleteProfileBuild(h) ==
  \E b \in Builds :
    db.builds[b] # None /\ db.builds[b].profile \in MyProfiles /\ Delete(h, deleteBuildCascade(b))
DeleteProfileRelease(h) ==
  \E b \in db.released : db.builds[b].profile \in MyProfiles /\ Delete(h, deleteReleaseCascade(b))

\* The rows of a list that the caller does not skip.
Listed(do, x) ==
  CASE do = "rolloutsIn" -> {b \in ListRollouts : db.builds[b].fleet = x}
    [] do = "rolloutsOf" -> {b \in ListRollouts : b = x}
    [] do = "releasesOf" -> {b \in ListReleases : b = x}
    [] do = "buildsIn" -> {b \in ListBuilds : db.builds[b].fleet = x}
    [] do = "buildsOf" -> {b \in ListBuilds : db.builds[b].profile = x}
    [] do = "profilesIn" -> {p \in ListProfiles : x \in getProfileFleetAssignments(p)}

Alone(p) == Cardinality(getProfileFleetAssignments(p)) <= 1

\* A loop over what a list holds; an empty one is over.
Loop(c, rest) == IF c.todo = {} THEN rest ELSE <<c>> \o rest
ListThen(c, rest) ==
  LET rows == Listed(c.do, c.of)
  IN Loop([do |-> Lists[c.do], of |-> c.of, todo |-> rows,
           alone |-> IF c.do = "profilesIn" THEN {p \in rows : Alone(p)} ELSE {}], rest)

\* The request when these calls are left.
Left(h, calls) == IF calls = <<>> THEN NoRequest
                  ELSE [NoRequest EXCEPT !.step = "cascade", !.calls = calls, !.quiet = req[h].quiet]
GoOn(h, calls) == req' = [req EXCEPT ![h] = Left(h, calls)] /\ UNCHANGED <<db, draft, saved, begun>>

Top(h) == Head(req[h].calls)
Rest(h) == Tail(req[h].calls)
Others(h, x) == Loop([Top(h) EXCEPT !.todo = @ \ {x}, !.alone = @ \ {x}], Rest(h))
At(h, do) == req[h].step = "cascade" /\ Top(h).do = do

List(h) == req[h].step = "cascade" /\ Top(h).do \in DOMAIN Lists /\ GoOn(h, ListThen(Top(h), Rest(h)))

\* One statement that deletes a row: there must be one, and nothing may refer to it.
Remove(h, possible, new, rest) ==
  \/ /\ possible
     /\ Write(h, Left(h, rest), new, None, {})
     /\ saved' = [p \in Profiles |-> IF new.profiles[p] = None THEN None ELSE saved[p]]
     /\ UNCHANGED <<draft, begun>>
  \/ ~possible /\ Fail(h)

DeleteRollout(h) ==
  /\ At(h, "rollouts")
  /\ \E b \in Top(h).todo : Remove(h, b \in db.rollouts, [db EXCEPT !.rollouts = @ \ {b}], Others(h, b))

EachRelease(h) ==
  /\ At(h, "releases")
  /\ \E b \in Top(h).todo : GoOn(h, ListThen(Call("rolloutsOf", b), <<Call("release", b)>> \o Others(h, b)))

EachBuild(h) ==
  /\ At(h, "builds")
  /\ \E b \in Top(h).todo : GoOn(h, ListThen(Call("releasesOf", b), <<Call("build", b)>> \o Others(h, b)))

removeString(values, target) == values \ {target}

\* A profile with other fleets is read again and saved without this one.
EachProfile(h) ==
  LET f == Top(h).of
      Remaining(p) == removeString(GetProfileForEdit(p).fleets, f)
      DeleteIt(p) == GoOn(h, ListThen(Call("buildsOf", p), <<Call("profile", p)>> \o Others(h, p)))
  IN /\ At(h, "profiles")
     /\ \E p \in Top(h).todo :
          \/ p \in Top(h).alone /\ DeleteIt(p)
          \/ p \notin Top(h).alone /\ db.profiles[p] = None /\ Fail(h)
          \/ /\ p \notin Top(h).alone /\ db.profiles[p] # None /\ Remaining(p) = {}
             /\ GoOn(h, deleteProfileCascade(p) \o Others(h, p))
          \/ /\ p \notin Top(h).alone /\ db.profiles[p] # None /\ Remaining(p) # {}
             /\ req' = [req EXCEPT ![h] =
                  [Left(h, <<Call("save", f)>> \o Others(h, p)) EXCEPT
                     !.on = p, !.original = GetProfileForEdit(p),
                     !.copy = [GetProfileForEdit(p) EXCEPT !.fleets = removeString(@, f)]]]
             /\ UNCHANGED <<db, draft, saved, begun>>

SaveWithoutFleet(h) ==
  /\ At(h, "save")
  /\ UpdateProfileRow(h, Left(h, Rest(h))) \/ (CannotUpdate(h) /\ Fail(h)) \/ NameIsTaken(h)

DeleteReleaseRow(h) ==
  LET b == Top(h).of
  IN /\ At(h, "release")
     /\ Remove(h, b \in db.released /\ b \notin db.rollouts, [db EXCEPT !.released = @ \ {b}], Rest(h))

DeleteBuildRow(h) ==
  LET b == Top(h).of
  IN /\ At(h, "build")
     /\ Remove(h, db.builds[b] # None /\ b \notin db.released, [db EXCEPT !.builds[b] = None], Rest(h))

DeleteProfileRow(h) ==
  LET p == Top(h).of
  IN /\ At(h, "profile")
     /\ Remove(h, db.profiles[p] # None /\ Listed("buildsOf", p) = {},
               [db EXCEPT !.profiles[p] = None, !.access = @ \ {p}], Rest(h))

DeleteDevicesByFleet(h) ==
  At(h, "devices") /\ Remove(h, TRUE, [db EXCEPT !.devices = @ \ {Top(h).of}], Rest(h))

DeleteFleetRow(h) ==
  LET f == Top(h).of
  IN /\ At(h, "fleet")
     /\ Remove(h, f \in db.fleets \ db.devices /\ Listed("profilesIn", f) = {} /\ Listed("buildsIn", f) = {},
               [db EXCEPT !.fleets = @ \ {f}, !.access = @ \ {f}], Rest(h))

-----------------------------------------------------------------------------
\* A database that others have filled: profiles without a fleet are not there, and
\* builds of a fleet the profile has since left are.
ProfileInit ==
  /\ \E assigned \in [Profiles -> SUBSET Fleets], built \in [Builds -> (Profiles \X Fleets) \cup {None}],
        R \in SUBSET Builds, O \in SUBSET Builds, D \in SUBSET Fleets :
       /\ \A b \in Builds : built[b] # None => assigned[built[b][1]] # {}
       /\ R \subseteq {b \in Builds : built[b] # None} /\ O \subseteq R
       /\ db = [fleets |-> Fleets,
                profiles |-> [p \in Profiles |-> IF assigned[p] = {} THEN None
                                                 ELSE [Blank EXCEPT !.fleets = assigned[p], !.imports = 1]],
                builds |-> [b \in Builds |-> IF built[b] = None THEN None
                                             ELSE [profile |-> built[b][1], fleet |-> built[b][2]]],
                released |-> R, rollouts |-> O, devices |-> D,
                access |-> Fleets \cup {p \in Profiles : assigned[p] # {}}]
  /\ saved = db.profiles
  /\ draft = None /\ begun = 0
  /\ req = [h \in Handlers |-> NoRequest]

Saving(h) == Save(h) \/ CreateProfileRow(h) \/ PreserveImports(h) \/ ResolveDraft(h) \/ CreateBuild(h)
Deleting(h) ==
  \/ List(h) \/ EachRelease(h) \/ EachBuild(h) \/ EachProfile(h) \/ SaveWithoutFleet(h)
  \/ DeleteRollout(h) \/ DeleteReleaseRow(h) \/ DeleteBuildRow(h) \/ DeleteProfileRow(h)
  \/ DeleteDevicesByFleet(h) \/ DeleteFleetRow(h)

ProfileNext ==
  \/ \E h \in Handlers, p \in Profiles :
       \/ AddProfilePackage(h, p) \/ RemoveProfilePackage(h, p) \/ UpdateProfileKernel(h, p)
       \/ UpdateProfileSecurity(h, p) \/ UpdateProfileOpenClaw(h, p) \/ UpdateProfileRawNix(h, p)
       \/ UpdateProfileForeignImports(h, p) \/ UpdateProfile(h, p)
       \/ APIReplaceProfile(h, p) \/ APIPatchProfile(h, p)
       \/ \E f \in Fleets : CreateProfileBuild(h, p, f)
  \/ \E h \in Handlers :
       \/ CreateProfile(h)
       \/ \E p \in Profiles \cup {None} : ProfileWizardChat(h, p) \/ ProfileWizardApply(h, p)
       \/ DeleteFleet(h) \/ DeleteProfile(h) \/ DeleteProfileBuild(h) \/ DeleteProfileRelease(h)
       \/ Saving(h) \/ Deleting(h) \/ Answer(h)
  \/ \E p \in Profiles \cup {None} : ProfileWizardPage(p) \/ ProfileWizardDiscard(p)
  \/ \E p \in Profiles : CreateProfileRelease(p) \/ CreateProfileRollout(p) \/ DeleteProfileRollout(p)
  \/ CreateFleet \/ ClaimEnrollment
  \/ AddFleetUser \/ RemoveFleetUser \/ AddProfileUser \/ RemoveProfileUser

-----------------------------------------------------------------------------
\* Types of the state above, and the foreign keys of the tables.
ProfileTypeOK ==
  /\ db.fleets \subseteq Fleets /\ db.devices \subseteq db.fleets
  /\ \A p \in Profiles :
       db.profiles[p] # None => db.profiles[p] \in ProfileData /\ db.profiles[p].fleets \subseteq db.fleets
  /\ \A b \in Builds :
       db.builds[b] # None => db.builds[b].fleet \in db.fleets /\ db.profiles[db.builds[b].profile] # None
  /\ db.rollouts \subseteq db.released /\ \A b \in db.released : db.builds[b] # None
  /\ db.access \subseteq db.fleets \cup {p \in Profiles : db.profiles[p] # None}
  /\ draft = None \/ draft \in Draft
  /\ begun \in 0..MaxRequests
  /\ \A h \in Handlers :
       /\ req[h].step \in Steps /\ req[h].on \in Profiles \cup {None} /\ req[h].copy \in ProfileData
       /\ req[h].original \in ProfileData /\ req[h].stale \subseteq Parts
       /\ \A i \in DOMAIN req[h].calls : IsCall(req[h].calls[i])

\* A request that nobody disturbed does not fail on its way, unless it brings a name
\* or a version that is taken: whatever history the rows have, with builds in fleets
\* their profile has left and profiles in several fleets, a deletion goes through the
\* tables in an order the foreign keys allow, and the profiles it saves keep their
\* names. Deletions that failed half-way can therefore be repeated. About
\* deleteFleetCascade and the others, and the rows and fleets that UpdateProfile,
\* CreateProfile and CreateBuild need.
NoQuietFailure == \A h \in Handlers : req[h].step = "failed" => ~req[h].quiet

\* A save changes the parts it is about, and may undo what others saved after its
\* copy was read (their edits are lost), but touches nothing else: a part that nobody
\* saved meanwhile stays as it is, even with the wizard, whose drafts have no imports,
\* and the deletion of a fleet. About every handler that calls UpdateProfile.
EditSurvives == \A p \in Profiles : db.profiles[p] = saved[p]

=============================================================================
