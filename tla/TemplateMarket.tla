--------------------------- MODULE TemplateMarket ---------------------------
(***************************************************************************)
(* Workflow templates: the marketplace tables (pkg/registry/                *)
(* workflow_marketplace.go) behind /v1/workflows/marketplace, the version   *)
(* store of unagnt workflow template, the seeding command, and the          *)
(* templates read from examples/workflows/templates (pkg/workflow/          *)
(* templates.go).  Several clients rate, install and publish at once; an    *)
(* installation reads the template and counts the download in two           *)
(* statements.                                                              *)
(***************************************************************************)
EXTENDS Naturals, Sequences, SequencesExt, FiniteSets, FiniteSetsExt

CONSTANTS TemplateFiles,  \* what the template directory may hold: see TemplateShape
          Installers,
          VersionNames,   \* versions a template may be published under
          MaxTemplates, MaxRatings, MaxInstalls, MaxVersions

VARIABLES market,         \* rows of workflow_templates: [name, rating, count, downloads]
          rated,          \* row |-> the ratings accepted for it
          installing,     \* installer |-> row it has read, 0 when idle
          installsOK, installsFailed,
          versionRows,    \* rows of workflow_versions, oldest first: [name, version]
          instance        \* the last template create: [ok, bound]

marketVars == <<market, rated, installing, installsOK, installsFailed, versionRows, instance>>

NoTemplate == [name |-> "none", version |-> "none", params |-> <<>>, workflow |-> FALSE]
ParamFields == {"name", "type", "required", "default"}

ASSUME TemplateShape ==
  \A t \in TemplateFiles :
    DOMAIN t = DOMAIN NoTemplate /\ \A i \in DOMAIN t.params : DOMAIN t.params[i] = ParamFields

MarketInit ==
  /\ market = <<>> /\ rated = <<>> /\ installing = [i \in Installers |-> 0]
  /\ installsOK = 0 /\ installsFailed = 0 /\ versionRows = <<>>
  /\ instance = [ok |-> TRUE, bound |-> {}]

\* One row per publication: the id is a fresh UUID, so publishing again, or seeding
\* again, adds another row.
Publish(name) ==
  /\ Len(market) < MaxTemplates
  /\ market' = Append(market, [name |-> name, rating |-> <<0, 1>>, count |-> 0, downloads |-> 0])
  /\ rated' = Append(rated, <<>>)
  /\ UNCHANGED <<installing, installsOK, installsFailed, versionRows, instance>>

\* POST /v1/workflows/marketplace takes any name; the seeding command takes the files.
PublishTemplate == Publish("posted")

SeedTemplates(t) == Publish(t.name)

\* Mutant: the count is raised before the mean is taken.
NewMeanLate(row, r) ==
  <<row.rating[1] * (row.count + 1) + r * row.rating[2], row.rating[2] * (row.count + 2)>>

\* (rating * rating_count + r) / (rating_count + 1), with the values before the update.
NewMean(row, r) ==
  <<row.rating[1] * row.count + r * row.rating[2], row.rating[2] * (row.count + 1)>>

\* In lowest terms.
Lowest(q) ==
  LET d == CHOOSE d \in 1 .. q[2] : /\ q[1] % d = 0 /\ q[2] % d = 0
                                    /\ \A e \in 1 .. q[2] : q[1] % e = 0 /\ q[2] % e = 0 => e <= d
  IN <<q[1] \div d, q[2] \div d>>

\* POST .../rate: out of range is refused; one UPDATE changes mean and count.
RateTemplate(k, r) ==
  /\ k \in DOMAIN market /\ r \in 1 .. 5 /\ Len(FlattenSeq(rated)) < MaxRatings
  /\ market' = [market EXCEPT ![k].rating = Lowest(NewMean(market[k], r)), ![k].count = @ + 1]
  /\ rated' = [rated EXCEPT ![k] = Append(@, r)]
  /\ UNCHANGED <<installing, installsOK, installsFailed, versionRows, instance>>

\* POST .../install reads the template ...
InstallTemplate(i, k) ==
  /\ installing[i] = 0 /\ k \in DOMAIN market /\ installsOK + installsFailed < MaxInstalls
  /\ installing' = [installing EXCEPT ![i] = k]
  /\ UNCHANGED <<market, rated, installsOK, installsFailed, versionRows, instance>>

\* ... and counts it; when that fails the client gets an error and no template.
IncrementDownloads(i, ok) ==
  /\ installing[i] # 0 /\ installing' = [installing EXCEPT ![i] = 0]
  /\ market' = IF ok THEN [market EXCEPT ![installing[i]].downloads = @ + 1] ELSE market
  /\ installsOK' = IF ok THEN installsOK + 1 ELSE installsOK
  /\ installsFailed' = IF ok THEN installsFailed ELSE installsFailed + 1
  /\ UNCHANGED <<rated, versionRows, instance>>

\* ORDER BY downloads DESC, rating DESC; ties in any order.  Search, GetPopular,
\* GetByCategory and the list handler differ in their filter and limit only.
Before(a, b) ==
  \/ a.downloads > b.downloads
  \/ a.downloads = b.downloads /\ a.rating[1] * b.rating[2] > b.rating[1] * a.rating[2]
Search(limit) ==
  LET sorted == SortSeq([k \in DOMAIN market |-> k], LAMBDA x, y : Before(market[x], market[y]))
  IN SubSeq(sorted, 1, IF limit < Len(sorted) THEN limit ELSE Len(sorted))

ParamTypes == {"string", "int", "bool", "list", "map"}

ValidateTemplate(t) ==
  /\ t.name # "" /\ t.workflow
  /\ \A i \in DOMAIN t.params : t.params[i].name # "" /\ t.params[i].type \in ParamTypes
  /\ \A i, j \in DOMAIN t.params : t.params[i].name = t.params[j].name => i = j

\* UNIQUE(workflow_name, version).
VersionFree(name, version) ==
  \A i \in DOMAIN versionRows : versionRows[i] # [name |-> name, version |-> version]

\* template publish: validated, the version from the flag or from the file.
PublishWorkflowVersion(t, flag) ==
  LET v == IF flag # "" THEN flag ELSE t.version
  IN /\ ValidateTemplate(t) /\ v # "" /\ VersionFree(t.name, v) /\ Len(versionRows) < MaxVersions
     /\ versionRows' = Append(versionRows, [name |-> t.name, version |-> v])
     /\ UNCHANGED <<market, rated, installing, installsOK, installsFailed, instance>>

\* template versions, newest first; GetWorkflowVersion finds one of them.
ListWorkflowVersions(name) == Reverse(SelectSeq(versionRows, LAMBDA r : r.name = name))
GetWorkflowVersion(name, version) == ~VersionFree(name, version)

\* The embedded templates by name; of two files with one name the later one stays.
LoadEmbeddedTemplates(files) ==
  [n \in {files[i].name : i \in DOMAIN files} |->
     files[Max({i \in DOMAIN files : files[i].name = n})]]

\* The parameters that have a value: the ones given, and the required ones' defaults.
Bound(t, given) ==
  given \cup {t.params[i].name : i \in {j \in DOMAIN t.params : t.params[j].required /\ t.params[j].default}}

\* Instantiate fails on a required parameter without a value.
MissingParam(t, given) ==
  \E i \in DOMAIN t.params : /\ t.params[i].required /\ ~t.params[i].default
                             /\ t.params[i].name \notin given

\* template create, from the files of the directory.
CreateFromTemplate(files, name, given) ==
  LET lib == LoadEmbeddedTemplates(files)
  IN /\ instance' = IF name \notin DOMAIN lib \/ (name \in DOMAIN lib /\ MissingParam(lib[name], given))
                    THEN [ok |-> FALSE, bound |-> {}]
                    ELSE [ok |-> TRUE, bound |-> Bound(lib[name], given)]
     /\ UNCHANGED <<market, rated, installing, installsOK, installsFailed, versionRows>>

MarketNext ==
  \/ PublishTemplate
  \/ \E t \in TemplateFiles : SeedTemplates(t)
  \/ \E k \in 1 .. MaxTemplates, r \in {1, 5} : RateTemplate(k, r)
  \/ \E i \in Installers, k \in 1 .. MaxTemplates : InstallTemplate(i, k)
  \/ \E i \in Installers, ok \in BOOLEAN : IncrementDownloads(i, ok)
  \/ \E t \in TemplateFiles, flag \in VersionNames \cup {""} : PublishWorkflowVersion(t, flag)
  \/ \E s, t \in TemplateFiles, given \in SUBSET {"p"} :
       CreateFromTemplate(<<s, t>>, s.name, given)

-----------------------------------------------------------------------------
\* The marketplace's running figures are the true ones after any interleaving of ratings
\* and installations: the stored mean times the count is the sum of the ratings, the
\* downloads are the installations that were answered, a listing is sorted by them, and
\* each version published is listed once.
MarketAccounts ==
  /\ \A k \in DOMAIN market :
       /\ market[k].count = Len(rated[k])
       /\ market[k].rating[1] * market[k].count
            = FoldSeq(LAMBDA a, b : a + b, 0, rated[k]) * market[k].rating[2]
  /\ FoldSeq(LAMBDA row, n : row.downloads + n, 0, market) = installsOK
  /\ LET found == Search(50)
     IN \A i, j \in DOMAIN found : i < j => ~Before(market[found[j]], market[found[i]])
  /\ \A t \in TemplateFiles :
       LET l == ListWorkflowVersions(t.name)
       IN \A v \in VersionNames :
            GetWorkflowVersion(t.name, v) <=> Cardinality({i \in DOMAIN l : l[i].version = v}) = 1
=============================================================================
