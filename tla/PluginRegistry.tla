--------------------------- MODULE PluginRegistry ---------------------------
(***************************************************************************)
(* The plugin registry behind /v1/plugins (pkg/registry).  A publication    *)
(* is checked, its artifact is written to a file, and then its row is       *)
(* inserted or updated; a review is inserted and then the plugin's rating   *)
(* is recomputed.  Neither pair is one transaction, several requests are    *)
(* served at once, each statement may fail, and the server may stop between *)
(* two of them.  Reads name columns of the plugins table, so whether they   *)
(* answer depends on the columns migration 009 creates.                     *)
(***************************************************************************)
EXTENDS Naturals, Sequences, SequencesExt, FiniteSets, Functions

CONSTANTS PluginIds,
          Uploads,        \* what the publishers send: see UploadShape
          Publishers, Reviewers,
          MaxPermissions, MaxReviews, MaxPublished, MaxStops

VARIABLES pluginRows,     \* id |-> row of plugins, NoRow when there is none
          artifacts,      \* paths <<id, version>> of the files written
          reviews,        \* id |-> ratings of plugin_reviews, oldest first
          publishing,     \* publisher |-> [pc, up]
          reviewing,      \* reviewer |-> [pc, id]
          reviewStale,    \* ids whose rating missed an update (failure or stop)
          published, registryStops, pluginAnswer

regVars == <<pluginRows, artifacts, reviews, publishing, reviewing, reviewStale,
             published, registryStops, pluginAnswer>>

NoPath == <<"none", "none">>
NoRow == [name |-> "none", version |-> "none", artifact |-> NoPath, rating |-> <<0, 0>>,
          downloads |-> 0]
NoUpload == [id |-> "none", name |-> "none", version |-> "none", complete |-> FALSE,
             permissions |-> {}, checksum |-> FALSE, bytes |-> FALSE]
Stored(id) == pluginRows[id].name # "none"

ASSUME UploadShape == \A u \in Uploads : DOMAIN u = DOMAIN NoUpload /\ u.id \in PluginIds

\* The permissions a plugin may ask for, and the ones the default configuration allows.
ValidPermissions == {"network", "file:read", "file:write", "file:exec", "env:read",
                     "env:write", "database", "api", "secrets"}
AllowedPermissions == {"network", "file:read", "env:read", "database", "api"}

RegInit ==
  /\ pluginRows = [id \in PluginIds |-> NoRow] /\ artifacts = {}
  /\ reviews = [id \in PluginIds |-> <<>>]
  /\ publishing = [p \in Publishers |-> [pc |-> "idle", up |-> NoUpload]]
  /\ reviewing = [r \in Reviewers |-> [pc |-> "idle", id |-> "none"]]
  /\ reviewStale = {} /\ published = 0 /\ registryStops = 0
  /\ pluginAnswer = [code |-> 0, n |-> 0]

\* The security validator: errors make an upload invalid, warnings do not.
Validate(u) ==
  /\ Cardinality(u.permissions) <= MaxPermissions
  /\ u.permissions \subseteq AllowedPermissions
  /\ u.checksum

\* The registry's own check of the same metadata.
ValidateMetadata(u) == u.complete /\ u.permissions \subseteq ValidPermissions

\* POST /v1/plugins up to the first write.
PublishPlugin(p, u) ==
  /\ publishing[p].pc = "idle" /\ published < MaxPublished
  /\ published' = published + 1
  /\ publishing' = IF ~Validate(u) \/ ~ValidateMetadata(u) THEN publishing
                   ELSE [publishing EXCEPT ![p] = [pc |-> IF u.bytes THEN "file" ELSE "row",
                                                   up |-> u]]
  /\ UNCHANGED <<pluginRows, artifacts, reviews, reviewing, reviewStale, registryStops,
                 pluginAnswer>>

\* Mutant: the row is stored before the file is written.
StoreOrderRowFirst(u, pc) == IF pc = "file" THEN "row" ELSE "file"

\* What storePlugin does at each of its two steps.
StoreOrder(u, pc) == pc

\* The insert; an existing id keeps its name, version, downloads and rating.  The
\* pair (name, version) is unique over the table.
Upserted(u) ==
  [pluginRows EXCEPT ![u.id] =
     [(IF Stored(u.id) THEN @ ELSE [NoRow EXCEPT !.name = u.name, !.version = u.version])
        EXCEPT !.artifact = IF u.bytes THEN <<u.id, u.version>> ELSE NoPath]]

NameTaken(u) ==
  \E id \in PluginIds \ {u.id} :
    pluginRows[id].name = u.name /\ pluginRows[id].version = u.version

\* One of the two writes of storePlugin, and whether it works.
StorePlugin(p, ok) ==
  LET u == publishing[p].up
      step == StoreOrder(u, publishing[p].pc)
  IN /\ publishing[p].pc \in {"file", "row"}
     /\ artifacts' = IF step = "file" /\ ok THEN artifacts \cup {<<u.id, u.version>>} ELSE artifacts
     /\ step = "row" /\ NameTaken(u) => ~ok
     /\ pluginRows' = IF step = "row" /\ ok THEN Upserted(u) ELSE pluginRows
     /\ publishing' = [publishing EXCEPT ![p] = IF publishing[p].pc = "file" /\ ok
                                                THEN [@ EXCEPT !.pc = "row"]
                                                ELSE [pc |-> "idle", up |-> NoUpload]]
     /\ UNCHANGED <<reviews, reviewing, reviewStale, published, registryStops, pluginAnswer>>

Reviewed == FoldFunction(LAMBDA s, n : n + Len(s), 0, reviews)

\* POST /v1/plugins/{id}/reviews: a rating out of range or a failed insert ends it.
\* plugin_id refers to plugins, but the connection does not enforce foreign keys.
AddReview(r, id, rating) ==
  /\ reviewing[r].pc = "idle" /\ rating \in 1 .. 5 /\ Reviewed < MaxReviews
  /\ reviews' = [reviews EXCEPT ![id] = Append(@, rating)]
  /\ reviewing' = [reviewing EXCEPT ![r] = [pc |-> "update", id |-> id]]
  /\ UNCHANGED <<pluginRows, artifacts, publishing, reviewStale, published, registryStops,
                 pluginAnswer>>

SumOf(s) == FoldSeq(LAMBDA a, b : a + b, 0, s)

\* Mutant: the new rating is averaged into the old one.
NewRatingRunning(id) ==
  LET old == pluginRows[id].rating
  IN <<old[1] + Last(reviews[id]), old[2] + 1>>

\* AVG(rating) over the plugin's reviews, as <<sum, count>>.
NewRating(id) == <<SumOf(reviews[id]), Len(reviews[id])>>

\* The second statement of a review.
UpdatePluginRating(r, ok) ==
  LET id == reviewing[r].id
  IN /\ reviewing[r].pc = "update"
     /\ pluginRows' = IF ok /\ Stored(id) THEN [pluginRows EXCEPT ![id].rating = NewRating(id)]
                      ELSE pluginRows
     /\ reviewStale' = IF ok /\ Stored(id) THEN reviewStale \ {id} ELSE reviewStale \cup {id}
     /\ reviewing' = [reviewing EXCEPT ![r] = [pc |-> "idle", id |-> "none"]]
     /\ UNCHANGED <<artifacts, reviews, publishing, published, registryStops, pluginAnswer>>

\* The columns migration 009 gives the table.
PluginColumns == {"id", "name", "version", "author", "type", "metadata", "artifact_url",
                  "downloads", "rating", "published_at", "updated_at"}

\* A query answers only when every column it names exists.
Selects(columns) == columns \subseteq PluginColumns

GetColumns == {"id", "name", "version", "author", "description", "type", "runtime", "license",
               "repository", "permissions", "checksum", "signature", "created_at", "updated_at"}
StatsColumns == {"plugin_id", "downloads", "rating"}
SearchColumns == GetColumns \ {"signature", "updated_at"}

Get(id) == Selects(GetColumns) /\ Stored(id)
GetStats(id) == Selects(StatsColumns) /\ Stored(id)

\* The newest reviews first, at most limit of them.
GetReviews(id, limit) ==
  SubSeq(Reverse(reviews[id]), 1, IF limit < Len(reviews[id]) THEN limit ELSE Len(reviews[id]))

GetPlugin(id) ==
  /\ pluginAnswer' = [code |-> IF Get(id) THEN 200 ELSE 404, n |-> 0]
  /\ UNCHANGED <<pluginRows, artifacts, reviews, publishing, reviewing, reviewStale, published,
                 registryStops>>

\* The download counts before it streams; artifact_url is not among the columns Get
\* reads, so the body is empty.
DownloadPlugin(id) ==
  /\ pluginAnswer' = [code |-> IF Get(id) THEN 200 ELSE 404, n |-> 0]
  /\ pluginRows' = IF Get(id) THEN [pluginRows EXCEPT ![id].downloads = @ + 1] ELSE pluginRows
  /\ UNCHANGED <<artifacts, reviews, publishing, reviewing, reviewStale, published, registryStops>>

PluginStats(id) ==
  /\ pluginAnswer' = [code |-> IF GetStats(id) THEN 200 ELSE 404,
                      n |-> IF GetStats(id) THEN Len(reviews[id]) ELSE 0]
  /\ UNCHANGED <<pluginRows, artifacts, reviews, publishing, reviewing, reviewStale, published,
                 registryStops>>

ListReviews(id, limit) ==
  /\ pluginAnswer' = [code |-> 200, n |-> Len(GetReviews(id, limit))]
  /\ UNCHANGED <<pluginRows, artifacts, reviews, publishing, reviewing, reviewStale, published,
                 registryStops>>

ListPlugins ==
  /\ pluginAnswer' = IF Selects(SearchColumns)
                     THEN [code |-> 200, n |-> Cardinality({id \in PluginIds : Stored(id)})]
                     ELSE [code |-> 500, n |-> 0]
  /\ UNCHANGED <<pluginRows, artifacts, reviews, publishing, reviewing, reviewStale, published,
                 registryStops>>

\* The server stops: requests under way are gone, files and rows stay.
RegistryStop ==
  /\ registryStops < MaxStops /\ registryStops' = registryStops + 1
  /\ publishing' = [p \in Publishers |-> [pc |-> "idle", up |-> NoUpload]]
  /\ reviewStale' = reviewStale \cup {reviewing[r].id : r \in {x \in Reviewers :
                                                               reviewing[x].pc = "update"}}
  /\ reviewing' = [r \in Reviewers |-> [pc |-> "idle", id |-> "none"]]
  /\ UNCHANGED <<pluginRows, artifacts, reviews, published, pluginAnswer>>

RegNext ==
  \/ \E p \in Publishers, u \in Uploads : PublishPlugin(p, u)
  \/ \E p \in Publishers, ok \in BOOLEAN : StorePlugin(p, ok)
  \/ \E r \in Reviewers, id \in PluginIds, rating \in {1, 5} : AddReview(r, id, rating)
  \/ \E r \in Reviewers, ok \in BOOLEAN : UpdatePluginRating(r, ok)
  \/ \E id \in PluginIds : GetPlugin(id) \/ DownloadPlugin(id) \/ PluginStats(id)
  \/ \E id \in PluginIds, limit \in {1, 50} : ListReviews(id, limit)
  \/ ListPlugins
  \/ RegistryStop

-----------------------------------------------------------------------------
\* A row that names an artifact names a file that was written for that plugin, however
\* publications, failures and stops interleave: storePlugin writes the file first.
RowHasArtifact ==
  \A id \in PluginIds : LET a == pluginRows[id].artifact
                        IN a # NoPath => a \in artifacts /\ a[1] = id

\* Two reviews at once do not lose one another: once every review of a plugin that was
\* inserted has run its second statement, the rating is the average of all of them.
\* The exceptions are the ones the code leaves: the update failed, the server stopped
\* before it, or the reviews came before the plugin was published.
RatingIsAverage ==
  \A id \in PluginIds :
    (Stored(id) /\ id \notin reviewStale /\ \A r \in Reviewers : reviewing[r].id # id)
       => pluginRows[id].rating = <<SumOf(reviews[id]), Len(reviews[id])>>

\* The rows of the registry agree with what they sum up: the artifact named is on disk
\* and the rating is the average of the reviews.
RegistryConsistent == RowHasArtifact /\ RatingIsAverage
=============================================================================
