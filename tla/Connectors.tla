------------------------------- MODULE Connectors ------------------------------
(***************************************************************************)
(* What the connectors of integrations/ that keep a timestamp for a cursor *)
(* make of a cursor and of an answer of their provider.  A container is a  *)
(* Slack channel, a GitHub repository or a Jira site; Notion and Zendesk   *)
(* are read as a whole.  The answers told apart are those a branch of the  *)
(* code depends on:                                                        *)
(*   ok        a page of items                                             *)
(*   auth      HTTP 401, or one of Slack's auth errors                     *)
(*   refused   HTTP 403 that is no rate limit, GitHub's 404 and 410, Slack's *)
(*             not_in_channel                                              *)
(*   limited   HTTP 429, or GitHub's 403 that is a rate limit              *)
(*   server    HTTP 5xx                                                    *)
(*   other     any other HTTP error                                        *)
(***************************************************************************)
EXTENDS Naturals

Providers == {"slack", "github", "jira", "notion", "zendesk"}
Answers == {"ok", "auth", "refused", "limited", "server", "other"}

\* What becomes of the run: the items are taken; the cursor is held; the container is
\* skipped; the connection is broken; the run fails and ARQ tries it again.
Outcomes == {"items", "hold", "skip", "broken", "fail"}

\* source_sync's except clauses: a 401, and a 403 that is no rate limit, break the
\* connection; everything else is raised again.
Raised(answer) == IF answer \in {"auth", "refused"} THEN "broken" ELSE "fail"

\* _request retries a 429, raises an auth error for those of _AUTH_ERRORS and a plain
\* error for every other ok: false.
SlackChannel(answer) ==
  CASE answer = "ok" -> "items"
    [] answer = "auth" -> "broken"
    [] answer = "refused" -> "skip"
    [] answer \in {"limited", "server"} -> "hold"
    [] answer = "other" -> Raised(answer)

GithubRepository(answer) ==
  CASE answer = "ok" -> "items"
    [] answer = "refused" -> "skip"
    [] answer \in {"limited", "server"} -> "hold"
    [] answer \in {"auth", "other"} -> Raised(answer)

JiraSite(answer) ==
  CASE answer = "ok" -> "items"
    [] answer = "auth" -> "broken"
    [] answer \in {"limited", "server"} -> "hold"
    [] answer \in {"refused", "other"} -> "skip"

NotionSearch(answer) == IF answer = "ok" THEN "items" ELSE Raised(answer)

ZendeskExport(answer) == IF answer = "ok" THEN "items" ELSE Raised(answer)

\* A mutant: a container that is rate limited is skipped.
LimitedIsSkipped(provider, answer) ==
  IF answer = "ok" THEN "items" ELSE "skip"

\* How fetch_since takes an answer about one container.
Taken(provider, answer) ==
  CASE provider = "slack" -> SlackChannel(answer)
    [] provider = "github" -> GithubRepository(answer)
    [] provider = "jira" -> JiraSite(answer)
    [] provider = "notion" -> NotionSearch(answer)
    [] provider = "zendesk" -> ZendeskExport(answer)

\* The listing of the containers that comes first: Slack and Jira hold the cursor
\* when it fails, GitHub's is not caught.
SlackListing(answer) ==
  IF answer = "ok" THEN "items" ELSE IF answer = "auth" THEN "broken" ELSE "hold"
JiraListing(answer) ==
  IF answer = "ok" THEN "items" ELSE IF answer = "auth" THEN "broken" ELSE "hold"
GithubListing(answer) == IF answer = "ok" THEN "items" ELSE Raised(answer)

Listed(provider, answer) ==
  CASE provider = "slack" -> SlackListing(answer)
    [] provider = "jira" -> JiraListing(answer)
    [] provider = "github" -> GithubListing(answer)
    [] provider \in {"notion", "zendesk"} -> "items"

\* A mutant: every query leaves its bound out.
AfterBound(provider, cursor, at) == at > cursor

\* Whether a query bounded by the cursor returns an item of that time.  GitHub's since,
\* the JQL's updated >= and Zendesk's start_time include their bound; Slack's oldest
\* does not, and the search of Notion stops at the first page edited at the cursor.
Since(provider, cursor, at) ==
  IF provider \in {"github", "jira", "zendesk"} THEN at >= cursor ELSE at > cursor

\* The connectors that fetch in one query.
Whole == {"notion", "zendesk"}

\* supports_channel_filter: the picker's selection is honoured.
Picks == {"slack", "jira"}

\* Those whose events a webhook brings as well.
Pushed == {"slack", "github"}
===============================================================================
