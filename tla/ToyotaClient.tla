----------------------------- MODULE ToyotaClient -----------------------------
(***************************************************************************)
(* One request of ToyotaInventoryClient at a time, with everything that it *)
(* tries before it gives up.  _post_graphql retries by the HTTP status and *)
(* replaces a rejected WAF token, once per call and not within the         *)
(* cooldown of the last replacement; _fetch_and_extract_page calls it      *)
(* again when the answer cannot be used; fetch_models does not.  The       *)
(* requests of an ingest share the client, its token and its cooldown.     *)
(*                                                                         *)
(* Time is counted in units, and only since the last replacement, up to    *)
(* Cooldown.  What an ingest makes of the pages is ToyotaIngest's subject. *)
(***************************************************************************)
EXTENDS Naturals

CONSTANTS MaxRetries,    \* max_retries, 5 in the code
          MaxRefreshes,  \* max_waf_refreshes_per_request, 1 in the code, which never sets it
          Cooldown, PostDelay, RetryBackoff, RateBackoff,
          MaxRequests,   \* bound: requests of the client
          MaxExpiries    \* bound: how often the site stops to accept tokens

ASSUME ClientAssumption ==
  /\ MaxRetries \in Nat \ {0} /\ MaxRefreshes \in Nat \ {0}
  /\ {Cooldown, PostDelay, RetryBackoff, RateBackoff, MaxRequests, MaxExpiries} \subseteq Nat

Kinds == {"page", "models"}

\* What a post may bring: a usable answer; JSON that cannot be used; a page of
\* HTML or nothing; a status; no answer at all.
Challenges == {"html", "403"}
Transient  == {"429", "503"}
Answers    == {"ok", "bad", "404", "down"} \cup Challenges \cup Transient

VARIABLES
  doing,     \* next statement: no request, post, look at the answer, call the refresher
  kind,      \* what is asked for
  outer,     \* attempt of _fetch_and_extract_page
  inner,     \* attempt of _post_graphql
  refreshes, \* waf_refreshes of this call
  answer,    \* response in hand
  result,    \* how the last request ended
  refresher, \* config.waf_token_refresh is there
  token,     \* the site accepts config.x_aws_waf_token
  sent,      \* the site accepts the token in the headers of this call
  since,     \* time since _last_waf_refresh_at, at most Cooldown
  bounds,    \* requests and expiries so far
  tally,     \* history: posts and replaced tokens of this request
  gap,       \* history: time since a token was last replaced, at most Cooldown
  trouble,   \* history: in this request the token expired, the refresher failed,
             \* or an answer was not Due
  fatal      \* history: the request met something that is never retried

clientVars == <<doing, kind, outer, inner, refreshes, answer, result, refresher, token, sent,
                since, bounds, tally, gap, trouble, fatal>>

Tries(k) == IF k = "page" THEN MaxRetries ELSE 1

\* One more than all posts a request may need: higher counts are not told apart.
MostPosts == MaxRetries * (MaxRetries + MaxRefreshes)
AtMost(n, max) == IF n > max THEN max ELSE n

ClientTypeOK ==
  /\ doing \in {"idle", "post", "answer", "refresh"} /\ kind \in Kinds
  /\ outer \in 1 .. Tries(kind) /\ inner \in 1 .. MaxRetries
  /\ refreshes \in 0 .. MaxRefreshes
  /\ answer \in Answers /\ result \in {"none", "ok", "failed"}
  /\ {refresher, token, sent, trouble, fatal} \subseteq BOOLEAN
  /\ since \in 0 .. Cooldown /\ gap \in 0 .. Cooldown
  /\ bounds \in [asked : 0 .. MaxRequests, expired : 0 .. MaxExpiries]
  /\ tally \in [posts : 0 .. MostPosts + 1, renewed : 0 .. MaxRetries * MaxRefreshes]

\* The ingest starts with a token from its settings, the environment or a browser,
\* which may be too old; _last_waf_refresh_at is 0.
ClientInit ==
  /\ doing = "idle" /\ kind = "page" /\ outer = 1 /\ inner = 1 /\ refreshes = 0
  /\ answer = "ok" /\ result = "none"
  /\ refresher \in BOOLEAN /\ token \in BOOLEAN /\ sent = token
  /\ since = Cooldown /\ gap = Cooldown
  /\ bounds = [asked |-> 0, expired |-> 0]
  /\ tally = [posts |-> 0, renewed |-> 0]
  /\ trouble = FALSE /\ fatal = FALSE

Elapse(d) == since' = AtMost(since + d, Cooldown) /\ gap' = AtMost(gap + d, Cooldown)

-----------------------------------------------------------------------------
\* The site accepts no token that was handed out up to now.
Expire ==
  /\ bounds.expired < MaxExpiries
  /\ bounds' = [bounds EXCEPT !.expired = @ + 1]
  /\ token' = FALSE /\ sent' = FALSE
  /\ trouble' = (trouble \/ doing # "idle")
  /\ UNCHANGED <<doing, kind, outer, inner, refreshes, answer, result, refresher, since, tally, gap, fatal>>

-----------------------------------------------------------------------------
\* fetch_page and fetch_models build their headers and call _post_graphql; any
\* time may have passed since the request before.
Ask(k) ==
  /\ doing = "idle" /\ bounds.asked < MaxRequests
  /\ bounds' = [bounds EXCEPT !.asked = @ + 1]
  /\ kind' = k /\ outer' = 1 /\ inner' = 1 /\ refreshes' = 0 /\ sent' = token
  /\ tally' = [posts |-> 0, renewed |-> 0] /\ trouble' = FALSE /\ fatal' = FALSE
  /\ \E d \in 0 .. Cooldown : Elapse(d)
  /\ doing' = "post" /\ UNCHANGED <<answer, result, refresher, token>>

\* What a token gets if nothing else is wrong: its page, or a challenge if it is
\* too old.
Due == IF sent THEN {"ok"} ELSE Challenges

\* A token too old gets no page; any error may come before its challenge does.
Post ==
  /\ doing = "post"
  /\ answer' \in IF sent THEN Answers ELSE Answers \ {"ok"}
  /\ tally' = [tally EXCEPT !.posts = AtMost(@ + 1, MostPosts + 1)]
  /\ trouble' = (trouble \/ answer' \notin Due)
  /\ \E d \in {0, 1} : Elapse(d)
  /\ doing' = "answer"
  /\ UNCHANGED <<kind, outer, inner, refreshes, result, refresher, token, sent, bounds, fatal>>

End(as) ==
  /\ doing' = "idle" /\ result' = as
  /\ UNCHANGED <<outer, inner, refreshes, sent, since, gap>>

\* RuntimeError and RequestException: _fetch_and_extract_page calls again, with
\* new headers; its wait never follows the status, which it does not have.
CallAgain ==
  IF outer = Tries(kind) THEN End("failed")
  ELSE /\ outer' = outer + 1 /\ inner' = 1 /\ refreshes' = 0 /\ sent' = token
       /\ Elapse(RetryBackoff * 2 ^ (outer - 1))
       /\ doing' = "post" /\ UNCHANGED result

PostAgain(backoff) ==
  /\ inner' = inner + 1 /\ Elapse(backoff * 2 ^ (inner - 1))
  /\ doing' = "post" /\ UNCHANGED <<outer, refreshes, result, sent>>

Looked == UNCHANGED <<kind, answer, refresher, token, bounds, tally, trouble>>

Use ==
  /\ doing = "answer" /\ answer = "ok"
  /\ End("ok") /\ Looked /\ UNCHANGED fatal

\* No answer, or a payload with errors or without the expected objects.
Unusable ==
  /\ doing = "answer" /\ answer \in {"bad", "down"}
  /\ CallAgain /\ Looked /\ UNCHANGED fatal

\* HTTPError: exc.response is false for every status from 400 on, so the status
\* is not found among those that _fetch_and_extract_page retries.
Refuse ==
  /\ doing = "answer" /\ answer = "404"
  /\ End("failed") /\ fatal' = TRUE /\ Looked

Wait ==
  /\ doing = "answer" /\ answer \in Transient
  /\ IF inner < MaxRetries THEN PostAgain(IF answer = "429" THEN RateBackoff ELSE RetryBackoff)
                           ELSE End("failed")
  /\ Looked /\ UNCHANGED fatal

MayRefresh == refresher /\ refreshes < MaxRefreshes

\* _try_refresh_waf_token waits for the rest of the cooldown.
Cool ==
  /\ doing = "answer" /\ answer \in Challenges /\ MayRefresh
  /\ since' = Cooldown /\ gap' = AtMost(gap + (Cooldown - since), Cooldown)
  /\ doing' = "refresh"
  /\ Looked /\ UNCHANGED <<outer, inner, refreshes, result, sent, fatal>>

\* A challenge that may not be answered with a new token.
Challenged ==
  /\ doing = "answer" /\ answer \in Challenges /\ ~MayRefresh
  /\ IF answer = "403" /\ inner < MaxRetries THEN PostAgain(RateBackoff) ELSE CallAgain
  /\ Looked /\ UNCHANGED fatal

\* Mutant of Refreshed: the call goes on with its old headers.
RefreshedUnsent ==
  /\ doing = "refresh"
  /\ token' = TRUE /\ since' = AtMost(PostDelay, Cooldown) /\ gap' = since'
  /\ refreshes' = refreshes + 1 /\ tally' = [tally EXCEPT !.renewed = @ + 1]
  /\ doing' = "post"
  /\ UNCHANGED <<kind, outer, inner, answer, result, refresher, sent, bounds, trouble, fatal>>

\* Mutant of Refreshed: _last_waf_refresh_at stays.
RefreshedUntimed ==
  /\ doing = "refresh"
  /\ token' = TRUE /\ sent' = TRUE
  /\ since' = AtMost(since + PostDelay, Cooldown) /\ gap' = AtMost(PostDelay, Cooldown)
  /\ refreshes' = refreshes + 1 /\ tally' = [tally EXCEPT !.renewed = @ + 1]
  /\ doing' = "post"
  /\ UNCHANGED <<kind, outer, inner, answer, result, refresher, bounds, trouble, fatal>>

\* Mutant of Refreshed: the replaced token is not counted.
RefreshedUncounted ==
  /\ doing = "refresh"
  /\ token' = TRUE /\ sent' = TRUE
  /\ since' = AtMost(PostDelay, Cooldown) /\ gap' = since'
  /\ doing' = "post"
  /\ UNCHANGED <<kind, outer, inner, refreshes, answer, result, refresher, bounds, tally, trouble, fatal>>

\* The refresher has a new token: it goes into the configuration and the headers,
\* and the post is made again at no cost.
Refreshed ==
  /\ doing = "refresh"
  /\ token' = TRUE /\ sent' = TRUE
  /\ since' = AtMost(PostDelay, Cooldown) /\ gap' = since'
  /\ refreshes' = refreshes + 1 /\ tally' = [tally EXCEPT !.renewed = @ + 1]
  /\ doing' = "post"
  /\ UNCHANGED <<kind, outer, inner, answer, result, refresher, bounds, trouble, fatal>>

\* fetch_waf_token finds no token (RuntimeError), or the browser fails with an
\* error that no except clause of the client names.
RefresherFails ==
  /\ doing = "refresh" /\ trouble' = TRUE
  /\ \/ CallAgain /\ UNCHANGED fatal
     \/ End("failed") /\ fatal' = TRUE
  /\ UNCHANGED <<kind, answer, refresher, token, bounds, tally>>

-----------------------------------------------------------------------------
Work == \/ Post \/ Use \/ Unusable \/ Refuse \/ Wait
        \/ Cool \/ Challenged \/ Refreshed \/ RefresherFails

ClientNext == Expire \/ (\E k \in Kinds : Ask(k)) \/ Work

ClientSpec == ClientInit /\ [][ClientNext]_clientVars

\* A request runs in one thread, and every post and browser call has a timeout;
\* neither new requests nor the site's behaviour need fairness.
FairClientSpec == ClientSpec /\ WF_clientVars(Work)
-----------------------------------------------------------------------------
(* Properties.                                                             *)

\* The two nested retry loops and the replaced tokens together never send more
\* than max_retries * (max_retries + max_waf_refreshes_per_request) posts for
\* a page, and fetch_models no more than one call's share of it.
LoadBounded == tally.posts <= Tries(kind) * (MaxRetries + MaxRefreshes)

\* A browser is not started to replace a token before the cooldown since the
\* last replacement is over, whichever requests, calls and attempts lie between
\* them (waf_refresh_cooldown_sec).
RefreshesSpaced == doing = "refresh" => gap = Cooldown

\* A page is given up only after max_retries posts that did not lead to a new
\* token, or at once on an error that is never retried.
GivesUpLate ==
  doing = "idle" /\ kind = "page" /\ result = "failed" =>
    fatal \/ tally.posts >= MaxRetries + tally.renewed

\* A token that was too old when the request began does not alone make it fail:
\* with a refresher at hand the request fails only if the refresher did, the token
\* expired again meanwhile, or a post had an answer that was not due to its token:
\* a good one no page, an old one an error that comes instead of a challenge and
\* that may end the request before the refresher is called.
ExpiredTokenRecovers == doing = "idle" /\ result = "failed" /\ refresher => trouble

\* Neither the inventory service nor the browser is asked more than that.
SiteIsSpared == ClientTypeOK /\ LoadBounded /\ RefreshesSpaced

\* A request fails for a cause, and not before everything was tried.
FailsForCause == GivesUpLate /\ ExpiredTokenRecovers

\* Every request comes to an end, however the site answers: no challenge is
\* followed by new tokens forever.
EveryRequestEnds == [](doing # "idle" => <>(doing = "idle"))
=============================================================================
