----------------------------- MODULE ToyotaProofs -----------------------------
(***************************************************************************)
(* Proofs about the two Toyota modules.                                    *)
(*                                                                         *)
(* ToyotaClient, for any numbers of attempts and of tokens, at least one,  *)
(* and any waits: each call of _post_graphql has a budget of Call posts.   *)
(* BudgetInv counts what the calls and attempts up to now may have spent   *)
(* of it, and what they must have spent.                                   *)
(*                                                                         *)
(* ToyotaIngest, for any number of runs and changes of the site, any page  *)
(* size, any set of models and any finite set of vins: Ordered, the types  *)
(* and the order of a run's steps, is inductive.  With it HidesInv is:     *)
(* what a transaction may hide is out of the reach of all others, and      *)
(* this gives HiddenAfterFullRead.  With both CleanInv is: what a run      *)
(* knows while the site stands still and nobody else works on its model;   *)
(* this gives CompleteIsExact.  With PointersInv, that the pointers are    *)
(* rebuilt by one run at a time, it gives ShownUnlessFuller.               *)
(***************************************************************************)
EXTENDS ToyotaIngest, ToyotaClient, FiniteSetTheorems, SequenceTheorems, WellFoundedInduction, TLAPS

USE ClientAssumption

Call     == MaxRetries + MaxRefreshes
Spent(o) == (o - 1) * Call
Used(o)  == (o - 1) * MaxRefreshes

-----------------------------------------------------------------------------
(* Arithmetic.                                                             *)

\* Powers of two are natural numbers: 2 ^ n counts the subsets of 1 .. n.
LEMMA Power == ASSUME NEW n \in Nat PROVE 2 ^ n \in Nat
<1>1. IsFiniteSet(1 .. n) /\ Cardinality(1 .. n) = n
  <2>1. 1 \in Int /\ n \in Int
    OBVIOUS
  <2>2. IsFiniteSet(1 .. n) /\ Cardinality(1 .. n) = IF 1 > n THEN 0 ELSE n - 1 + 1
    BY <2>1, FS_Interval
  <2>3. QED  BY <2>2
<1>2. IsFiniteSet(SUBSET (1 .. n)) /\ Cardinality(SUBSET (1 .. n)) = 2 ^ n
  BY <1>1, FS_SUBSET
<1>3. QED  BY <1>2, FS_CardinalityType

\* The budget of one more call.
LEMMA Budget ==
  /\ Call \in Nat /\ Spent(1) = 0 /\ Used(1) = 0
  /\ \A o \in Nat \ {0} : /\ Spent(o) \in Nat /\ Spent(o + 1) = Spent(o) + Call
                          /\ Used(o) \in Nat /\ Used(o + 1) = Used(o) + MaxRefreshes
<1>1. \A o \in Nat \ {0} : Spent(o) \in Nat /\ Spent(o + 1) = Spent(o) + Call
  BY DEF Spent, Call
<1>2. \A o \in Nat \ {0} : Used(o) \in Nat /\ Used(o + 1) = Used(o) + MaxRefreshes
  BY DEF Used
<1>3. QED  BY <1>1, <1>2 DEF Spent, Used, Call

\* More calls have a larger budget.
LEMMA Larger ==
  ASSUME NEW o \in Nat \ {0}, NEW t \in Nat, o <= t
  PROVE  Spent(o) + Call <= t * Call /\ Used(o) + MaxRefreshes <= t * MaxRefreshes
<1>1. ASSUME NEW m \in Nat PROVE (o - 1) * m + m <= t * m
  <2>1. PICK d \in Nat : t = o + d
    <3>1. t - o \in Nat /\ t = o + (t - o)
      OBVIOUS
    <3>2. QED  BY <3>1
  <2>2. t * m = o * m + d * m /\ d * m \in Nat /\ (o - 1) * m + m = o * m
    BY <2>1
  <2>3. o * m \in Nat
    OBVIOUS
  <2>4. QED  BY <2>2, <2>3
<1>2. QED  BY <1>1 DEF Spent, Used, Call

\* Time runs up to the cooldown, and does not run backwards.
LEMMA Elapsing ==
  ASSUME NEW s \in 0 .. Cooldown, NEW g \in 0 .. Cooldown, s <= g, NEW d \in Nat
  PROVE  /\ AtMost(s + d, Cooldown) \in 0 .. Cooldown /\ AtMost(g + d, Cooldown) \in 0 .. Cooldown
         /\ AtMost(s + d, Cooldown) <= AtMost(g + d, Cooldown)
BY DEF AtMost

\* Neither the calls nor the attempts within one exceed max_retries.
LEMMA Counting ==
  ASSUME ClientTypeOK
  PROVE  /\ outer \in Nat \ {0} /\ inner \in Nat \ {0} /\ refreshes \in Nat
         /\ tally.posts \in Nat /\ tally.renewed \in Nat
         /\ Tries(kind) \in Nat /\ Tries(kind) <= MaxRetries
         /\ outer <= Tries(kind) /\ inner <= MaxRetries /\ refreshes <= MaxRefreshes
BY DEF ClientTypeOK, Tries

-----------------------------------------------------------------------------
(* The strengthening.                                                      *)

\* The posts and the tokens of a request are within the budgets of the calls
\* it has made, none of which is spent without a post; the time that the client
\* counts is not more than what has passed.
BudgetInv ==
  /\ ClientTypeOK
  /\ tally.posts <= Spent(outer) + (inner - 1) + refreshes + (IF doing = "post" THEN 0 ELSE 1)
  /\ tally.renewed <= Used(outer) + refreshes
  /\ doing # "idle" => tally.posts >= (outer - 1) + (inner - 1) + tally.renewed + (IF doing = "post" THEN 0 ELSE 1)
  /\ doing = "refresh" => MayRefresh
  /\ since <= gap /\ RefreshesSpaced

\* Nothing has been spent at the start.
LEMMA BudgetInit == ClientInit => BudgetInv
<1> SUFFICES ASSUME ClientInit PROVE BudgetInv
  OBVIOUS
<1>1. MostPosts \in Nat /\ MaxRetries * MaxRefreshes \in Nat
  BY DEF MostPosts
<1>2. ClientTypeOK
  <2>1. outer \in 1 .. Tries(kind) /\ inner \in 1 .. MaxRetries /\ refreshes \in 0 .. MaxRefreshes
    BY DEF ClientInit, Tries
  <2>2. bounds \in [asked : 0 .. MaxRequests, expired : 0 .. MaxExpiries]
    BY DEF ClientInit
  <2>3. tally \in [posts : 0 .. MostPosts + 1, renewed : 0 .. MaxRetries * MaxRefreshes]
    BY <1>1 DEF ClientInit
  <2>4. since \in 0 .. Cooldown /\ gap \in 0 .. Cooldown
    BY DEF ClientInit
  <2>5. QED  BY <2>1, <2>2, <2>3, <2>4 DEF ClientInit, ClientTypeOK, Kinds, Answers
<1>3. QED  BY <1>2, Budget DEF ClientInit, BudgetInv, RefreshesSpaced

-----------------------------------------------------------------------------
(* Every step keeps it.                                                    *)

\* The client's clock stays behind, whatever it waits.
LEMMA WaitingFor ==
  ASSUME ClientTypeOK, since <= gap, NEW d \in Nat, Elapse(d)
  PROVE  since' \in 0 .. Cooldown /\ gap' \in 0 .. Cooldown /\ since' <= gap'
BY Elapsing DEF Elapse, ClientTypeOK

\* The waits double.
LEMMA Waiting ==
  ASSUME ClientTypeOK, since <= gap, NEW b \in Nat, NEW n \in Nat \ {0}, Elapse(b * 2 ^ (n - 1))
  PROVE  since' \in 0 .. Cooldown /\ gap' \in 0 .. Cooldown /\ since' <= gap'
<1>1. n - 1 \in Nat
  OBVIOUS
<1>2. 2 ^ (n - 1) \in Nat
  BY <1>1, Power
<1>3. b * 2 ^ (n - 1) \in Nat
  <2> DEFINE p == 2 ^ (n - 1)
  <2> HIDE DEF p
  <2>1. b * p \in Nat
    BY <1>2 DEF p
  <2>2. QED  BY <2>1 DEF p
<1>4. QED  BY <1>3, WaitingFor

\* A call that is over leaves the next one its whole budget.
LEMMA CallAgainStep ==
  ASSUME BudgetInv, doing \in {"answer", "refresh"}, CallAgain,
         UNCHANGED <<kind, answer, refresher, token, bounds, tally>>,
         trouble' \in BOOLEAN, fatal' \in BOOLEAN
  PROVE  BudgetInv'
<1> USE DEF BudgetInv
<1>1. CASE outer = Tries(kind)
  BY <1>1, Counting DEF CallAgain, End, ClientTypeOK, RefreshesSpaced
<1>2. CASE outer # Tries(kind)
  <2>1. /\ outer' = outer + 1 /\ inner' = 1 /\ refreshes' = 0 /\ sent' = token
        /\ Elapse(RetryBackoff * 2 ^ (outer - 1))
        /\ doing' = "post" /\ result' = result
    BY <1>2, Zenon DEF CallAgain
  <2>2. since' \in 0 .. Cooldown /\ gap' \in 0 .. Cooldown /\ since' <= gap'
    BY <2>1, Waiting, Counting
  <2>3. outer + 1 \in 1 .. Tries(kind)
    BY <1>2, Counting
  <2>4. ClientTypeOK'
    BY <2>1, <2>2, <2>3 DEF ClientTypeOK, Tries
  <2>5. /\ Spent(outer') = Spent(outer) + Call /\ Used(outer') = Used(outer) + MaxRefreshes
        /\ Spent(outer) \in Nat /\ Used(outer) \in Nat
    BY <2>1, Budget, Counting
  <2>6. tally.posts \in Nat /\ tally.renewed \in Nat /\ outer \in Nat \ {0} /\ inner \in Nat \ {0} /\ refreshes \in Nat
        /\ inner <= MaxRetries /\ refreshes <= MaxRefreshes
    BY Counting
  <2>7. tally.posts <= Spent(outer') + (inner' - 1) + refreshes' /\ tally.renewed <= Used(outer') + refreshes'
    BY <2>1, <2>5, <2>6 DEF Call
  <2>8. tally.posts >= (outer' - 1) + (inner' - 1) + tally.renewed
    BY <2>1, <2>6
  <2>9. RefreshesSpaced' /\ doing' = "post" /\ tally' = tally
    BY <2>1 DEF RefreshesSpaced
  <2>10. outer' \in Nat \ {0} /\ inner' \in Nat \ {0} /\ refreshes' \in Nat
    BY <2>1, <2>6
  <2>11. Spent(outer') \in Nat /\ Used(outer') \in Nat
    BY <2>10, Budget
  <2>12. tally'.posts <= Spent(outer') + (inner' - 1) + refreshes' + (IF doing' = "post" THEN 0 ELSE 1)
    BY <2>6, <2>7, <2>9, <2>10, <2>11
  <2>13. tally'.posts >= (outer' - 1) + (inner' - 1) + tally'.renewed + (IF doing' = "post" THEN 0 ELSE 1)
    BY <2>6, <2>8, <2>9, <2>10
  <2>14. tally'.renewed <= Used(outer') + refreshes' /\ doing' # "refresh"
    BY <2>7, <2>9
  <2>15. QED  BY <2>2, <2>4, <2>9, <2>12, <2>13, <2>14, Zenon
<1>3. QED  BY <1>1, <1>2

\* A request that is over has spent what it has spent.
LEMMA EndStep ==
  ASSUME BudgetInv, doing = "answer" \/ doing = "refresh", NEW as \in {"ok", "failed"}, End(as),
         UNCHANGED <<kind, answer, refresher, token, bounds, tally>>,
         trouble' \in BOOLEAN, fatal' \in BOOLEAN
  PROVE  BudgetInv'
BY DEF BudgetInv, End, ClientTypeOK, RefreshesSpaced

\* A repeated post comes out of the attempts of its call.
LEMMA PostAgainStep ==
  ASSUME BudgetInv, doing = "answer", NEW b \in Nat, PostAgain(b), inner < MaxRetries,
         UNCHANGED <<kind, answer, refresher, token, bounds, tally>>,
         trouble' \in BOOLEAN, fatal' \in BOOLEAN
  PROVE  BudgetInv'
<1> USE DEF BudgetInv
<1>1. /\ inner' = inner + 1 /\ Elapse(b * 2 ^ (inner - 1))
      /\ doing' = "post" /\ UNCHANGED <<outer, refreshes, result, sent>>
  BY Zenon DEF PostAgain
<1>2. since' \in 0 .. Cooldown /\ gap' \in 0 .. Cooldown /\ since' <= gap'
  BY <1>1, Waiting, Counting
<1>3. ClientTypeOK'
  BY <1>1, <1>2, Counting DEF ClientTypeOK
<1>4. Spent(outer) \in Nat /\ Used(outer) \in Nat /\ Spent(outer)' = Spent(outer) /\ Used(outer)' = Used(outer)
  BY <1>1, Budget, Counting
<1>5. QED  BY <1>1, <1>2, <1>3, <1>4, Counting DEF RefreshesSpaced

\* A post is counted: the counter never reaches its cap.
LEMMA PostStep == ASSUME BudgetInv, Post PROVE BudgetInv'
<1> USE DEF BudgetInv
<1>1. PICK d \in {0, 1} : Elapse(d)
  BY DEF Post
<1>2. since' \in 0 .. Cooldown /\ gap' \in 0 .. Cooldown /\ since' <= gap'
  BY <1>1, Elapsing DEF Elapse, ClientTypeOK
<1>3. tally.posts + 1 <= MostPosts /\ MostPosts \in Nat
  <2>0. outer \in Nat \ {0} /\ outer <= MaxRetries
    BY Counting
  <2>1. Spent(outer) + Call <= MaxRetries * Call /\ Spent(outer) \in Nat /\ MaxRetries * Call = MostPosts
    <3>1. Spent(outer) + Call <= MaxRetries * Call
      BY <2>0, Larger
    <3>2. MaxRetries * Call = MostPosts
      BY DEF MostPosts, Call
    <3>3. QED  BY <2>0, <3>1, <3>2, Budget
  <2>2. MostPosts \in Nat
    BY Budget, <2>1
  <2>3. QED  BY <2>1, <2>2, Counting DEF Post, Call
<1>4. /\ tally'.posts = tally.posts + 1 /\ tally'.renewed = tally.renewed
      /\ tally' \in [posts : 0 .. MostPosts + 1, renewed : 0 .. MaxRetries * MaxRefreshes]
  BY <1>3 DEF Post, AtMost, ClientTypeOK
<1>5. answer' \in Answers /\ doing = "post" /\ doing' = "answer" /\ trouble' \in BOOLEAN
      /\ UNCHANGED <<kind, outer, inner, refreshes, result, refresher, token, sent, bounds, fatal>>
  BY DEF Post, Answers
<1>6. ClientTypeOK'
  BY <1>2, <1>4, <1>5 DEF ClientTypeOK
<1>7. Spent(outer) \in Nat /\ Used(outer) \in Nat /\ Spent(outer)' = Spent(outer) /\ Used(outer)' = Used(outer)
  BY <1>5, Budget, Counting
<1>8. QED  BY <1>2, <1>4, <1>5, <1>6, <1>7, Counting DEF RefreshesSpaced

\* A new token is counted, and its post is one that its call may make more.
LEMMA RefreshedStep == ASSUME BudgetInv, Refreshed PROVE BudgetInv'
<1> USE DEF BudgetInv
<1>1. /\ doing = "refresh" /\ doing' = "post" /\ token' = TRUE /\ sent' = TRUE
      /\ since' = AtMost(PostDelay, Cooldown) /\ gap' = since'
      /\ refreshes' = refreshes + 1 /\ tally' = [tally EXCEPT !.renewed = @ + 1]
      /\ UNCHANGED <<kind, outer, inner, answer, result, refresher, bounds, trouble, fatal>>
  BY DEF Refreshed
<1>2. since' \in 0 .. Cooldown /\ gap' = since'
  BY <1>1 DEF AtMost
<1>3. Spent(outer) \in Nat /\ Used(outer) \in Nat /\ Spent(outer)' = Spent(outer) /\ Used(outer)' = Used(outer)
  BY <1>1, Budget, Counting
<1>4. Used(outer) + MaxRefreshes <= MaxRetries * MaxRefreshes /\ MaxRetries * MaxRefreshes \in Nat
  BY Larger, Counting
<1>5. refreshes + 1 <= MaxRefreshes
  BY <1>1, Counting DEF MayRefresh
<1>6. tally.renewed + 1 \in 0 .. MaxRetries * MaxRefreshes
  BY <1>3, <1>4, <1>5, Counting
<1>7. /\ tally'.posts = tally.posts /\ tally'.renewed = tally.renewed + 1
      /\ tally' \in [posts : 0 .. MostPosts + 1, renewed : 0 .. MaxRetries * MaxRefreshes]
  BY <1>1, <1>6 DEF ClientTypeOK
<1>8. ClientTypeOK'
  BY <1>1, <1>2, <1>5, <1>7, Counting DEF ClientTypeOK
<1>9. QED  BY <1>1, <1>2, <1>3, <1>7, <1>8, Counting DEF RefreshesSpaced

\* A request starts with nothing spent.
LEMMA AskStep == ASSUME BudgetInv, NEW k \in Kinds, Ask(k) PROVE BudgetInv'
<1> USE DEF BudgetInv
<1>1. PICK d \in 0 .. Cooldown : Elapse(d)
  BY DEF Ask
<1>2. since' \in 0 .. Cooldown /\ gap' \in 0 .. Cooldown /\ since' <= gap'
  BY <1>1, Elapsing DEF Elapse, ClientTypeOK
<1>3. /\ kind' = k /\ outer' = 1 /\ inner' = 1 /\ refreshes' = 0 /\ sent' = token
      /\ bounds.asked < MaxRequests /\ bounds' = [bounds EXCEPT !.asked = @ + 1]
      /\ tally' = [posts |-> 0, renewed |-> 0] /\ trouble' = FALSE /\ fatal' = FALSE
      /\ doing' = "post" /\ UNCHANGED <<answer, result, refresher, token>>
  BY DEF Ask
<1>4. bounds' \in [asked : 0 .. MaxRequests, expired : 0 .. MaxExpiries]
  BY <1>3 DEF ClientTypeOK
<1>5. tally' \in [posts : 0 .. MostPosts + 1, renewed : 0 .. MaxRetries * MaxRefreshes]
  <2>1. MostPosts \in Nat /\ MaxRetries * MaxRefreshes \in Nat
    BY DEF MostPosts
  <2>2. QED  BY <1>3, <2>1
<1>6. ClientTypeOK'
  <2>1. outer' \in 1 .. Tries(kind') /\ inner' \in 1 .. MaxRetries /\ refreshes' \in 0 .. MaxRefreshes
    BY <1>3 DEF Tries
  <2>2. QED  BY <1>2, <1>3, <1>4, <1>5, <2>1 DEF ClientTypeOK, Tries
<1>7. tally'.posts = 0 /\ tally'.renewed = 0 /\ Spent(outer') = 0 /\ Used(outer') = 0
  BY <1>3, Budget
<1>8. QED  BY <1>2, <1>3, <1>6, <1>7 DEF RefreshesSpaced

\* Every step keeps the budgets.
LEMMA BudgetStep == ASSUME BudgetInv, [ClientNext]_clientVars PROVE BudgetInv'
<1>1. CASE UNCHANGED clientVars
  BY <1>1 DEF clientVars, BudgetInv, ClientTypeOK, RefreshesSpaced, MayRefresh, Spent, Used
<1>2. CASE Expire
  <2>1. bounds' \in [asked : 0 .. MaxRequests, expired : 0 .. MaxExpiries]
    BY <1>2 DEF Expire, BudgetInv, ClientTypeOK
  <2>2. /\ token' = FALSE /\ sent' = FALSE /\ trouble' \in BOOLEAN
        /\ UNCHANGED <<doing, kind, outer, inner, refreshes, answer, result, refresher, since, tally, gap, fatal>>
    BY <1>2 DEF Expire
  <2>3. ClientTypeOK'
    BY <2>1, <2>2 DEF BudgetInv, ClientTypeOK
  <2>4. QED  BY <2>2, <2>3 DEF BudgetInv, RefreshesSpaced, MayRefresh, Spent, Used
<1>3. ASSUME NEW k \in Kinds, Ask(k) PROVE BudgetInv'
  BY <1>3, AskStep
<1>4. CASE Use
  BY <1>4, EndStep DEF Use, Looked, BudgetInv, ClientTypeOK
<1>5. CASE Unusable
  BY <1>5, CallAgainStep DEF Unusable, Looked, BudgetInv, ClientTypeOK
<1>6. CASE Refuse
  BY <1>6, EndStep DEF Refuse, Looked, BudgetInv, ClientTypeOK
<1>7. CASE Wait
  BY <1>7, EndStep, PostAgainStep DEF Wait, Looked, BudgetInv, ClientTypeOK
<1>8. CASE Cool
  <2>1. /\ since' = Cooldown /\ gap' = AtMost(gap + (Cooldown - since), Cooldown)
        /\ doing = "answer" /\ doing' = "refresh" /\ MayRefresh
        /\ UNCHANGED <<kind, answer, refresher, token, bounds, tally, trouble>>
        /\ UNCHANGED <<outer, inner, refreshes, result, sent, fatal>>
    BY <1>8 DEF Cool, Looked
  <2>2. gap' = Cooldown
    <3>1. gap \in Nat /\ since \in Nat /\ since <= gap /\ Cooldown \in Nat /\ since <= Cooldown
      BY DEF BudgetInv, ClientTypeOK
    <3>2. gap + (Cooldown - since) \in Nat /\ gap + (Cooldown - since) >= Cooldown
      BY <3>1
    <3>3. QED  BY <2>1, <3>1, <3>2 DEF AtMost
  <2>3. ClientTypeOK'
    BY <2>1, <2>2 DEF BudgetInv, ClientTypeOK
  <2>4. QED  BY <2>1, <2>2, <2>3 DEF BudgetInv, RefreshesSpaced, MayRefresh, Spent, Used
<1>9. CASE Challenged
  BY <1>9, CallAgainStep, PostAgainStep DEF Challenged, Looked, BudgetInv, ClientTypeOK
<1>10. CASE RefresherFails
  BY <1>10, EndStep, CallAgainStep DEF RefresherFails, BudgetInv, ClientTypeOK
<1>11. QED  BY <1>1, <1>2, <1>3, <1>4, <1>5, <1>6, <1>7, <1>8, <1>9, <1>10, PostStep, RefreshedStep
       DEF ClientNext, Work

-----------------------------------------------------------------------------
(* The theorems.                                                           *)

\* The retry loops of _fetch_and_extract_page and _post_graphql and the tokens
\* replaced in between never send more posts than their budgets, and no browser
\* is started to replace a token within the cooldown of the last one.
THEOREM SpareTheSite == ClientSpec => []SiteIsSpared
<1>1. ASSUME BudgetInv PROVE SiteIsSpared
  <2>1. Spent(outer) + Call <= Tries(kind) * Call /\ Spent(outer) \in Nat
    BY <1>1, Larger, Counting, Budget DEF BudgetInv
  <2>2. Tries(kind) * Call \in Nat
    BY <1>1, Counting, Budget DEF BudgetInv
  <2>3. tally.posts <= Tries(kind) * Call
    BY <1>1, <2>1, <2>2, Counting DEF BudgetInv, Call
  <2>4. QED  BY <1>1, <2>3 DEF BudgetInv, SiteIsSpared, LoadBounded, Call
<1>2. QED  BY <1>1, BudgetInit, BudgetStep, PTL DEF ClientSpec

\* What a failed request owes: the posts it must have made, and, if it had a
\* refresher, a cause.  With a refresher and without trouble a call goes on with
\* a token the site accepts, or has not replaced the old one yet.
CauseInv ==
  /\ BudgetInv
  /\ FailsForCause
  /\ doing # "idle" /\ refresher /\ ~trouble => sent \/ refreshes = 0
  /\ doing \in {"answer", "refresh"} /\ refresher /\ ~trouble =>
       IF sent THEN doing = "answer" /\ answer = "ok" ELSE answer \in Challenges

\* The next call of a request, or its end when all calls have been made.
LEMMA CauseCallAgain ==
  ASSUME CauseInv, BudgetInv', doing \in {"answer", "refresh"}, CallAgain,
         UNCHANGED <<kind, answer, refresher, token, bounds, tally>>,
         refresher => trouble'
  PROVE  CauseInv'
<1> USE DEF CauseInv, FailsForCause, GivesUpLate, ExpiredTokenRecovers
<1>1. CASE outer = Tries(kind)
  <2>1. doing' = "idle" /\ result' = "failed"
    BY <1>1 DEF CallAgain, End
  <2>2. kind = "page" => tally.posts >= MaxRetries + tally.renewed
    BY <1>1, Counting DEF BudgetInv, Tries
  <2>3. QED  BY <2>1, <2>2
<1>2. CASE outer # Tries(kind)
  <2>1. doing' = "post"
    BY <1>2, Zenon DEF CallAgain
  <2>2. QED  BY <2>1
<1>3. QED  BY <1>1, <1>2

\* Every step of a request keeps what its failure would owe.
LEMMA CauseStep == ASSUME CauseInv, [ClientNext]_clientVars PROVE CauseInv'
<1> USE DEF CauseInv
<1>0. BudgetInv' /\ ClientTypeOK /\ ClientTypeOK'
  BY BudgetStep DEF BudgetInv
<1>1. CASE UNCHANGED clientVars
  BY <1>0, <1>1 DEF clientVars, FailsForCause, GivesUpLate, ExpiredTokenRecovers
<1>2. CASE Expire
  BY <1>0, <1>2 DEF Expire, FailsForCause, GivesUpLate, ExpiredTokenRecovers
<1>3. ASSUME NEW k \in Kinds, Ask(k) PROVE CauseInv'
  BY <1>0, <1>3 DEF Ask, FailsForCause, GivesUpLate, ExpiredTokenRecovers
<1>4. CASE Post
  <2>1. doing = "post" /\ doing' = "answer" /\ UNCHANGED <<refresher, sent, refreshes>>
    BY <1>4 DEF Post
  <2>2. refresher /\ ~trouble' => IF sent THEN answer' = "ok" ELSE answer' \in Challenges
    BY <1>4 DEF Post, Due
  <2>3. ~trouble' => ~trouble
    BY <1>4 DEF Post
  <2>4. QED  BY <1>0, <2>1, <2>2, <2>3 DEF FailsForCause, GivesUpLate, ExpiredTokenRecovers
<1>5. CASE Use
  BY <1>0, <1>5 DEF Use, End, FailsForCause, GivesUpLate, ExpiredTokenRecovers
\* Whatever else a request fails of, it is trouble, if it has a refresher.
<1>6. doing = "answer" /\ (answer \notin Challenges \cup {"ok"} \/ ~MayRefresh) /\ answer # "ok" /\ refresher => trouble
  BY <1>0 DEF MayRefresh, Challenges, ClientTypeOK
<1>7. CASE Unusable
  BY <1>0, <1>6, <1>7, CauseCallAgain DEF Unusable, Looked, Challenges
<1>8. CASE Refuse
  BY <1>0, <1>6, <1>8 DEF Refuse, End, Looked, Challenges, FailsForCause, GivesUpLate, ExpiredTokenRecovers
<1>9. CASE Wait
  <2>1. doing = "answer" /\ (refresher => trouble) /\ UNCHANGED <<kind, refresher, tally, trouble>>
    BY <1>6, <1>9 DEF Wait, Looked, Challenges, Transient
  <2>2. CASE inner < MaxRetries
    <3>1. doing' = "post"
      BY <1>9, <2>2 DEF Wait, PostAgain
    <3>2. QED  BY <1>0, <2>1, <3>1 DEF FailsForCause, GivesUpLate, ExpiredTokenRecovers
  <2>3. CASE ~(inner < MaxRetries)
    <3>1. doing' = "idle"
      BY <1>9, <2>3 DEF Wait, End
    <3>2. tally.posts >= MaxRetries + tally.renewed
      BY <1>0, <2>1, <2>3, Counting DEF BudgetInv
    <3>3. QED  BY <1>0, <2>1, <3>1, <3>2 DEF FailsForCause, GivesUpLate, ExpiredTokenRecovers
  <2>4. QED  BY <2>2, <2>3
<1>10. CASE Cool
  BY <1>0, <1>10 DEF Cool, Looked, Challenges, FailsForCause, GivesUpLate, ExpiredTokenRecovers
<1>11. CASE Challenged
  <2>1. doing = "answer" /\ (refresher => trouble) /\ UNCHANGED <<kind, refresher, tally, trouble, answer, token, bounds>>
    BY <1>6, <1>11 DEF Challenged, Looked, Challenges
  <2>2. CASE answer = "403" /\ inner < MaxRetries
    <3>1. doing' = "post"
      BY <1>11, <2>2 DEF Challenged, PostAgain
    <3>2. QED  BY <1>0, <2>1, <3>1 DEF FailsForCause, GivesUpLate, ExpiredTokenRecovers
  <2>3. CASE ~(answer = "403" /\ inner < MaxRetries)
    <3>1. CallAgain
      BY <1>11, <2>3 DEF Challenged
    <3>2. QED  BY <1>0, <2>1, <3>1, CauseCallAgain
  <2>4. QED  BY <2>2, <2>3
<1>12. CASE Refreshed
  BY <1>0, <1>12 DEF Refreshed, FailsForCause, GivesUpLate, ExpiredTokenRecovers
<1>13. CASE RefresherFails
  <2>1. doing = "refresh" /\ trouble' = TRUE /\ UNCHANGED <<kind, answer, refresher, token, bounds, tally>>
    BY <1>13 DEF RefresherFails
  <2>2. CASE CallAgain
    BY <1>0, <2>1, <2>2, CauseCallAgain
  <2>3. CASE End("failed") /\ fatal' = TRUE
    BY <1>0, <2>1, <2>3 DEF End, FailsForCause, GivesUpLate, ExpiredTokenRecovers
  <2>4. QED  BY <1>13, <2>2, <2>3 DEF RefresherFails
<1>14. QED  BY <1>1, <1>2, <1>3, <1>4, <1>5, <1>7, <1>8, <1>9, <1>10, <1>11, <1>12, <1>13 DEF ClientNext, Work

\* A request for a page gives up only after max_retries posts that led to no
\* new token, or on an error that is never retried; and with a refresher a token
\* that was too old when the request began is never all that it fails of.
THEOREM FailForCause == ClientSpec => []FailsForCause
<1>1. ClientInit => CauseInv
  BY BudgetInit DEF ClientInit, CauseInv, FailsForCause, GivesUpLate, ExpiredTokenRecovers
<1>2. CauseInv => FailsForCause
  BY DEF CauseInv
<1>3. QED  BY <1>1, <1>2, CauseStep, PTL DEF ClientSpec

HIDE ClientAssumption

-----------------------------------------------------------------------------
(* The ingest.                                                             *)

USE ToyotaAssumption DEF Runs, NoRun

-----------------------------------------------------------------------------
(* Listings.                                                               *)

\* A listing is a sequence of vehicles, as long as there are vehicles at most.
LEMMA BoundedSequences ==
  ASSUME NEW s
  PROVE  s \in BoundedSeq(Vins, Cardinality(Vins)) <=> s \in Seq(Vins) /\ Len(s) <= Cardinality(Vins)
<1>1. Cardinality(Vins) \in Nat
  BY FS_CardinalityType
<1>2. ASSUME s \in BoundedSeq(Vins, Cardinality(Vins))
      PROVE  s \in Seq(Vins) /\ Len(s) <= Cardinality(Vins)
  <2>1. PICK n \in 0 .. Cardinality(Vins) : s \in [1 .. n -> Vins]
    BY <1>2 DEF BoundedSeq, SeqOf
  <2>2. n \in Nat
    BY <1>1
  <2>3. s \in Seq(Vins)
    BY <2>1, <2>2, SeqDef
  <2>4. Len(s) = n
    BY <2>1, <2>2, <2>3
  <2>5. QED  BY <1>1, <2>3, <2>4
<1>3. ASSUME s \in Seq(Vins), Len(s) <= Cardinality(Vins)
      PROVE  s \in BoundedSeq(Vins, Cardinality(Vins))
  <2>1. s \in [1 .. Len(s) -> Vins] /\ Len(s) \in 0 .. Cardinality(Vins)
    BY <1>1, <1>3, LenProperties
  <2>2. QED  BY <2>1 DEF BoundedSeq, SeqOf
<1>4. QED  BY <1>2, <1>3

\* What is known of the listing of a model.
LEMMA Listing ==
  ASSUME NEW s \in Sites, NEW m \in Models
  PROVE  /\ s[m] \in Seq(Vins) /\ Len(s[m]) \in Nat /\ Len(s[m]) <= Cardinality(Vins)
         /\ DOMAIN s[m] = 1 .. Len(s[m]) /\ \A i \in 1 .. Len(s[m]) : s[m][i] \in Vins
         /\ IsInjective(s[m])
         /\ Range(s[m]) = {s[m][i] : i \in 1 .. Len(s[m])} /\ Range(s[m]) \subseteq Vins
         /\ \A n \in Models : n # m => Range(s[m]) \cap Range(s[n]) = {}
<1>1. s[m] \in BoundedSeq(Vins, Cardinality(Vins)) /\ IsInjective(s[m])
  BY DEF Sites
<1>2. s[m] \in Seq(Vins) /\ Len(s[m]) <= Cardinality(Vins)
  BY <1>1, BoundedSequences
<1>3. Len(s[m]) \in Nat /\ DOMAIN s[m] = 1 .. Len(s[m]) /\ \A i \in 1 .. Len(s[m]) : s[m][i] \in Vins
  BY <1>2, LenProperties
<1>4. \A n \in Models : n # m => Range(s[m]) \cap Range(s[n]) = {}
  BY DEF Sites
<1>5. QED  BY <1>1, <1>2, <1>3, <1>4 DEF Range

\* Another listing in place of one.
LEMMA NewListing ==
  ASSUME NEW s \in Sites, NEW m \in Models, NEW t \in Seq(Vins), IsInjective(t),
         \A n \in Models : n # m => Range(t) \cap Range(s[n]) = {}
  PROVE  [s EXCEPT ![m] = t] \in Sites
<1>1. Len(t) <= Cardinality(Vins)
  <2>1. Len(t) \in Nat /\ t \in [1 .. Len(t) -> Vins] /\ DOMAIN t = 1 .. Len(t)
    BY LenProperties
  <2>2. t \in Injection(1 .. Len(t), Vins)
    BY <2>1, Zenon DEF Injection, IsInjective
  <2>3. Cardinality(1 .. Len(t)) <= Cardinality(Vins)
    BY <2>2, FS_Injection
  <2>4. Cardinality(1 .. Len(t)) = IF 1 > Len(t) THEN 0 ELSE Len(t) - 1 + 1
    <3>1. 1 \in Int /\ Len(t) \in Int
      BY <2>1
    <3>2. QED  BY <3>1, FS_Interval
  <2>5. QED  BY <2>1, <2>3, <2>4
<1>2. t \in BoundedSeq(Vins, Cardinality(Vins))
  BY <1>1, BoundedSequences
<1> DEFINE u == [s EXCEPT ![m] = t]
<1>3. s \in [Models -> BoundedSeq(Vins, Cardinality(Vins))]
  BY DEF Sites
<1>4. /\ u \in [Models -> BoundedSeq(Vins, Cardinality(Vins))] /\ u[m] = t
      /\ \A n \in Models : n # m => u[n] = s[n]
  BY <1>2, <1>3
<1> HIDE DEF u
<1>5. \A n \in Models : IsInjective(u[n])
  BY <1>4 DEF Sites
<1>6. \A n, k \in Models : n # k => Range(u[n]) \cap Range(u[k]) = {}
  <2>1. \A n, k \in Models : n # k => Range(s[n]) \cap Range(s[k]) = {}
    BY DEF Sites
  <2>2. QED  BY <1>4, <2>1
<1>7. u \in Sites
  BY <1>4, <1>5, <1>6 DEF Sites
<1>8. QED  BY <1>7 DEF u

\* The site lists each vehicle once, whatever it sells and gets.
LEMMA SellKeepsSites ==
  ASSUME site \in Sites, NEW m \in Models, NEW i \in DOMAIN site[m], Sell(m, i)
  PROVE  site' \in Sites
<1> DEFINE s == site[m]
           a == SubSeq(s, 1, i - 1)
           b == SubSeq(s, i + 1, Len(s))
           t == a \o b
<1>1. /\ s \in Seq(Vins) /\ Len(s) \in Nat /\ DOMAIN s = 1 .. Len(s) /\ IsInjective(s)
      /\ \A k \in 1 .. Len(s) : s[k] \in Vins
      /\ Range(s) = {s[k] : k \in 1 .. Len(s)}
      /\ \A n \in Models : n # m => Range(s) \cap Range(site[n]) = {}
  BY Listing
<1>2. site' = [site EXCEPT ![m] = t]
  BY DEF Sell, RemoveAt
<1>3. i \in 1 .. Len(s)
  BY <1>1
<1> HIDE DEF s
<1>4. /\ a \in Seq(Vins) /\ Len(a) = i - 1
      /\ \A k \in 1 .. i - 1 : a[k] = s[k]
  <2>1. i - 1 \in Int /\ \A k \in 1 .. i - 1 : s[k] \in Vins
    BY <1>1, <1>3
  <2>2. QED  BY <1>3, <2>1, SubSeqProperties
<1>5. /\ b \in Seq(Vins) /\ Len(b) = Len(s) - i
      /\ \A k \in 1 .. Len(s) - i : b[k] = s[i + k]
  <2>1. i + 1 \in Int /\ Len(s) \in Int /\ \A k \in i + 1 .. Len(s) : s[k] \in Vins
    BY <1>1, <1>3
  <2>2. QED  BY <1>1, <1>3, <2>1, SubSeqProperties
<1> HIDE DEF a, b
<1>6. /\ t \in Seq(Vins) /\ Len(t) = Len(s) - 1
      /\ \A k \in 1 .. Len(s) - 1 : t[k] = IF k < i THEN s[k] ELSE s[k + 1]
  <2>1. Len(a) + Len(b) = Len(s) - 1
    BY <1>1, <1>3, <1>4, <1>5
  <2>2. /\ t \in Seq(Vins) /\ Len(t) = Len(s) - 1
        /\ \A k \in 1 .. Len(s) - 1 : t[k] = IF k <= Len(a) THEN a[k] ELSE b[k - Len(a)]
    BY <1>4, <1>5, <2>1, ConcatProperties
  <2> HIDE DEF t
  <2>3. ASSUME NEW k \in 1 .. Len(s) - 1 PROVE t[k] = IF k < i THEN s[k] ELSE s[k + 1]
    <3>1. CASE k < i
      BY <1>1, <1>3, <1>4, <2>2, <3>1
    <3>2. CASE ~(k < i)
      <4>1. k - (i - 1) \in 1 .. Len(s) - i /\ i + (k - (i - 1)) = k + 1 /\ ~(k <= i - 1)
        BY <1>1, <1>3, <3>2
      <4>2. t[k] = b[k - (i - 1)]
        BY <1>4, <2>2, <4>1
      <4>3. b[k - (i - 1)] = s[i + (k - (i - 1))]
        BY <1>5, <4>1
      <4>4. QED  BY <3>2, <4>1, <4>2, <4>3
    <3>3. QED  BY <3>1, <3>2
  <2>4. QED  BY <2>2, <2>3
<1> HIDE DEF t
<1> DEFINE at(k) == IF k < i THEN k ELSE k + 1
<1>7. DOMAIN t = 1 .. Len(s) - 1 /\ Range(t) = {t[k] : k \in 1 .. Len(s) - 1}
  BY <1>6, LenProperties DEF Range
<1>8. \A k \in 1 .. Len(s) - 1 : at(k) \in 1 .. Len(s) /\ t[k] = s[at(k)]
  BY <1>1, <1>3, <1>6
<1>9. IsInjective(t)
  <2>1. ASSUME NEW j \in 1 .. Len(s) - 1, NEW k \in 1 .. Len(s) - 1, t[j] = t[k] PROVE j = k
    <3>1. at(j) = at(k)
      BY <1>1, <1>8, <2>1 DEF IsInjective
    <3>2. QED  BY <1>1, <1>3, <3>1
  <2>2. QED  BY <1>7, <2>1 DEF IsInjective
<1>10. Range(t) \subseteq Range(s)
  BY <1>1, <1>7, <1>8
<1>11. QED  BY <1>1, <1>2, <1>6, <1>9, <1>10, NewListing

\* A vehicle that appears was listed nowhere.
LEMMA ListKeepsSites ==
  ASSUME site \in Sites, NEW m \in Models, NEW v \in Vins, List(m, v)
  PROVE  site' \in Sites
<1> DEFINE s == site[m]
<1>1. /\ s \in Seq(Vins) /\ Len(s) \in Nat /\ DOMAIN s = 1 .. Len(s) /\ IsInjective(s)
      /\ Range(s) = {s[k] : k \in 1 .. Len(s)}
      /\ \A n \in Models : n # m => Range(s) \cap Range(site[n]) = {}
  BY Listing
<1>2. \A n \in Models : v \notin Range(site[n])
  BY DEF List, Listed
<1>3. PICK t \in {<<v>> \o s, Append(s, v)} : site' = [site EXCEPT ![m] = t]
  BY DEF List
<1>4. \A k \in 1 .. Len(s) : s[k] # v
  BY <1>1, <1>2
<1> HIDE DEF s
<1>5. CASE t = <<v>> \o s
  <2>1. <<v>> \in Seq(Vins) /\ Len(<<v>>) = 1 /\ <<v>>[1] = v
    OBVIOUS
  <2>2. /\ t \in Seq(Vins) /\ Len(t) = 1 + Len(s)
        /\ \A k \in 1 .. 1 + Len(s) : t[k] = IF k <= 1 THEN <<v>>[k] ELSE s[k - 1]
    BY <1>1, <1>5, <2>1, ConcatProperties
  <2>3. DOMAIN t = 1 .. 1 + Len(s)
    BY <2>2, LenProperties
  <2>4. \A k \in DOMAIN t : (k = 1 /\ t[k] = v) \/ (k - 1 \in 1 .. Len(s) /\ t[k] = s[k - 1])
    BY <1>1, <2>1, <2>2, <2>3
  <2>5. IsInjective(t)
    <3>1. ASSUME NEW j \in DOMAIN t, NEW k \in DOMAIN t, t[j] = t[k] PROVE j = k
      <4>1. (j = 1 /\ k = 1) \/ (j - 1 \in 1 .. Len(s) /\ k - 1 \in 1 .. Len(s) /\ s[j - 1] = s[k - 1])
        BY <1>4, <2>4, <3>1
      <4>2. j \in Int /\ k \in Int
        BY <2>3
      <4>3. QED  BY <1>1, <4>1, <4>2 DEF IsInjective
    <3>2. QED  BY <3>1 DEF IsInjective
  <2>6. Range(t) \subseteq Range(s) \cup {v}
    BY <1>1, <2>4 DEF Range
  <2>7. QED  BY <1>1, <1>2, <1>3, <2>2, <2>5, <2>6, NewListing
<1>6. CASE t = Append(s, v)
  <2>1. /\ t \in Seq(Vins) /\ Len(t) = Len(s) + 1
        /\ \A k \in 1 .. Len(s) : t[k] = s[k]
        /\ t[Len(s) + 1] = v
    BY <1>1, <1>6, AppendProperties
  <2>2. DOMAIN t = 1 .. Len(s) + 1
    BY <2>1, LenProperties
  <2>3. \A k \in DOMAIN t : (k = Len(s) + 1 /\ t[k] = v) \/ (k \in 1 .. Len(s) /\ t[k] = s[k])
    BY <1>1, <2>1, <2>2
  <2>4. IsInjective(t)
    BY <1>1, <1>4, <2>3 DEF IsInjective
  <2>5. Range(t) \subseteq Range(s) \cup {v}
    BY <1>1, <2>3 DEF Range
  <2>6. \A n \in Models : n # m => Range(t) \cap Range(site[n]) = {}
    BY <1>1, <1>2, <2>5
  <2>7. QED  BY <1>1, <1>3, <2>1, <2>4, <2>6, NewListing
<1>7. QED  BY <1>3, <1>5, <1>6

\* A page of a listing.
PageAt(m, no) == {site[m][i] : i \in {j \in 1 .. Len(site[m]) : (no - 1) * PageSize < j /\ j <= no * PageSize}}

\* Fetch reads a page of the listing.
LEMMA FetchedPage ==
  ASSUME site \in Sites, NEW m \in Models, NEW no \in Nat \ {0}
  PROVE  LET last == no * PageSize
         IN  Range(SubSeq(site[m], last - PageSize + 1, IF last > Len(site[m]) THEN Len(site[m]) ELSE last))
               = PageAt(m, no)
<1> DEFINE s    == site[m]
           last == no * PageSize
           a    == last - PageSize + 1
           b    == IF last > Len(s) THEN Len(s) ELSE last
           t    == SubSeq(s, a, b)
<1>1. s \in Seq(Vins) /\ Len(s) \in Nat /\ \A i \in 1 .. Len(s) : s[i] \in Vins
  BY Listing
<1>2. last \in Nat /\ last >= PageSize /\ (no - 1) * PageSize = last - PageSize
  <2>1. PageSize \in Nat /\ no - 1 \in Nat /\ (no - 1) * PageSize \in Nat
    OBVIOUS
  <2>2. last = (no - 1) * PageSize + PageSize
    OBVIOUS
  <2> HIDE DEF last
  <2>3. QED  BY <2>1, <2>2
<1> HIDE DEF s, last
<1>3. a \in Int /\ b \in Int /\ a >= 1 /\ b <= Len(s) /\ b <= last
      /\ \A i \in a .. b : s[i] \in Vins
  BY <1>1, <1>2
<1>4. \A i \in 1 .. Len(s) : i \in a .. b <=> (no - 1) * PageSize < i /\ i <= last
  BY <1>1, <1>2
<1> HIDE DEF a, b
<1>5. t \in Seq(Vins) /\ Len(t) = (IF a <= b THEN b - a + 1 ELSE 0) /\ \A i \in 1 .. b - a + 1 : t[i] = s[a + i - 1]
  BY <1>3, SubSeqProperties
<1> HIDE DEF t
<1>6. Range(t) = {t[k] : k \in 1 .. Len(t)}
  BY <1>5, LenProperties DEF Range
<1>7. ASSUME NEW k \in 1 .. Len(t) PROVE a + k - 1 \in a .. b /\ t[k] = s[a + k - 1]
  BY <1>3, <1>5
<1>8. ASSUME NEW i \in a .. b PROVE i - a + 1 \in 1 .. Len(t) /\ t[i - a + 1] = s[i]
  <2>1. i - a + 1 \in 1 .. b - a + 1 /\ a <= b /\ a + (i - a + 1) - 1 = i
    BY <1>3
  <2>2. QED  BY <1>5, <2>1
<1>9. Range(t) = {s[i] : i \in a .. b}
  <2>1. ASSUME NEW x \in Range(t) PROVE x \in {s[i] : i \in a .. b}
    <3>1. PICK k \in 1 .. Len(t) : x = t[k]
      BY <1>6
    <3>2. QED  BY <1>7, <3>1
  <2>2. ASSUME NEW x \in {s[i] : i \in a .. b} PROVE x \in Range(t)
    <3>1. PICK i \in a .. b : x = s[i]
      OBVIOUS
    <3>2. QED  BY <1>6, <1>8, <3>1
  <2>3. QED  BY <2>1, <2>2
<1>10. {s[i] : i \in a .. b} = {s[i] : i \in {j \in 1 .. Len(s) : (no - 1) * PageSize < j /\ j <= last}}
  <2>1. \A i \in a .. b : i \in 1 .. Len(s)
    BY <1>1, <1>3
  <2>2. QED  BY <1>4, <2>1
<1>11. QED  BY <1>9, <1>10 DEF PageAt, s, last, a, b, t

\* The pages hold the whole listing.
LEMMA PagesSuffice ==
  ASSUME site \in Sites, NEW m \in Models
  PROVE  PageCount(m) \in Nat \ {0} /\ PageCount(m) * PageSize >= Len(site[m])
<1>1. Len(site[m]) \in Nat /\ site[m] \in Seq(Vins)
  BY Listing
<1>2. CASE site[m] = <<>>
  BY <1>1, <1>2 DEF PageCount
<1>3. CASE site[m] # <<>>
  <2>1. Len(site[m]) \in Nat \ {0}
    BY <1>1, <1>3, EmptySeq
  <2> DEFINE n == Len(site[m])
             k == (n + PageSize - 1) \div PageSize
  <2>2. PageCount(m) = k
    BY <1>3 DEF PageCount
  <2> HIDE DEF n
  <2>3. n \in Nat \ {0}
    BY <2>1 DEF n
  <2>4. k \in Nat /\ k * PageSize >= n
    BY <2>3
  <2> HIDE DEF k
  <2>5. k # 0
    BY <2>3, <2>4
  <2>6. QED  BY <2>2, <2>4, <2>5 DEF n
<1>4. QED  BY <1>2, <1>3

-----------------------------------------------------------------------------
(* Type correctness, and what a step of a run leaves alone.                *)

Page == [no : Nat \ {0}, total : Nat \ {0}, vins : SUBSET Vins]
Tx   == [rows : SUBSET Vins, off : SUBSET Vins, marked : BOOLEAN,
         pointers : {"kept", "deleted", "inserted"}, latest : [Models -> Runs \cup {NoRun}]]

\* The disjuncts of Next, the steps of the site and of a run.
SiteStep  == \E m \in Models : (\E i \in DOMAIN site[m] : Sell(m, i)) \/ (\E v \in Vins : List(m, v))
RunStep(r) ==
  \/ \E m \in Models : CreateRun(r, m)
  \/ Fetch(r) \/ FetchFails(r) \/ WritePage(r) \/ WritePageFails(r)
  \/ Mark(r) \/ DeletePointers(r) \/ InsertPointers(r) \/ Commit(r)
  \/ DeadlockStatement(r) \/ StatementFails(r) \/ Dies(r)

\* What is known of the values of a run.
LEMMA RunTypes ==
  ASSUME TypeOK, NEW r \in Runs
  PROVE  /\ page[r] \in Page /\ tx[r] \in Tx /\ of[r] \in Models \cup {NoModel}
         /\ snap[r] \in SUBSET Vins
  BY DEF TypeOK, Page, Tx

-----------------------------------------------------------------------------
(* The fullest run of a model.                                             *)

\* Natural numbers are well-founded.
LEMMA LeastNatural ==
  ASSUME NEW T \in SUBSET Nat, T # {}
  PROVE  \E m \in T : \A n \in T : m <= n
<1> DEFINE R == {ss \in Nat \X Nat : ss[1] < ss[2]}
<1>1. PICK m \in T : \A n \in T : <<n, m>> \notin R
  <2>1. IsWellFoundedOn(R, Nat)
    BY NatLessThanWellFounded, Zenon DEF OpToRel
  <2> HIDE DEF R
  <2>2. QED  BY <2>1, WFMin
<1>2. ASSUME NEW n \in T PROVE m <= n
  <2>1. n \in Nat /\ m \in Nat
    OBVIOUS
  <2>2. <<n, m>> \in Nat \X Nat /\ <<n, m>>[1] = n /\ <<n, m>>[2] = m
    BY <2>1
  <2>3. ~(n < m)
    BY <1>1, <2>2
  <2>4. QED  BY <2>1, <2>3
<1> HIDE DEF R
<1>3. QED  BY <1>2

\* A bounded set of natural numbers has a maximum.
LEMMA GreatestNatural ==
  ASSUME NEW T \in SUBSET Nat, T # {}, NEW b \in Nat, \A n \in T : n <= b
  PROVE  \E m \in T : \A n \in T : n <= m
<1> DEFINE D == {d \in Nat : b - d \in T}
<1>1. PICK d \in D : \A e \in D : d <= e
  <2>1. PICK t \in T : TRUE
    OBVIOUS
  <2>2. D \in SUBSET Nat /\ b - t \in D
    BY <2>1
  <2> HIDE DEF D
  <2>3. QED  BY <2>2, LeastNatural
<1>2. b - d \in T /\ d \in Nat
  OBVIOUS
<1>3. ASSUME NEW n \in T PROVE n <= b - d
  <2>1. n \in Nat /\ b - n \in Nat /\ b - (b - n) = n
    OBVIOUS
  <2>2. d <= b - n
    BY <1>1, <2>1
  <2>3. QED  BY <1>2, <2>1, <2>2
<1>4. QED  BY <1>2, <1>3

\* How many vehicles of a model a run has.
Size(m, q, runs, so) == Cardinality({v \in runs[q] : so[v] = m})

\* No more than there are.
LEMMA SizeType ==
  ASSUME NEW runs \in [Runs -> SUBSET Vins], NEW q \in Runs, NEW m, NEW so
  PROVE  /\ Size(m, q, runs, so) \in Nat /\ Size(m, q, runs, so) <= Cardinality(Vins)
         /\ Size(m, q, runs, so) = 0 <=> {v \in runs[q] : so[v] = m} = {}
<1>1. {v \in runs[q] : so[v] = m} \subseteq Vins
  OBVIOUS
<1>2. IsFiniteSet({v \in runs[q] : so[v] = m}) /\ Size(m, q, runs, so) <= Cardinality(Vins)
  BY <1>1, FS_Subset DEF Size
<1>3. QED  BY <1>2, FS_CardinalityType, FS_EmptySet DEF Size

\* The query for the pointers finds a run if one has vehicles of the model, none
\* of the others has more, and none that started later has as many.
LEMMA FullestIsFullest ==
  ASSUME NEW runs \in [Runs -> SUBSET Vins], NEW so, NEW m
  PROVE  \/ /\ Fullest(m, runs, so) = NoRun
            /\ \A q \in Runs : Size(m, q, runs, so) = 0
         \/ /\ Fullest(m, runs, so) \in Runs
            /\ Size(m, Fullest(m, runs, so), runs, so) > 0
            /\ \A q \in Runs : \/ Size(m, q, runs, so) < Size(m, Fullest(m, runs, so), runs, so)
                               \/ /\ Size(m, q, runs, so) = Size(m, Fullest(m, runs, so), runs, so)
                                  /\ q <= Fullest(m, runs, so)
<1> DEFINE S(q)         == Size(m, q, runs, so)
           found        == {q \in Runs : S(q) > 0}
           Before(x, y) == S(y) < S(x) \/ (S(y) = S(x) /\ y <= x)
<1>1. \A q \in Runs : S(q) \in Nat /\ S(q) <= Cardinality(Vins)
  BY SizeType
<1>2. found \subseteq Runs
  OBVIOUS
<1>3. Cardinality(Vins) \in Nat
  BY FS_CardinalityType
<1>4. Fullest(m, runs, so) = IF found = {} THEN NoRun
                             ELSE CHOOSE q \in found : \A p \in found : Before(q, p)
  BY Zenon DEF Fullest, Size
<1>5. CASE found = {}
  <2>1. \A q \in Runs : S(q) = 0
    BY <1>1, <1>5
  <2>2. QED  BY <1>4, <1>5, <2>1
<1>6. CASE found # {}
  <2>0. \A q \in found : S(q) \in Nat /\ S(q) > 0
    BY <1>1
  <2>1. \A q \in Runs : q \in found \/ S(q) = 0
    BY <1>1
  <2> HIDE DEF S, found
  <2>2. PICK c \in {S(q) : q \in found} : \A n \in {S(q) : q \in found} : n <= c
    <3>1. {S(q) : q \in found} \in SUBSET Nat /\ {S(q) : q \in found} # {}
      BY <1>6, <2>0
    <3>2. \A n \in {S(q) : q \in found} : n <= Cardinality(Vins)
      BY <1>1, <1>2
    <3>3. QED  BY <1>3, <3>1, <3>2, GreatestNatural
  <2>3. PICK q \in {x \in found : S(x) = c} : \A x \in {y \in found : S(y) = c} : x <= q
    <3>1. {x \in found : S(x) = c} \in SUBSET Nat /\ {x \in found : S(x) = c} # {}
      BY <1>2, <2>2
    <3>2. \A x \in {y \in found : S(y) = c} : x <= MaxRun
      BY <1>2
    <3>3. QED  BY <3>1, <3>2, GreatestNatural
  <2>4. ASSUME NEW x \in found PROVE Before(q, x)
    <3>1. S(q) = c /\ S(x) <= c /\ S(x) \in Nat /\ S(q) \in Nat
      BY <2>0, <2>2, <2>3
    <3>2. S(x) = c => x <= q
      BY <2>3
    <3>3. QED  BY <3>1, <3>2
  <2> DEFINE f == CHOOSE y \in found : \A x \in found : Before(y, x)
  <2>5. f \in found /\ \A x \in found : Before(f, x)
    BY <2>3, <2>4
  <2>6. Fullest(m, runs, so) = f
    BY <1>4, <1>6
  <2> HIDE DEF f
  <2>7. \A x \in Runs : Before(f, x)
    BY <2>0, <2>1, <2>5
  <2>8. QED  BY <1>2, <2>0, <2>5, <2>6, <2>7 DEF S
<1>7. QED  BY <1>5, <1>6

-----------------------------------------------------------------------------
(* The strengthening.  First the order of a run's steps.                   *)

\* A run starts with an empty page and after all earlier ones, gives up or
\* fails only past the pages, marks only when it has read them all, and keeps no
\* transaction open between the pages or after its end.
PagesInv ==
  \A r \in Runs :
    /\ pc[r] # "new" => of[r] \in Models /\ \A q \in Runs : q < r => pc[q] # "new"
    /\ pc[r] = "new" => page[r] = NoPage /\ snap[r] = {}
    /\ pc[r] \in {"new", "fetch", "write", "mark"} => ~partial[r] /\ ~failing[r]
    /\ pc[r] = "mark" => page[r].no > page[r].total
    /\ ~Alive(r) \/ pc[r] \in {"fetch", "write", "mark"} => tx[r] = NoTx

Ordered == TypeOK /\ PagesInv

\* What a step of run r leaves alone.
Frame(r) ==
  /\ site' = site
  /\ \A q \in Runs \ {r} :
       /\ pc'[q] = pc[q] /\ of'[q] = of[q] /\ page'[q] = page[q] /\ snap'[q] = snap[q]
       /\ partial'[q] = partial[q] /\ failing'[q] = failing[q] /\ tx'[q] = tx[q]

-----------------------------------------------------------------------------
(* What each step of a run does.                                           *)

\* Where it goes and what stays are all that most steps are known by.
Stays(r) ==
  /\ of'[r] = of[r] /\ page'[r] = page[r] /\ snap' = snap /\ seriesOf' = seriesOf
  /\ active' = active /\ latest' = latest

\* create_run takes the next run.
LEMMA CreateEffect ==
  ASSUME Ordered, NEW r \in Runs, NEW m \in Models, CreateRun(r, m)
  PROVE  /\ TypeOK' /\ Frame(r)
         /\ pc[r] = "new" /\ pc'[r] = "fetch" /\ of'[r] = m /\ page' = page /\ tx' = tx
         /\ partial' = partial /\ failing' = failing
         /\ snap' = snap /\ seriesOf' = seriesOf /\ active' = active /\ latest' = latest
<1> USE DEF Ordered, TypeOK
<1>1. TypeOK'
  BY DEF CreateRun, Goto, SiteStays, db, Alive, Ended
<1>2. QED  BY <1>1 DEF CreateRun, Goto, SiteStays, db, Frame

\* Fetch gets the page of the listing.
LEMMA FetchEffect ==
  ASSUME Ordered, NEW r \in Runs, Fetch(r)
  PROVE  /\ TypeOK' /\ Frame(r)
         /\ pc[r] = "fetch" /\ pc'[r] = "write" /\ of[r] \in Models
         /\ page'[r].no = page[r].no /\ page'[r].vins = PageAt(of[r], page[r].no)
         /\ page'[r].total = IF page[r].no = 1 THEN PageCount(of[r]) ELSE page[r].total
         /\ of' = of /\ tx' = tx /\ partial' = partial /\ failing' = failing /\ clean' = clean
         /\ snap' = snap /\ seriesOf' = seriesOf /\ active' = active /\ latest' = latest
<1> DEFINE k == IF page[r].no = 1 THEN PageCount(of[r]) ELSE page[r].total
           b == IF page[r].no * PageSize > Len(site[of[r]]) THEN Len(site[of[r]]) ELSE page[r].no * PageSize
           l == Range(SubSeq(site[of[r]], page[r].no * PageSize - PageSize + 1, b))
           p == [page[r] EXCEPT !.vins = l, !.total = k]
<1>1. of[r] \in Models /\ site \in Sites /\ page[r] \in Page /\ page \in [Runs -> Page]
  BY RunTypes DEF Ordered, PagesInv, Fetch, TypeOK, Page
<1>2. k \in Nat \ {0}
  BY <1>1, PagesSuffice DEF Page
<1>3. l = PageAt(of[r], page[r].no) /\ l \subseteq Vins
  <2>1. l = PageAt(of[r], page[r].no)
    BY <1>1, FetchedPage DEF Page
  <2> HIDE DEF l
  <2>2. PageAt(of[r], page[r].no) \subseteq Vins
    BY <1>1, Listing DEF PageAt
  <2>3. QED  BY <2>1, <2>2
<1>4. page' = [page EXCEPT ![r].vins = l, ![r].total = IF page[r].no = 1 THEN PageCount(of[r]) ELSE @]
  BY Zenon DEF Fetch
<1> HIDE DEF l, b
<1>5. page' = [page EXCEPT ![r] = p]
  BY <1>1, <1>4
<1> HIDE DEF k
<1>6. p \in Page /\ p.no = page[r].no /\ p.vins = l /\ p.total = k
  BY <1>1, <1>2, <1>3 DEF Page
<1> HIDE DEF p
<1>7. page' \in [Runs -> Page] /\ page'[r] = p /\ \A q \in Runs \ {r} : page'[q] = page[q]
  BY <1>1, <1>5, <1>6
<1>8. /\ pc[r] = "fetch" /\ pc' = [pc EXCEPT ![r] = "write"] /\ site' = site /\ changes' = changes
      /\ UNCHANGED <<seriesOf, active, snap, latest, of, partial, failing, tx, clean>>
  BY DEF Fetch, Goto, SiteStays, db
<1>9. TypeOK'
  BY <1>7, <1>8 DEF Ordered, TypeOK, Page
<1>10. Frame(r) /\ pc'[r] = "write"
  BY <1>7, <1>8 DEF Frame, Ordered, TypeOK
<1>11. QED  BY <1>1, <1>3, <1>6, <1>7, <1>8, <1>9, <1>10 DEF k

\* An exception ends the run when it is met on the first page, else the fetch
\* is partial.
GivesUp(r) ==
  /\ pc'[r] = "delete"
  /\ partial'[r] \/ failing'[r]

\* What GiveUp does.
LEMMA GiveUpEffect ==
  ASSUME Ordered, NEW r \in Runs, GiveUp(r)
  PROVE  /\ GivesUp(r)
         /\ pc' \in [Runs -> {"new", "fetch", "write", "mark", "delete", "insert", "commit"} \cup Ended]
         /\ partial' \in [Runs -> BOOLEAN] /\ failing' \in [Runs -> BOOLEAN]
         /\ \A q \in Runs \ {r} : pc'[q] = pc[q] /\ partial'[q] = partial[q] /\ failing'[q] = failing[q]
<1> USE DEF Ordered, TypeOK
<1>1. pc' = [pc EXCEPT ![r] = "delete"]
  BY DEF GiveUp, Goto
<1>2. CASE page[r].no = 1
  <2>1. failing' = [failing EXCEPT ![r] = TRUE] /\ partial' = partial
    BY <1>2 DEF GiveUp
  <2>2. QED  BY <1>1, <2>1 DEF GivesUp
<1>3. CASE page[r].no # 1
  <2>1. partial' = [partial EXCEPT ![r] = TRUE] /\ failing' = failing
    BY <1>3 DEF GiveUp
  <2>2. QED  BY <1>1, <2>1 DEF GivesUp
<1>4. QED  BY <1>2, <1>3

\* A page that cannot be fetched.
LEMMA FetchFailsEffect ==
  ASSUME Ordered, NEW r \in Runs, FetchFails(r)
  PROVE  TypeOK' /\ Frame(r) /\ pc[r] = "fetch" /\ GivesUp(r) /\ Stays(r) /\ tx' = tx /\ clean' = clean
<1>1. GiveUp(r) /\ pc[r] = "fetch" /\ UNCHANGED <<site, changes, seriesOf, active, snap, latest, of, page, tx, clean>>
  BY DEF FetchFails, SiteStays, db
<1>2. QED  BY <1>1, GiveUpEffect DEF Ordered, TypeOK, Frame, Stays

\* The vehicles of a page get the run's model, a row of the run and is_active.
LEMMA WriteEffect ==
  ASSUME Ordered, NEW r \in Runs, WritePage(r)
  PROVE  /\ TypeOK' /\ Frame(r)
         /\ pc[r] = "write" /\ PageFree(r) /\ of' = of /\ tx' = tx /\ latest' = latest /\ clean' = clean
         /\ snap'[r] = snap[r] \cup page[r].vins
         /\ seriesOf' = [v \in Vins |-> IF v \in page[r].vins THEN of[r] ELSE seriesOf[v]]
         /\ active' = active \cup page[r].vins
         /\ \/ /\ pc'[r] = IF page[r].no < page[r].total THEN "fetch" ELSE "mark"
               /\ page'[r].no = page[r].no + 1 /\ page'[r].total = page[r].total /\ page'[r].vins = {}
               /\ partial' = partial /\ failing' = failing
            \/ GivesUp(r) /\ page' = page
<1> DEFINE n == page[r].no + 1
           p == [page[r] EXCEPT !.no = n, !.vins = {}]
<1>1. page[r] \in Page /\ page \in [Runs -> Page] /\ of[r] \in Models \cup {NoModel}
  BY RunTypes DEF Ordered, TypeOK, Page
<1>2. /\ p \in Page /\ p.no = page[r].no + 1 /\ p.total = page[r].total /\ p.vins = {}
      /\ page[r].vins \subseteq Vins
  <2>1. n \in Nat \ {0} /\ page[r].vins \subseteq Vins
    BY <1>1 DEF Page
  <2>2. n = page[r].no + 1
    OBVIOUS
  <2> HIDE DEF n
  <2>3. p \in Page /\ p.no = n /\ p.total = page[r].total /\ p.vins = {}
    BY <1>1, <2>1 DEF Page
  <2>4. QED  BY <2>1, <2>2, <2>3
<1>3. /\ pc[r] = "write" /\ PageFree(r)
      /\ UNCHANGED <<site, changes, latest, of, tx, clean>>
      /\ snap' = [snap EXCEPT ![r] = @ \cup page[r].vins]
      /\ seriesOf' = [v \in Vins |-> IF v \in page[r].vins THEN of[r] ELSE seriesOf[v]]
      /\ active' = active \cup page[r].vins
  BY DEF WritePage, SiteStays
<1>4. /\ snap' \in [Runs -> SUBSET Vins] /\ snap'[r] = snap[r] \cup page[r].vins
      /\ \A q \in Runs \ {r} : snap'[q] = snap[q]
  BY <1>2, <1>3 DEF Ordered, TypeOK
<1>5. seriesOf' \in [Vins -> Models \cup {NoModel}] /\ active' \subseteq Vins
  BY <1>1, <1>2, <1>3 DEF Ordered, TypeOK
<1>6. CASE GiveUp(r) /\ page' = page
  BY <1>3, <1>4, <1>5, <1>6, GiveUpEffect DEF Ordered, TypeOK, Frame
<1>7. CASE ~(GiveUp(r) /\ page' = page)
  <2>1. /\ pc' = [pc EXCEPT ![r] = IF page[r].no < page[r].total THEN "fetch" ELSE "mark"]
        /\ page' = [page EXCEPT ![r].no = @ + 1, ![r].vins = {}]
        /\ UNCHANGED <<partial, failing>>
    BY <1>7 DEF WritePage, Goto
  <2>2. page' = [page EXCEPT ![r] = p]
    BY <1>1, <2>1
  <2> HIDE DEF p
  <2>3. page' \in [Runs -> Page] /\ page'[r] = p /\ \A q \in Runs \ {r} : page'[q] = page[q]
    BY <1>1, <1>2, <2>2
  <2>4. TypeOK'
    BY <1>3, <1>4, <1>5, <2>1, <2>3 DEF Ordered, TypeOK, Page
  <2>5. Frame(r) /\ pc'[r] = IF page[r].no < page[r].total THEN "fetch" ELSE "mark"
    BY <1>3, <1>4, <2>1, <2>3 DEF Ordered, TypeOK, Frame
  <2>6. QED  BY <1>2, <1>3, <1>4, <2>1, <2>3, <2>4, <2>5
<1>8. QED  BY <1>6, <1>7

\* A transaction that is replaced.
LEMMA TxEffect ==
  ASSUME Ordered, NEW r \in Runs, NEW t \in Tx, tx' = [tx EXCEPT ![r] = t]
  PROVE  /\ tx' \in [Runs -> Tx] /\ tx'[r] = t
         /\ \A q \in Runs \ {r} : tx'[q] = tx[q]
BY DEF Ordered, TypeOK, Tx

\* An empty transaction is one.
LEMMA NoTxType == NoTx \in Tx
BY DEF NoTx, Tx

\* The statements of a page that went through stay in the transaction.
LEMMA WriteFailsEffect ==
  ASSUME Ordered, NEW r \in Runs, WritePageFails(r)
  PROVE  /\ TypeOK' /\ Frame(r) /\ Stays(r)
         /\ pc[r] = "write" /\ GivesUp(r) /\ clean' = clean
         /\ \/ /\ PageFree(r) /\ tx'[r].rows \subseteq page[r].vins /\ tx'[r].off = tx[r].off
               /\ tx'[r].marked = tx[r].marked /\ tx'[r].pointers = tx[r].pointers
            \/ tx' = tx
<1>1. /\ pc[r] = "write" /\ GiveUp(r)
      /\ UNCHANGED <<site, changes, seriesOf, active, snap, latest, of, page, clean>>
  BY DEF WritePageFails, SiteStays, db
<1>2. tx \in [Runs -> Tx] /\ tx[r] \in Tx /\ page[r].vins \subseteq Vins
  BY RunTypes DEF Ordered, TypeOK, Tx, Page
<1>3. CASE tx' = tx
  <2>1. TypeOK' /\ Frame(r)
    BY <1>1, <1>2, <1>3, GiveUpEffect DEF Ordered, TypeOK, Frame, Tx
  <2>2. QED  BY <1>1, <1>3, <2>1, GiveUpEffect DEF Stays
<1>4. CASE tx' # tx
  <2>1. PICK done \in SUBSET page[r].vins : tx' = [tx EXCEPT ![r].rows = done]
    BY <1>4, Zenon DEF WritePageFails
  <2> DEFINE t == [tx[r] EXCEPT !.rows = done]
  <2>2. done \subseteq Vins
    BY <1>2
  <2>3. t \in Tx /\ t.rows = done /\ t.off = tx[r].off /\ t.marked = tx[r].marked /\ t.pointers = tx[r].pointers
    BY <1>2, <2>2 DEF Tx
  <2>4. tx' = [tx EXCEPT ![r] = t]
    BY <1>2, <2>1
  <2> HIDE DEF t
  <2>5. tx' \in [Runs -> Tx] /\ tx'[r] = t /\ \A q \in Runs \ {r} : tx'[q] = tx[q]
    BY <2>3, <2>4, TxEffect
  <2>6. TypeOK' /\ Frame(r)
    BY <1>1, <2>5, GiveUpEffect DEF Ordered, TypeOK, Frame, Tx
  <2>7. PageFree(r)
    BY <1>4 DEF WritePageFails
  <2>8. QED  BY <1>1, <2>3, <2>5, <2>6, <2>7, GiveUpEffect DEF Stays
<1>5. QED  BY <1>3, <1>4

\* A step that changes only where the run is and what it has written.
LEMMA StatementEffect ==
  ASSUME Ordered, NEW r \in Runs, NEW t \in Tx, tx' = [tx EXCEPT ![r] = t],
         NEW at \in {"new", "fetch", "write", "mark", "delete", "insert", "commit"} \cup Ended,
         pc' = [pc EXCEPT ![r] = at],
         UNCHANGED <<site, changes, db, of, page, partial>>,
         failing' \in [Runs -> BOOLEAN], \A q \in Runs \ {r} : failing'[q] = failing[q],
         clean' \in [Runs -> BOOLEAN]
  PROVE  TypeOK' /\ Frame(r) /\ Stays(r) /\ tx'[r] = t /\ pc'[r] = at /\ partial' = partial
<1>1. tx' \in [Runs -> Tx] /\ tx'[r] = t /\ \A q \in Runs \ {r} : tx'[q] = tx[q]
  BY TxEffect
<1>2. QED  BY <1>1 DEF Ordered, TypeOK, Frame, Stays, Tx, db

\* Mark hides what was not seen.
LEMMA MarkEffect ==
  ASSUME Ordered, NEW r \in Runs, Mark(r)
  PROVE  /\ TypeOK' /\ Frame(r) /\ Stays(r) /\ pc[r] = "mark" /\ pc'[r] = "delete"
         /\ tx'[r].off = NotSeen(r) /\ tx'[r].marked /\ tx'[r].rows = tx[r].rows
         /\ tx'[r].pointers = tx[r].pointers
         /\ partial' = partial /\ failing' = failing /\ clean' = clean
<1> DEFINE n == NotSeen(r)
           t == [tx[r] EXCEPT !.off = n, !.marked = TRUE]
<1>1. tx \in [Runs -> Tx] /\ tx[r] \in Tx /\ n \subseteq Vins
  BY RunTypes DEF Ordered, TypeOK, Tx, NotSeen
<1>2. /\ tx' = [tx EXCEPT ![r].off = n, ![r].marked = TRUE]
      /\ pc[r] = "mark" /\ pc' = [pc EXCEPT ![r] = "delete"]
      /\ UNCHANGED <<site, changes, db, of, page, partial, failing, clean>>
  BY DEF Mark, Goto, SiteStays
<1> HIDE DEF n
<1>3. t \in Tx /\ t.off = n /\ t.marked /\ t.rows = tx[r].rows /\ t.pointers = tx[r].pointers
  BY <1>1 DEF Tx
<1>4. tx' = [tx EXCEPT ![r] = t]
  BY <1>1, <1>2
<1> HIDE DEF t
<1>5. TypeOK' /\ Frame(r) /\ Stays(r) /\ tx'[r] = t /\ pc'[r] = "delete"
  BY <1>2, <1>3, <1>4, StatementEffect DEF Ordered, TypeOK
<1>6. QED  BY <1>2, <1>3, <1>5 DEF n

\* The pointers are deleted.
LEMMA DeleteEffect ==
  ASSUME Ordered, NEW r \in Runs, DeletePointers(r)
  PROVE  /\ TypeOK' /\ Frame(r) /\ Stays(r) /\ PointersFree(r) /\ pc[r] = "delete" /\ pc'[r] = "insert"
         /\ tx'[r].off = tx[r].off /\ tx'[r].marked = tx[r].marked /\ tx'[r].rows = tx[r].rows
         /\ tx'[r].pointers = "deleted"
         /\ partial' = partial /\ failing' = failing /\ clean' = clean
<1> DEFINE t == [tx[r] EXCEPT !.pointers = "deleted"]
<1>1. tx \in [Runs -> Tx] /\ tx[r] \in Tx
  BY RunTypes DEF Ordered, TypeOK, Tx
<1>2. /\ tx' = [tx EXCEPT ![r].pointers = "deleted"] /\ PointersFree(r)
      /\ pc[r] = "delete" /\ pc' = [pc EXCEPT ![r] = "insert"]
      /\ UNCHANGED <<site, changes, db, of, page, partial, failing, clean>>
  BY DEF DeletePointers, Goto, SiteStays
<1>3. t \in Tx /\ t.off = tx[r].off /\ t.marked = tx[r].marked /\ t.rows = tx[r].rows /\ t.pointers = "deleted"
  BY <1>1 DEF Tx
<1>4. tx' = [tx EXCEPT ![r] = t]
  BY <1>1, <1>2
<1> HIDE DEF t
<1>5. TypeOK' /\ Frame(r) /\ Stays(r) /\ tx'[r] = t /\ pc'[r] = "insert"
  BY <1>2, <1>3, <1>4, StatementEffect DEF Ordered, TypeOK
<1>6. QED  BY <1>2, <1>3, <1>5

\* The pointers are inserted: for each model the fullest run, or what is there.
LEMMA InsertEffect ==
  ASSUME Ordered, NEW r \in Runs, InsertPointers(r)
  PROVE  /\ TypeOK' /\ Frame(r) /\ Stays(r) /\ PointersFree(r) /\ pc[r] = "insert" /\ pc'[r] = "commit"
         /\ \A q \in Others(r) : tx[q].rows = {} /\ tx[q].off = {}
         /\ tx'[r].off = tx[r].off /\ tx'[r].marked = tx[r].marked /\ tx'[r].rows = tx[r].rows
         /\ tx'[r].pointers = "inserted"
         /\ \A m \in Models : Fullest(m, SeenRuns(r), SeenSeries(r)) \in {NoRun, tx'[r].latest[m]}
         /\ partial' = partial /\ failing' = failing /\ clean' = clean
<1> DEFINE new   == [m \in Models |-> Fullest(m, SeenRuns(r), SeenSeries(r))]
           there == {m \in Models : tx[r].pointers = "kept" /\ latest[m] # NoRun}
           L     == [m \in Models |-> IF m \in there THEN latest[m] ELSE new[m]]
           t     == [tx[r] EXCEPT !.pointers = "inserted", !.latest = L]
<1>1. tx \in [Runs -> Tx] /\ tx[r] \in Tx /\ latest \in [Models -> Runs \cup {NoRun}]
  BY RunTypes DEF Ordered, TypeOK, Tx
<1>2. /\ tx' = [tx EXCEPT ![r].pointers = "inserted", ![r].latest = L] /\ PointersFree(r)
      /\ pc[r] = "insert" /\ pc' = [pc EXCEPT ![r] = "commit"]
      /\ \A m \in there : new[m] = NoRun
      /\ \A q \in Others(r) : tx[q].rows = {} /\ tx[q].off = {}
      /\ UNCHANGED <<site, changes, db, of, page, partial, failing, clean>>
  BY DEF InsertPointers, Goto, SiteStays
<1>3. SeenRuns(r) \in [Runs -> SUBSET Vins]
  BY <1>1 DEF SeenRuns, Ordered, TypeOK, Tx
<1>4. \A m \in Models : new[m] = Fullest(m, SeenRuns(r), SeenSeries(r)) /\ new[m] \in Runs \cup {NoRun}
  BY <1>3, FullestIsFullest
<1> HIDE DEF new
<1>5. L \in [Models -> Runs \cup {NoRun}] /\ \A m \in Models : new[m] \in {NoRun, L[m]}
  BY <1>1, <1>2, <1>4
<1> HIDE DEF L
<1>6. t \in Tx /\ t.off = tx[r].off /\ t.marked = tx[r].marked /\ t.rows = tx[r].rows /\ t.pointers = "inserted" /\ t.latest = L
  BY <1>1, <1>5 DEF Tx
<1>7. tx' = [tx EXCEPT ![r] = t]
  BY <1>1, <1>2
<1> HIDE DEF t
<1>8. TypeOK' /\ Frame(r) /\ Stays(r) /\ tx'[r] = t /\ pc'[r] = "commit"
  BY <1>2, <1>6, <1>7, StatementEffect DEF Ordered, TypeOK
<1>9. QED  BY <1>2, <1>4, <1>5, <1>6, <1>8

\* The transaction is committed.
LEMMA CommitEffect ==
  ASSUME Ordered, NEW r \in Runs, Commit(r)
  PROVE  /\ TypeOK' /\ Frame(r) /\ pc[r] = "commit" /\ pc'[r] = (IF failing[r] THEN "failed" ELSE "done")
         /\ snap' = SeenRuns(r) /\ snap'[r] = snap[r] \cup tx[r].rows
         /\ seriesOf' = SeenSeries(r)
         /\ active' = (active \cup tx[r].rows) \ tx[r].off
         /\ latest' = tx[r].latest
         /\ tx'[r] = NoTx /\ of' = of /\ page' = page
         /\ partial' = partial /\ failing' = failing /\ clean' = clean
<1>1. /\ tx \in [Runs -> Tx] /\ tx[r] \in Tx /\ of[r] \in Models \cup {NoModel}
      /\ tx[r].rows \subseteq Vins /\ tx[r].latest \in [Models -> Runs \cup {NoRun}]
      /\ seriesOf \in [Vins -> Models \cup {NoModel}] /\ snap \in [Runs -> SUBSET Vins]
  BY RunTypes DEF Ordered, TypeOK, Tx
<1>2. /\ snap' = SeenRuns(r) /\ seriesOf' = SeenSeries(r)
      /\ active' = (active \cup tx[r].rows) \ tx[r].off
      /\ latest' = tx[r].latest /\ tx' = [tx EXCEPT ![r] = NoTx]
      /\ pc[r] = "commit" /\ pc' = [pc EXCEPT ![r] = IF failing[r] THEN "failed" ELSE "done"]
      /\ UNCHANGED <<site, changes, of, page, partial, failing, clean>>
  BY DEF Commit, Forget, Goto, SiteStays
<1>3. /\ snap' \in [Runs -> SUBSET Vins] /\ snap'[r] = snap[r] \cup tx[r].rows
      /\ \A q \in Runs \ {r} : snap'[q] = snap[q]
  BY <1>1, <1>2 DEF SeenRuns
<1>4. seriesOf' \in [Vins -> Models \cup {NoModel}]
  BY <1>1, <1>2 DEF SeenSeries
<1>5. tx' \in [Runs -> Tx] /\ tx'[r] = NoTx /\ \A q \in Runs \ {r} : tx'[q] = tx[q]
  BY <1>2, TxEffect, NoTxType
<1>6. active' \subseteq Vins
  BY <1>1, <1>2 DEF Ordered, TypeOK
<1>7. TypeOK'
  BY <1>1, <1>2, <1>3, <1>4, <1>5, <1>6 DEF Ordered, TypeOK, Tx, Ended
<1>8. Frame(r) /\ pc'[r] = (IF failing[r] THEN "failed" ELSE "done")
  BY <1>2, <1>3, <1>5 DEF Frame, Ordered, TypeOK
<1>9. QED  BY <1>2, <1>3, <1>5, <1>7, <1>8

\* What a transaction has written is lost, or stays, when a statement fails.
LEMMA FailureEffect ==
  ASSUME Ordered, NEW r \in Runs, DeadlockStatement(r) \/ StatementFails(r)
  PROVE  /\ TypeOK' /\ Frame(r) /\ Stays(r)
         /\ pc[r] \in {"mark", "delete", "insert"} /\ pc'[r] \in {"delete", "insert"}
         /\ pc[r] = "mark" => pc'[r] = "delete" /\ failing'[r]
         /\ tx'[r] \in {NoTx, tx[r]} /\ partial' = partial /\ (failing[r] => failing'[r])
         /\ clean' = [clean EXCEPT ![r] = FALSE]
<1>1. tx \in [Runs -> Tx] /\ tx[r] \in Tx /\ tx = [tx EXCEPT ![r] = tx[r]]
  BY RunTypes DEF Ordered, TypeOK, Tx
<1>2. clean' = [clean EXCEPT ![r] = FALSE] /\ UNCHANGED <<site, changes, db, of, page, partial>>
  BY DEF DeadlockStatement, StatementFails, Soil, SiteStays
<1>3. clean' \in [Runs -> BOOLEAN]
  BY <1>2 DEF Ordered, TypeOK
<1>4. PICK t \in {NoTx, tx[r]} : tx' = [tx EXCEPT ![r] = t]
  BY <1>1 DEF DeadlockStatement, StatementFails, Forget
<1>5. t \in Tx
  BY <1>1, <1>4, NoTxType
<1>6. CASE DeadlockStatement(r)
  <2>1. pc[r] \in {"delete", "insert"} /\ pc' = [pc EXCEPT ![r] = pc[r]] /\ failing' = failing
    BY <1>6 DEF DeadlockStatement, Ordered, TypeOK
  <2>2. TypeOK' /\ Frame(r) /\ Stays(r) /\ tx'[r] = t /\ pc'[r] = pc[r]
    BY <1>2, <1>3, <1>4, <1>5, <2>1, StatementEffect DEF Ordered, TypeOK
  <2>3. QED  BY <1>2, <1>4, <2>1, <2>2
<1>7. CASE StatementFails(r)
  <2>1. /\ pc[r] \in {"mark", "delete", "insert"} /\ pc' = [pc EXCEPT ![r] = "delete"]
        /\ failing' = [failing EXCEPT ![r] = TRUE]
    BY <1>7 DEF StatementFails, Goto
  <2>2. failing' \in [Runs -> BOOLEAN] /\ failing'[r] /\ \A q \in Runs \ {r} : failing'[q] = failing[q]
    BY <2>1 DEF Ordered, TypeOK
  <2>3. TypeOK' /\ Frame(r) /\ Stays(r) /\ tx'[r] = t /\ pc'[r] = "delete"
    BY <1>2, <1>3, <1>4, <1>5, <2>1, <2>2, StatementEffect
  <2>4. QED  BY <1>2, <1>4, <2>1, <2>2, <2>3
<1>8. QED  BY <1>6, <1>7

\* A connection that is closed loses its transaction.
LEMMA DiesEffect ==
  ASSUME Ordered, NEW r \in Runs, Dies(r)
  PROVE  /\ TypeOK' /\ Frame(r) /\ Stays(r)
         /\ Alive(r) /\ pc'[r] \in {"failed", "killed"} /\ tx'[r] = NoTx
         /\ partial' = partial /\ failing' = failing /\ clean' = clean
<1>1. PICK at \in {"failed", "killed"} : pc' = [pc EXCEPT ![r] = at]
  BY DEF Dies, Goto
<1>2. /\ tx' = [tx EXCEPT ![r] = NoTx] /\ Alive(r)
      /\ UNCHANGED <<site, changes, db, of, page, partial, failing, clean>>
  BY DEF Dies, Forget, SiteStays, Alive, Ended
<1>3. TypeOK' /\ Frame(r) /\ Stays(r) /\ tx'[r] = NoTx /\ pc'[r] = at
  BY <1>1, <1>2, NoTxType, StatementEffect DEF Ordered, TypeOK, Ended
<1>4. QED  BY <1>1, <1>2, <1>3

\* The site changes; the runs and the database do not.
LEMMA SiteEffect ==
  ASSUME Ordered, SiteStep
  PROVE  /\ TypeOK' /\ clean' = [r \in Runs |-> FALSE]
         /\ UNCHANGED <<db, pc, of, page, partial, failing, tx>>
<1>1. PICK m \in Models : (\E i \in DOMAIN site[m] : Sell(m, i)) \/ (\E v \in Vins : List(m, v))
  BY DEF SiteStep
<1>2. site' \in Sites /\ Changes
  BY <1>1, SellKeepsSites, ListKeepsSites DEF Sell, List, Ordered, TypeOK
<1>3. QED  BY <1>2 DEF Changes, Ordered, TypeOK, db

-----------------------------------------------------------------------------
(* The steps keep the order.                                               *)

\* The site or a run takes the step.
LEMMA NextSteps == Next <=> SiteStep \/ \E r \in Runs : RunStep(r)
BY DEF Next, SiteStep, RunStep

\* In the beginning no run has started.
LEMMA OrderedInit == Init => Ordered
<1> SUFFICES ASSUME Init PROVE Ordered
  OBVIOUS
<1>1. TypeOK
  BY NoTxType DEF Init, TypeOK, NoPage, Tx
<1>2. PagesInv
  BY DEF Init, PagesInv, Alive
<1>3. QED  BY <1>1, <1>2 DEF Ordered

\* Every step keeps the order of the steps and the types.
LEMMA OrderedStep == Ordered /\ [Next]_vars => Ordered'
<1> SUFFICES ASSUME Ordered, [Next]_vars PROVE Ordered'
  OBVIOUS
<1>1. TypeOK /\ PagesInv
  BY DEF Ordered
<1>2. CASE UNCHANGED vars
  BY <1>1, <1>2 DEF Ordered, TypeOK, PagesInv, Alive, vars, db
<1>3. CASE SiteStep
  BY <1>1, <1>3, SiteEffect DEF Ordered, PagesInv, Alive, db
<1>4. ASSUME NEW r \in Runs, RunStep(r) PROVE Ordered'
  <2> USE DEF Alive, Ended
  <2>1. ASSUME TypeOK', Frame(r), pc'[r] # "new", of'[r] \in Models, \A q \in Runs : q < r => pc'[q] # "new",
               pc'[r] \in {"fetch", "write", "mark"} => ~partial'[r] /\ ~failing'[r],
               pc'[r] = "mark" => page'[r].no > page'[r].total,
               ~Alive(r)' \/ pc'[r] \in {"fetch", "write", "mark"} => tx'[r] = NoTx
        PROVE  Ordered'
    BY <1>1, <2>1 DEF Ordered, PagesInv, Frame
  <2>2. ASSUME NEW m \in Models, CreateRun(r, m) PROVE Ordered'
    <3>1. \A q \in Runs : q < r => pc[q] # "new"
      BY <2>2 DEF CreateRun
    <3>2. QED  BY <1>1, <2>1, <2>2, <3>1, CreateEffect DEF PagesInv, Frame
  <2>3. ASSUME pc[r] # "new", TypeOK', Frame(r), pc'[r] \in {"delete", "insert", "commit"}, of'[r] = of[r] PROVE Ordered'
    BY <1>1, <2>1, <2>3 DEF PagesInv, Frame
  <2>4. CASE Fetch(r)
    BY <1>1, <2>1, <2>4, FetchEffect DEF PagesInv, Frame
  <2>5. CASE FetchFails(r)
    BY <2>3, <2>5, FetchFailsEffect DEF GivesUp, Stays
  <2>6. CASE WritePage(r)
    <3>1. page[r].no \in Nat /\ page[r].total \in Nat
      BY <1>1, RunTypes DEF Page
    <3>2. QED  BY <1>1, <2>1, <2>3, <2>6, <3>1, WriteEffect DEF PagesInv, Frame, GivesUp
  <2>7. CASE WritePageFails(r)
    BY <2>3, <2>7, WriteFailsEffect DEF GivesUp, Stays
  <2>8. CASE Mark(r)
    BY <2>3, <2>8, MarkEffect DEF Stays
  <2>9. CASE DeletePointers(r)
    BY <2>3, <2>9, DeleteEffect DEF Stays
  <2>10. CASE InsertPointers(r)
    BY <2>3, <2>10, InsertEffect DEF Stays
  <2>11. CASE Commit(r)
    BY <1>1, <2>1, <2>11, CommitEffect DEF PagesInv, Frame
  <2>12. CASE DeadlockStatement(r) \/ StatementFails(r)
    BY <2>3, <2>12, FailureEffect DEF Stays
  <2>13. CASE Dies(r)
    BY <1>1, <2>1, <2>13, DiesEffect DEF PagesInv, Frame, Stays
  <2>14. QED  BY <1>4, <2>2, <2>4, <2>5, <2>6, <2>7, <2>8, <2>9, <2>10, <2>11, <2>12, <2>13 DEF RunStep
<1>5. QED  BY <1>2, <1>3, <1>4, NextSteps

\* The site lists each vehicle once, whatever is sold and comes; the tables hold
\* vehicles and runs that exist; a fetch is on a page that exists, of at least
\* one page, also of an empty listing.
THEOREM IngestTypes == Spec => []TypeOK
<1>1. Init => Ordered
  BY OrderedInit
<1>2. Ordered /\ [Next]_vars => Ordered'
  BY OrderedStep
<1>3. Ordered => TypeOK
  BY DEF Ordered
<1>4. QED  BY <1>1, <1>2, <1>3, PTL DEF Spec

-----------------------------------------------------------------------------
(* What a transaction may hide.                                            *)

\* Only a run that has read every page marks; what it hides is of its model and
\* was not seen, and stays so until it commits: no other run can write a vehicle
\* of the model meanwhile, and no two runs write the same vehicle.
HidesInv ==
  \A r \in Runs :
    /\ tx[r].marked => ~partial[r] /\ page[r].no > page[r].total /\ tx[r].rows = {}
    /\ \A v \in tx[r].off : tx[r].marked /\ seriesOf[v] = of[r] /\ v \notin snap[r]
    /\ \A q \in Runs \ {r} :
         /\ tx[q].rows \cap tx[r].rows = {}
         /\ tx[r].marked => (of[q] = of[r] => tx[q].rows = {}) /\ \A v \in tx[q].rows : seriesOf[v] # of[r]

\* Who is not running holds nothing.
LEMMA Quiet ==
  ASSUME Ordered, NEW k \in Runs, NEW r \in Runs \ {k}, r \notin Others(k)
  PROVE  tx[r] = NoTx
BY DEF Others, Ordered, PagesInv

\* A step that at most empties a transaction and leaves vehicles and pages alone.
LEMMA HidesKept ==
  ASSUME Ordered, HidesInv, NEW k \in Runs, Frame(k), Stays(k),
         \/ /\ tx'[k].rows = tx[k].rows /\ tx'[k].off = tx[k].off /\ tx'[k].marked = tx[k].marked
            /\ partial'[k] = partial[k]
         \/ tx'[k] = NoTx
  PROVE  HidesInv'
<1>1. \A r \in Runs : /\ of'[r] = of[r] /\ page'[r] = page[r] /\ snap'[r] = snap[r]
                      /\ \/ /\ tx'[r].rows = tx[r].rows /\ tx'[r].off = tx[r].off /\ tx'[r].marked = tx[r].marked
                            /\ partial'[r] = partial[r]
                         \/ tx'[r].rows = {} /\ tx'[r].off = {} /\ ~tx'[r].marked
  BY DEF Frame, Stays, NoTx
<1>2. seriesOf' = seriesOf
  BY DEF Stays
<1>3. ASSUME NEW r \in Runs PROVE tx'[r].marked => ~partial'[r] /\ page'[r].no > page'[r].total /\ tx'[r].rows = {}
  BY <1>1 DEF HidesInv
<1>4. ASSUME NEW r \in Runs, NEW v \in tx'[r].off PROVE tx'[r].marked /\ seriesOf'[v] = of'[r] /\ v \notin snap'[r]
  <2>1. v \in tx[r].off /\ tx'[r].marked = tx[r].marked
    BY <1>1
  <2>2. QED  BY <1>1, <1>2, <2>1 DEF HidesInv
<1>5. ASSUME NEW r \in Runs, NEW q \in Runs \ {r}
      PROVE  /\ tx'[q].rows \cap tx'[r].rows = {}
             /\ tx'[r].marked => (of'[q] = of'[r] => tx'[q].rows = {}) /\ \A v \in tx'[q].rows : seriesOf'[v] # of'[r]
  <2>1. tx'[q].rows \subseteq tx[q].rows /\ tx'[r].rows \subseteq tx[r].rows /\ (tx'[r].marked => tx[r].marked)
    BY <1>1
  <2>2. /\ tx[q].rows \cap tx[r].rows = {}
        /\ tx[r].marked => (of[q] = of[r] => tx[q].rows = {}) /\ \A v \in tx[q].rows : seriesOf[v] # of[r]
    BY DEF HidesInv
  <2>3. of'[q] = of[q] /\ of'[r] = of[r]
    BY <1>1
  <2>4. QED  BY <1>2, <2>1, <2>2, <2>3
<1>6. QED  BY <1>3, <1>4, <1>5 DEF HidesInv

\* Rows that a run writes, in its transaction or for good, are not hidden by others.
LEMMA HidesWrite ==
  ASSUME Ordered, HidesInv, NEW k \in Runs, NEW rows,
         \A r \in Runs \ {k} : tx'[r] = tx[r] /\ of'[r] = of[r] /\ page'[r] = page[r] /\ snap'[r] = snap[r]
                               /\ partial'[r] = partial[r],
         of'[k] = of[k], tx'[k].off = {}, ~tx'[k].marked, tx'[k].rows \subseteq rows, rows \subseteq Vins,
         \A v \in Vins : seriesOf'[v] = seriesOf[v] \/ (v \in rows /\ seriesOf'[v] = of[k]),
         \A r \in Runs \ {k} : /\ tx[r].rows \cap rows = {}
                               /\ tx[r].marked => (rows # {} => of[r] # of[k]) /\ \A v \in rows : seriesOf[v] # of[r]
  PROVE  HidesInv'
<1>1. ASSUME NEW r \in Runs PROVE tx'[r].marked => ~partial'[r] /\ page'[r].no > page'[r].total /\ tx'[r].rows = {}
  BY DEF HidesInv
<1>2. ASSUME NEW r \in Runs, NEW v \in tx'[r].off PROVE tx'[r].marked /\ seriesOf'[v] = of'[r] /\ v \notin snap'[r]
  <2>1. r # k /\ v \in tx[r].off /\ v \in Vins
    BY RunTypes DEF Ordered, Tx
  <2>2. tx[r].marked /\ seriesOf[v] = of[r] /\ v \notin snap[r]
    BY <2>1 DEF HidesInv
  <2>3. seriesOf'[v] = seriesOf[v]
    BY <2>1, <2>2
  <2>4. QED  BY <2>1, <2>2, <2>3
<1>3. ASSUME NEW r \in Runs, NEW q \in Runs \ {r}
      PROVE  /\ tx'[q].rows \cap tx'[r].rows = {}
             /\ tx'[r].marked => (of'[q] = of'[r] => tx'[q].rows = {}) /\ \A v \in tx'[q].rows : seriesOf'[v] # of'[r]
  <2>1. tx'[q].rows \cap tx'[r].rows = {}
    BY DEF HidesInv
  <2>2. ASSUME tx'[r].marked
        PROVE  (of'[q] = of'[r] => tx'[q].rows = {}) /\ \A v \in tx'[q].rows : seriesOf'[v] # of'[r]
    <3>1. r # k /\ tx[r].marked /\ of'[r] = of[r] /\ of'[q] = of[q]
      BY <2>2
    <3>2. (rows # {} => of[r] # of[k]) /\ \A v \in rows : seriesOf[v] # of[r]
      BY <3>1
    <3>3. CASE q = k
      BY <3>1, <3>2, <3>3
    <3>4. CASE q # k
      <4>1. /\ tx'[q] = tx[q] /\ (of[q] = of[r] => tx[q].rows = {})
            /\ \A v \in tx[q].rows : seriesOf[v] # of[r]
        BY <3>1, <3>4 DEF HidesInv
      <4>2. tx[q].rows \subseteq Vins
        BY RunTypes DEF Ordered, Tx
      <4>3. QED  BY <3>1, <3>2, <4>1, <4>2
    <3>5. QED  BY <3>3, <3>4
  <2>3. QED  BY <2>1, <2>2
<1>4. QED  BY <1>1, <1>2, <1>3 DEF HidesInv

\* What PageFree says of all runs.
LEMMA PageIsFree ==
  ASSUME Ordered, NEW k \in Runs, PageFree(k)
  PROVE  \A r \in Runs \ {k} :
           /\ tx[r].rows \cap page[k].vins = {}
           /\ tx[r].marked => of[r] # of[k] /\ \A v \in page[k].vins : seriesOf[v] # of[r]
<1> TAKE r \in Runs \ {k}
<1>1. CASE r \in Others(k)
  BY <1>1 DEF PageFree
<1>2. CASE r \notin Others(k)
  BY <1>2, Quiet DEF NoTx
<1>3. QED  BY <1>1, <1>2

\* Nothing is written at first.
LEMMA HidesInit == Init => HidesInv
BY DEF Init, HidesInv, NoTx

\* Every step keeps what may be hidden.
LEMMA HidesStep == Ordered /\ HidesInv /\ [Next]_vars => HidesInv'
<1> SUFFICES ASSUME Ordered, HidesInv, [Next]_vars PROVE HidesInv'
  OBVIOUS
<1>1. CASE UNCHANGED vars
  BY <1>1 DEF HidesInv, vars, db
<1>2. CASE SiteStep
  BY <1>2, SiteEffect DEF HidesInv, db
<1>3. ASSUME NEW k \in Runs, RunStep(k) PROVE HidesInv'
  <2>1. ASSUME pc[k] \in {"new", "fetch", "write", "mark"} PROVE tx[k] = NoTx
    BY <2>1 DEF Ordered, PagesInv, Alive
  <2>2. CASE \E m \in Models : CreateRun(k, m)
    <3>1. PICK m \in Models : CreateRun(k, m)
      BY <2>2
    <3>2. tx[k].rows = {} /\ tx[k].off = {} /\ ~tx[k].marked
      BY <2>1, <3>1, CreateEffect DEF NoTx
    <3>3. /\ tx' = tx /\ page' = page /\ snap' = snap /\ partial' = partial /\ seriesOf' = seriesOf
          /\ \A r \in Runs \ {k} : of'[r] = of[r]
      BY <3>1, CreateEffect DEF Frame
    <3>4. QED  BY <3>2, <3>3 DEF HidesInv
  <2>3. CASE Fetch(k)
    <3>1. tx[k].rows = {} /\ tx[k].off = {} /\ ~tx[k].marked
      BY <2>1, <2>3, FetchEffect DEF NoTx
    <3>2. /\ tx' = tx /\ of' = of /\ snap' = snap /\ partial' = partial /\ seriesOf' = seriesOf
          /\ \A r \in Runs \ {k} : page'[r] = page[r]
      BY <2>3, FetchEffect DEF Frame
    <3>3. QED  BY <3>1, <3>2 DEF HidesInv
  <2>4. CASE FetchFails(k)
    <3>1. Frame(k) /\ Stays(k) /\ tx'[k] = NoTx
      BY <2>1, <2>4, FetchFailsEffect
    <3>2. QED  BY <3>1, HidesKept
  <2>5. CASE WritePage(k)
    <3>1. tx'[k] = NoTx
      BY <2>1, <2>5, WriteEffect
    <3>2. /\ \A r \in Runs \ {k} : tx'[r] = tx[r] /\ of'[r] = of[r] /\ page'[r] = page[r]
                                   /\ snap'[r] = snap[r] /\ partial'[r] = partial[r]
          /\ of'[k] = of[k]
      BY <2>5, WriteEffect DEF Frame
    <3>3. \A v \in Vins : seriesOf'[v] = seriesOf[v] \/ (v \in page[k].vins /\ seriesOf'[v] = of[k])
      <4>1. seriesOf' = [v \in Vins |-> IF v \in page[k].vins THEN of[k] ELSE seriesOf[v]]
        BY <2>5, WriteEffect
      <4>2. seriesOf \in [Vins -> Models \cup {NoModel}]
        BY DEF Ordered, TypeOK
      <4>3. QED  BY <4>1, <4>2
    <3>4. page[k].vins \subseteq Vins
      BY RunTypes DEF Ordered, Page
    <3>5. PageFree(k)
      BY <2>5, WriteEffect
    <3>6. \A r \in Runs \ {k} :
            /\ tx[r].rows \cap page[k].vins = {}
            /\ tx[r].marked => (page[k].vins # {} => of[r] # of[k]) /\ \A v \in page[k].vins : seriesOf[v] # of[r]
      BY <3>5, PageIsFree
    <3>7. tx'[k].off = {} /\ ~tx'[k].marked /\ tx'[k].rows = {}
      BY <3>1 DEF NoTx
    <3>8. QED  BY <3>2, <3>3, <3>4, <3>6, <3>7, HidesWrite
  <2>6. CASE WritePageFails(k)
    <3>1. Frame(k) /\ Stays(k) /\ tx[k] = NoTx
      BY <2>1, <2>6, WriteFailsEffect
    <3>2. CASE tx' = tx
      BY <3>1, <3>2, HidesKept
    <3>3. CASE tx' # tx
      <4>1. /\ PageFree(k) /\ tx'[k].rows \subseteq page[k].vins /\ tx'[k].off = {} /\ ~tx'[k].marked
        BY <2>6, <3>1, <3>3, WriteFailsEffect DEF NoTx
      <4>2. page[k].vins \subseteq Vins
        BY RunTypes DEF Ordered, Page
      <4>3. /\ \A r \in Runs \ {k} : tx'[r] = tx[r] /\ of'[r] = of[r] /\ page'[r] = page[r]
                                     /\ snap'[r] = snap[r] /\ partial'[r] = partial[r]
            /\ of'[k] = of[k] /\ seriesOf' = seriesOf
        BY <3>1 DEF Frame, Stays
      <4>4. QED  BY <4>1, <4>2, <4>3, PageIsFree, HidesWrite
    <3>4. QED  BY <3>2, <3>3
  <2>7. CASE Mark(k)
    <3>1. /\ Frame(k) /\ Stays(k) /\ tx[k] = NoTx /\ page[k].no > page[k].total /\ ~partial[k]
          /\ tx'[k].off = NotSeen(k) /\ tx'[k].rows = tx[k].rows /\ partial' = partial
      BY <2>1, <2>7, MarkEffect DEF Ordered, PagesInv
    <3>2. ASSUME NEW q \in Runs \ {k}
          PROVE  (of[q] = of[k] => tx[q].rows = {}) /\ \A v \in tx[q].rows : seriesOf[v] # of[k]
      <4>1. CASE q \in Others(k)
        BY <2>7, <4>1 DEF Mark
      <4>2. CASE q \notin Others(k)
        BY <4>2, Quiet DEF NoTx
      <4>3. QED  BY <4>1, <4>2
    <3>3. tx'[k].rows = {} /\ tx[k].rows = {} /\ \A v \in tx'[k].off : seriesOf[v] = of[k] /\ v \notin snap[k]
      BY <3>1 DEF NoTx, NotSeen
    <3>4. tx'[k].marked
      BY <2>7, MarkEffect
    <3>5. /\ of'[k] = of[k] /\ page'[k] = page[k] /\ snap' = snap /\ seriesOf' = seriesOf
          /\ \A r \in Runs \ {k} : tx'[r] = tx[r] /\ of'[r] = of[r] /\ page'[r] = page[r]
      BY <3>1 DEF Frame, Stays
    <3>6. QED  BY <3>1, <3>2, <3>3, <3>4, <3>5 DEF HidesInv
  <2>8. CASE DeletePointers(k)
    BY <2>8, DeleteEffect, HidesKept
  <2>9. CASE InsertPointers(k)
    BY <2>9, InsertEffect, HidesKept
  <2>10. CASE Commit(k)
    <3>1. /\ tx'[k] = NoTx /\ of'[k] = of[k] /\ seriesOf' = SeenSeries(k)
          /\ \A r \in Runs \ {k} : tx'[r] = tx[r] /\ of'[r] = of[r] /\ page'[r] = page[r]
                                   /\ snap'[r] = snap[r] /\ partial'[r] = partial[r]
      BY <2>10, CommitEffect DEF Frame
    <3>2. tx[k].rows \subseteq Vins
      BY RunTypes DEF Ordered, Tx
    <3>3. \A v \in Vins : seriesOf'[v] = seriesOf[v] \/ (v \in tx[k].rows /\ seriesOf'[v] = of[k])
      BY <3>1 DEF SeenSeries
    <3>4. \A r \in Runs \ {k} :
            /\ tx[r].rows \cap tx[k].rows = {}
            /\ tx[r].marked => (tx[k].rows # {} => of[r] # of[k]) /\ \A v \in tx[k].rows : seriesOf[v] # of[r]
      <4>1. ASSUME NEW r \in Runs \ {k}
            PROVE  /\ tx[k].rows \cap tx[r].rows = {}
                   /\ tx[r].marked => (of[k] = of[r] => tx[k].rows = {}) /\ \A v \in tx[k].rows : seriesOf[v] # of[r]
        BY DEF HidesInv
      <4>2. QED  BY <4>1
    <3>5. tx'[k].off = {} /\ ~tx'[k].marked /\ tx'[k].rows = {}
      BY <3>1 DEF NoTx
    <3>6. QED  BY <3>1, <3>2, <3>3, <3>4, <3>5, HidesWrite
  <2>11. CASE DeadlockStatement(k) \/ StatementFails(k)
    <3>1. Frame(k) /\ Stays(k) /\ tx'[k] \in {NoTx, tx[k]} /\ partial' = partial
      BY <2>11, FailureEffect
    <3>2. QED  BY <3>1, HidesKept
  <2>12. CASE Dies(k)
    BY <2>12, DiesEffect, HidesKept
  <2>13. QED  BY <1>3, <2>2, <2>3, <2>4, <2>5, <2>6, <2>7, <2>8, <2>9, <2>10, <2>11, <2>12 DEF RunStep
<1>4. QED  BY <1>1, <1>2, <1>3, NextSteps

\* A vehicle is hidden only by a run that has read every page of its model to
\* the end without finding it; a partial fetch, and an ingest that failed before
\* mark_inactive_not_seen, hide nothing, whatever the runs of other models do.
THEOREM HiddenOnlyAfterFullRead == Spec => HiddenAfterFullRead
<1>1. Init => Ordered /\ HidesInv
  BY OrderedInit, HidesInit
<1>2. Ordered /\ HidesInv /\ [Next]_vars => Ordered' /\ HidesInv'
  BY OrderedStep, HidesStep
<1>3. Ordered /\ HidesInv /\ [Next]_vars =>
        [\A v \in active \ active' : \E r \in Runs :
           /\ pc[r] = "commit" /\ page[r].no > page[r].total /\ ~partial[r]
           /\ seriesOf[v] = of[r] /\ v \notin snap[r]]_vars
  <2> SUFFICES ASSUME Ordered, HidesInv, Next, NEW v \in active \ active'
               PROVE  \E r \in Runs :
                        /\ pc[r] = "commit" /\ page[r].no > page[r].total /\ ~partial[r]
                        /\ seriesOf[v] = of[r] /\ v \notin snap[r]
    OBVIOUS
  <2>1. CASE SiteStep
    BY <2>1, SiteEffect DEF db
  <2>2. ASSUME NEW r \in Runs, RunStep(r) PROVE Commit(r)
    <3>1. CASE \E m \in Models : CreateRun(r, m)
      BY <3>1, CreateEffect
    <3>2. CASE WritePage(r)
      BY <3>2, WriteEffect
    <3>3. CASE ~(\E m \in Models : CreateRun(r, m)) /\ ~WritePage(r) /\ ~Commit(r)
      BY <2>2, <3>3, FetchEffect, FetchFailsEffect, WriteFailsEffect, MarkEffect, DeleteEffect,
         InsertEffect, FailureEffect, DiesEffect DEF RunStep, Stays
    <3>4. QED  BY <3>1, <3>2, <3>3
  <2>3. ASSUME NEW r \in Runs, Commit(r)
        PROVE  /\ pc[r] = "commit" /\ page[r].no > page[r].total /\ ~partial[r]
               /\ seriesOf[v] = of[r] /\ v \notin snap[r]
    <3>1. pc[r] = "commit" /\ v \in tx[r].off
      BY <2>3, CommitEffect
    <3>2. QED  BY <3>1 DEF HidesInv
  <2>4. QED  BY <2>1, <2>2, <2>3, NextSteps
<1>4. QED  BY <1>1, <1>2, <1>3, PTL DEF Spec, HiddenAfterFullRead

-----------------------------------------------------------------------------
(* What a clean run knows.                                                 *)

\* While the site stands still and no run of the model is started: the runs that
\* work are of other models and hold and write vehicles listed for theirs; runs
\* started later have no vehicle of the model; the run itself has the vehicles of
\* the pages it has read, which are active and of its model, and, if nothing went
\* wrong, hides at its end all others of the model.
CleanRun(r) ==
  /\ \A q \in Others(r) : of[q] # of[r]
  /\ \A q \in Others(r) \cup {r} : page[q].vins \subseteq Listed(of[q]) /\ tx[q].rows \subseteq page[q].vins
  /\ \A q \in Runs : q > r => \A v \in snap[q] : v \notin Listed(of[r]) /\ seriesOf[v] # of[r]
  /\ \A v \in snap[r] : v \in Listed(of[r]) /\ v \in active /\ seriesOf[v] = of[r]
  /\ \A i \in 1 .. Len(site[of[r]]) : i <= (page[r].no - 1) * PageSize => site[of[r]][i] \in snap[r]
  /\ pc[r] = "write" \/ page[r].no > 1 => page[r].total = PageCount(of[r])
  /\ pc[r] = "write" => PageAt(of[r], page[r].no) \subseteq page[r].vins
  /\ pc[r] \in {"delete", "insert", "commit"} /\ ~partial[r] /\ ~failing[r] =>
       tx[r].marked /\ tx[r].off = NotSeen(r)

CleanInv == \A r \in Runs : Alive(r) /\ clean[r] => CleanRun(r)

\* A step of another run, which writes rows of its model.
LEMMA CleanOther ==
  ASSUME Ordered, NEW r \in Runs, NEW k \in Runs \ {r}, Alive(r), CleanRun(r), Frame(k),
         of'[k] \in Models, of'[k] # of[r],
         page'[k].vins \subseteq Listed(of'[k]), tx'[k].rows \subseteq page'[k].vins,
         NEW rows, rows \subseteq Listed(of'[k]),
         snap'[k] \subseteq snap[k] \cup rows,
         \A v \in Vins : seriesOf'[v] = IF v \in rows THEN of'[k] ELSE seriesOf[v],
         \A v \in active : seriesOf[v] = of[r] => v \in active',
         tx[r].marked => \A v \in rows : seriesOf[v] # of[r]
  PROVE  CleanRun(r)'
<1>1. /\ site' = site /\ pc'[r] = pc[r] /\ of'[r] = of[r] /\ page'[r] = page[r] /\ snap'[r] = snap[r]
      /\ partial'[r] = partial[r] /\ failing'[r] = failing[r] /\ tx'[r] = tx[r]
  BY DEF Frame
<1>2. of[r] \in Models /\ site \in Sites /\ \A q \in Runs : snap[q] \subseteq Vins
  BY DEF Ordered, PagesInv, TypeOK, Alive
<1>3. \A q \in Runs : Listed(of[q])' = Listed(of'[q])
  BY <1>1 DEF Listed
<1>4. \A v \in rows : v \notin Listed(of[r])
  BY <1>2, Listing DEF Listed
<1>5. \A q \in Others(r)' : q \in Others(r) \/ q = k
  BY DEF Others, Alive, Frame
<1>6. ASSUME NEW q \in Others(r)' PROVE of'[q] # of'[r]
  BY <1>1, <1>5 DEF CleanRun, Frame, Others
<1>7. ASSUME NEW q \in Others(r)' \cup {r}
      PROVE  page'[q].vins \subseteq Listed(of[q])' /\ tx'[q].rows \subseteq page'[q].vins
  <2>1. CASE q = k
    BY <1>3, <2>1
  <2>2. CASE q # k
    <3>1. q \in Others(r) \cup {r} /\ q \in Runs \ {k}
      BY <1>5, <2>2 DEF Others
    <3>2. page[q].vins \subseteq Listed(of[q]) /\ tx[q].rows \subseteq page[q].vins
      BY <3>1 DEF CleanRun
    <3>3. page'[q] = page[q] /\ of'[q] = of[q] /\ tx'[q] = tx[q]
      BY <3>1 DEF Frame
    <3>4. QED  BY <1>3, <3>1, <3>2, <3>3
  <2>3. QED  BY <2>1, <2>2
<1>8. ASSUME NEW q \in Runs, q > r, NEW v \in snap'[q] PROVE v \notin Listed(of[r])' /\ seriesOf'[v] # of'[r]
  <2>1. v \in snap[q] \/ v \in rows
    BY <1>8 DEF Frame
  <2>2. CASE v \in snap[q]
    <3>1. v \notin Listed(of[r]) /\ seriesOf[v] # of[r] /\ v \in Vins
      BY <1>2, <1>8, <2>2 DEF CleanRun
    <3>2. QED  BY <1>1, <1>3, <3>1
  <2>3. CASE v \in rows
    <3>1. v \in Vins
      BY <1>2, <2>3, Listing DEF Listed
    <3>2. QED  BY <1>1, <1>3, <1>4, <2>3, <3>1
  <2>4. QED  BY <2>1, <2>2, <2>3
<1>9. ASSUME NEW v \in snap'[r] PROVE v \in Listed(of[r])' /\ v \in active' /\ seriesOf'[v] = of'[r]
  <2>1. v \in snap[r] /\ v \in Vins /\ v \in Listed(of[r]) /\ v \in active /\ seriesOf[v] = of[r]
    BY <1>1, <1>2, <1>9 DEF CleanRun
  <2>2. QED  BY <1>1, <1>3, <1>4, <2>1
<1>10. ASSUME tx[r].marked PROVE NotSeen(r)' = NotSeen(r)
  <2>1. \A v \in Vins : seriesOf'[v] = of[r] <=> seriesOf[v] = of[r]
    BY <1>10
  <2>2. QED  BY <1>1, <2>1 DEF NotSeen
<1>11. PageCount(of[r])' = PageCount(of[r]) /\ PageAt(of[r], page[r].no)' = PageAt(of[r], page[r].no)
  BY <1>1 DEF PageCount, PageAt
<1>12. QED  BY <1>1, <1>6, <1>7, <1>8, <1>9, <1>10, <1>11 DEF CleanRun

\* A run that starts when no other one of its model works and all that do are
\* clean is clean.
LEMMA CleanCreate ==
  ASSUME Ordered, CleanInv, NEW k \in Runs, NEW m \in Models, CreateRun(k, m), clean'[k]
  PROVE  CleanRun(k)'
<1>1. /\ Frame(k) /\ pc[k] = "new" /\ pc'[k] = "fetch" /\ of'[k] = m /\ page' = page /\ tx' = tx
      /\ snap' = snap /\ site' = site
  BY CreateEffect DEF Frame
<1>2. \A q \in Others(k) : of[q] # m /\ clean[q]
  <2>1. clean'[k] = ({q \in Others(k) : of[q] = m} = {} /\ \A q \in Others(k) : clean[q])
    BY DEF CreateRun
  <2>2. QED  BY <2>1
<1>3. page[k] = NoPage /\ snap[k] = {} /\ tx[k] = NoTx /\ \A q \in Runs : q > k => pc[q] = "new" /\ snap[q] = {}
  <2>1. \A q \in Runs : q > k => pc[q] = "new"
    BY <1>1 DEF Ordered, PagesInv
  <2>2. QED  BY <1>1, <2>1 DEF Ordered, PagesInv, Alive
<1>4. Others(k)' = Others(k)
  BY <1>1 DEF Others, Alive, Frame
<1>5. ASSUME NEW q \in Others(k)' PROVE of'[q] # of'[k]
  BY <1>1, <1>2, <1>4, <1>5 DEF Frame, Others
<1>6. ASSUME NEW q \in Others(k)' \cup {k}
      PROVE  page'[q].vins \subseteq Listed(of[q])' /\ tx'[q].rows \subseteq page'[q].vins
  <2>1. CASE q = k
    BY <1>1, <1>3, <2>1 DEF NoPage, NoTx
  <2>2. CASE q # k
    <3>1. q \in Others(k) /\ q \in Runs \ {k} /\ Alive(q) /\ clean[q]
      BY <1>2, <1>4, <2>2 DEF Others
    <3>2. page[q].vins \subseteq Listed(of[q]) /\ tx[q].rows \subseteq page[q].vins
      BY <3>1 DEF CleanInv, CleanRun
    <3>3. of'[q] = of[q]
      BY <1>1, <3>1 DEF Frame
    <3>4. QED  BY <1>1, <3>2, <3>3 DEF Listed
  <2>3. QED  BY <2>1, <2>2
<1>7. page[k].no = 1
  BY <1>3 DEF NoPage
<1>8. \A i \in 1 .. Len(site'[of'[k]]) : ~(i <= (page'[k].no - 1) * PageSize)
  BY <1>1, <1>7
<1>9. QED  BY <1>1, <1>3, <1>5, <1>6, <1>7, <1>8 DEF CleanRun

\* A clean run that has fetched a page knows how many there are.
LEMMA CleanFetch ==
  ASSUME Ordered, NEW k \in Runs, Fetch(k), CleanRun(k)
  PROVE  CleanRun(k)'
<1>1. /\ Frame(k) /\ pc[k] = "fetch" /\ pc'[k] = "write" /\ of[k] \in Models /\ of' = of /\ site' = site
      /\ page'[k].no = page[k].no /\ page'[k].vins = PageAt(of[k], page[k].no)
      /\ page'[k].total = IF page[k].no = 1 THEN PageCount(of[k]) ELSE page[k].total
      /\ tx' = tx /\ snap' = snap /\ seriesOf' = seriesOf /\ active' = active
  BY FetchEffect DEF Frame
<1>2. tx[k].rows = {} /\ page[k].no \in Nat \ {0} /\ site \in Sites
  <2>1. tx[k] = NoTx
    BY <1>1 DEF Ordered, PagesInv
  <2>2. page[k] \in Page /\ site \in Sites
    BY RunTypes DEF Ordered, TypeOK
  <2>3. QED  BY <2>1, <2>2 DEF NoTx, Page
<1>3. Others(k)' = Others(k)
  BY <1>1 DEF Others, Alive, Frame
<1>4. Listed(of[k])' = Listed(of[k]) /\ PageCount(of[k])' = PageCount(of[k])
      /\ PageAt(of[k], page[k].no)' = PageAt(of[k], page[k].no)
  BY <1>1 DEF Listed, PageCount, PageAt
<1>5. PageAt(of[k], page[k].no) \subseteq Listed(of[k])
  <2>1. Listed(of[k]) = {site[of[k]][i] : i \in 1 .. Len(site[of[k]])}
    BY <1>1, <1>2, Listing DEF Listed
  <2>2. QED  BY <2>1 DEF PageAt
<1>6. ASSUME NEW q \in Others(k) \cup {k}
      PROVE  page'[q].vins \subseteq Listed(of[q])' /\ tx'[q].rows \subseteq page'[q].vins
  <2>1. CASE q = k
    BY <1>1, <1>2, <1>4, <1>5, <2>1
  <2>2. CASE q # k
    <3>1. q \in Others(k) /\ q \in Runs \ {k}
      BY <2>2 DEF Others
    <3>2. page[q].vins \subseteq Listed(of[q]) /\ tx[q].rows \subseteq page[q].vins
      BY <3>1 DEF CleanRun
    <3>3. page'[q] = page[q]
      BY <1>1, <3>1 DEF Frame
    <3>4. QED  BY <1>1, <3>2, <3>3 DEF Listed
  <2>3. QED  BY <2>1, <2>2
<1>7. page'[k].total = PageCount(of[k])
  BY <1>1, <1>2 DEF CleanRun
<1>8. QED  BY <1>1, <1>3, <1>4, <1>6, <1>7 DEF CleanRun

\* A clean run that has written a page has the vehicles of all pages so far.
LEMMA CleanWrite ==
  ASSUME Ordered, NEW k \in Runs, WritePage(k), CleanRun(k)
  PROVE  CleanRun(k)'
<1>1. /\ Frame(k) /\ pc[k] = "write" /\ of' = of /\ tx' = tx /\ site' = site
      /\ snap'[k] = snap[k] \cup page[k].vins
      /\ seriesOf' = [v \in Vins |-> IF v \in page[k].vins THEN of[k] ELSE seriesOf[v]]
      /\ active' = active \cup page[k].vins
  BY WriteEffect DEF Frame
<1>2. \/ /\ pc'[k] \in {"fetch", "mark"} /\ page'[k].no = page[k].no + 1
         /\ page'[k].total = page[k].total /\ page'[k].vins = {}
      \/ GivesUp(k) /\ page' = page
  BY WriteEffect
<1>3. /\ tx[k].rows = {} /\ page[k].no \in Nat \ {0} /\ site \in Sites /\ of[k] \in Models
      /\ \A q \in Runs : snap[q] \subseteq Vins
  <2>1. tx[k] = NoTx /\ of[k] \in Models
    BY <1>1 DEF Ordered, PagesInv
  <2>2. page[k] \in Page /\ site \in Sites /\ \A q \in Runs : snap[q] \subseteq Vins
    BY RunTypes DEF Ordered, TypeOK
  <2>3. QED  BY <2>1, <2>2 DEF NoTx, Page
<1>4. Others(k)' = Others(k)
  BY <1>1, <1>2 DEF Others, Alive, Ended, Frame, GivesUp
<1>5. \A q \in Runs : Listed(of[q])' = Listed(of[q])
  BY <1>1 DEF Listed
<1>6. PageCount(of[k])' = PageCount(of[k])
  BY <1>1 DEF PageCount
<1>7. page[k].vins \subseteq Listed(of[k])
  BY DEF CleanRun
<1>8. ASSUME NEW q \in Others(k) \cup {k}
      PROVE  page'[q].vins \subseteq Listed(of[q])' /\ tx'[q].rows \subseteq page'[q].vins
  <2>1. CASE q = k
    BY <1>1, <1>2, <1>3, <1>5, <1>7, <2>1
  <2>2. CASE q # k
    <3>1. q \in Others(k) /\ q \in Runs \ {k}
      BY <2>2 DEF Others
    <3>2. page[q].vins \subseteq Listed(of[q]) /\ tx[q].rows \subseteq page[q].vins
      BY <3>1 DEF CleanRun
    <3>3. page'[q] = page[q]
      BY <1>1, <3>1 DEF Frame
    <3>4. QED  BY <1>1, <1>5, <3>1, <3>2, <3>3
  <2>3. QED  BY <2>1, <2>2
<1>9. ASSUME NEW q \in Runs, q > k, NEW v \in snap'[q] PROVE v \notin Listed(of[k])' /\ seriesOf'[v] # of[k]
  <2>1. v \in snap[q] /\ v \in Vins
    BY <1>1, <1>3, <1>9 DEF Frame
  <2>2. v \notin Listed(of[k]) /\ seriesOf[v] # of[k]
    BY <1>9, <2>1 DEF CleanRun
  <2>3. QED  BY <1>1, <1>5, <1>7, <2>1, <2>2
<1>10. ASSUME NEW v \in snap'[k] PROVE v \in Listed(of[k])' /\ v \in active' /\ seriesOf'[v] = of[k]
  <2>1. v \in Vins
    BY <1>1, <1>3, <1>7, Listing DEF Listed
  <2>2. v \in page[k].vins \/ (v \in Listed(of[k]) /\ v \in active /\ seriesOf[v] = of[k])
    BY <1>1 DEF CleanRun
  <2>3. QED  BY <1>1, <1>5, <1>7, <2>1, <2>2
<1>11. ASSUME NEW i \in 1 .. Len(site[of[k]]), i <= (page'[k].no - 1) * PageSize
       PROVE  site[of[k]][i] \in snap'[k]
  <2>1. Len(site[of[k]]) \in Nat
    BY <1>3, Listing
  <2>2. CASE i <= (page[k].no - 1) * PageSize
    BY <1>1, <2>2 DEF CleanRun
  <2>3. CASE ~(i <= (page[k].no - 1) * PageSize)
    <3>1. page'[k].no = page[k].no + 1 /\ page'[k].no - 1 = page[k].no
      BY <1>2, <1>3, <1>11, <2>3
    <3>2. (page[k].no - 1) * PageSize < i /\ i <= page[k].no * PageSize
      <4>1. (page[k].no - 1) * PageSize \in Int /\ i \in Int
        BY <1>3, <2>1
      <4>2. QED  BY <1>11, <2>3, <3>1, <4>1
    <3>3. site[of[k]][i] \in PageAt(of[k], page[k].no)
      BY <3>2 DEF PageAt
    <3>4. QED  BY <1>1, <3>3 DEF CleanRun
  <2>4. QED  BY <2>2, <2>3
<1>12. page'[k].total = PageCount(of[k])
  BY <1>1, <1>2 DEF CleanRun
<1>13. \A q \in Others(k) : of'[q] # of'[k]
  BY <1>1 DEF CleanRun
<1>14. pc'[k] # "write" /\ (pc'[k] \in {"delete", "insert", "commit"} => partial'[k] \/ failing'[k])
  BY <1>2 DEF GivesUp
<1>15. of'[k] = of[k] /\ site'[of'[k]] = site[of[k]]
  BY <1>1
<1>16. \A i \in 1 .. Len(site'[of'[k]]) : i <= (page'[k].no - 1) * PageSize => site'[of'[k]][i] \in snap'[k]
  BY <1>11, <1>15
<1>17. /\ \A q \in Others(k)' : of'[q] # of'[k]
       /\ \A q \in Others(k)' \cup {k} : page'[q].vins \subseteq Listed(of[q])' /\ tx'[q].rows \subseteq page'[q].vins
       /\ \A q \in Runs : q > k => \A v \in snap'[q] : v \notin Listed(of[k])' /\ seriesOf'[v] # of'[k]
       /\ \A v \in snap'[k] : v \in Listed(of[k])' /\ v \in active' /\ seriesOf'[v] = of'[k]
  BY <1>4, <1>8, <1>9, <1>10, <1>13, <1>15
<1>18. page'[k].total = PageCount(of[k])'
  BY <1>6, <1>12
<1>19. QED  BY <1>14, <1>16, <1>17, <1>18, Zenon DEF CleanRun

\* Any other step of a clean run leaves the tables alone.
LEMMA CleanOwn ==
  ASSUME Ordered, NEW k \in Runs, CleanRun(k), Alive(k)', Frame(k), Stays(k),
         tx'[k].rows \subseteq page[k].vins,
         pc'[k] \in {"delete", "insert", "commit"},
         ~partial'[k] /\ ~failing'[k] => tx'[k].marked /\ tx'[k].off = NotSeen(k)
  PROVE  CleanRun(k)'
<1>1. /\ site' = site /\ of'[k] = of[k] /\ page'[k] = page[k] /\ snap' = snap /\ seriesOf' = seriesOf /\ active' = active
  BY DEF Frame, Stays
<1>2. \A q \in Others(k)' : q \in Others(k) /\ q \in Runs \ {k}
  BY DEF Others, Alive, Frame
<1>3. ASSUME NEW q \in Others(k)' PROVE of'[q] # of'[k]
  BY <1>1, <1>2 DEF CleanRun, Frame
<1>4. ASSUME NEW q \in Others(k)' \cup {k}
      PROVE  page'[q].vins \subseteq Listed(of[q])' /\ tx'[q].rows \subseteq page'[q].vins
  <2>1. CASE q = k
    BY <1>1, <2>1 DEF CleanRun, Listed
  <2>2. CASE q # k
    <3>1. q \in Others(k) /\ q \in Runs \ {k}
      BY <1>2, <2>2
    <3>2. page[q].vins \subseteq Listed(of[q]) /\ tx[q].rows \subseteq page[q].vins
      BY <3>1 DEF CleanRun
    <3>3. page'[q] = page[q] /\ of'[q] = of[q] /\ tx'[q] = tx[q]
      BY <3>1 DEF Frame
    <3>4. QED  BY <1>1, <3>2, <3>3 DEF Listed
  <2>3. QED  BY <2>1, <2>2
<1>5. Listed(of[k])' = Listed(of[k]) /\ PageCount(of[k])' = PageCount(of[k]) /\ NotSeen(k)' = NotSeen(k)
  BY <1>1 DEF Listed, PageCount, NotSeen
<1>6. QED  BY <1>1, <1>3, <1>4, <1>5 DEF CleanRun

\* A step of another run that writes no vehicle.
LEMMA CleanAside ==
  ASSUME Ordered, NEW r \in Runs, NEW k \in Runs \ {r}, Alive(r), CleanRun(r), Frame(k),
         of'[k] \in Models, of'[k] # of[r],
         page'[k].vins \subseteq Listed(of'[k]), tx'[k].rows \subseteq page'[k].vins,
         snap' = snap, seriesOf' = seriesOf, active' = active
  PROVE  CleanRun(r)'
<1> DEFINE rows == {}
<1>1. /\ \A v : v \notin rows
      /\ rows \subseteq Listed(of'[k])
      /\ snap'[k] \subseteq snap[k] \cup rows
  OBVIOUS
<1> HIDE DEF rows
<1>2. /\ \A v \in Vins : seriesOf'[v] = IF v \in rows THEN of'[k] ELSE seriesOf[v]
      /\ tx[r].marked => \A v \in rows : seriesOf[v] # of[r]
      /\ \A v \in active : seriesOf[v] = of[r] => v \in active'
  BY <1>1
<1>3. QED  BY <1>1, <1>2, CleanOther

\* No run is clean before it starts.
LEMMA CleanInit == Init => CleanInv
BY DEF Init, CleanInv

\* A step of a run does not spoil what the other clean runs know.
LEMMA CleanOthers ==
  ASSUME Ordered, HidesInv, NEW k \in Runs, RunStep(k), NEW r \in Runs \ {k}, Alive(r), CleanRun(r),
         \A m \in Models : CreateRun(k, m) => m # of[r]
  PROVE  CleanRun(r)'
<1>1. of[r] \in Models /\ of[k] \in Models \cup {NoModel} /\ seriesOf \in [Vins -> Models \cup {NoModel}] /\ site \in Sites
  BY DEF Ordered, PagesInv, TypeOK, Alive
<1>2. ASSUME Alive(k)
      PROVE  /\ of[k] \in Models /\ of[k] # of[r] /\ page[k].vins \subseteq Listed(of[k])
             /\ tx[k].rows \subseteq page[k].vins
  <2>1. k \in Others(r)
    BY <1>2 DEF Others
  <2>2. QED  BY <1>2, <2>1 DEF CleanRun, Ordered, PagesInv, Alive
<1>3. ASSUME NEW m \in Models, CreateRun(k, m) PROVE CleanRun(r)'
  <2>1. /\ Frame(k) /\ of'[k] = m /\ page' = page /\ tx' = tx
        /\ snap' = snap /\ seriesOf' = seriesOf /\ active' = active /\ pc[k] = "new"
    BY <1>3, CreateEffect
  <2>2. page[k].vins = {} /\ tx[k].rows = {}
    BY <2>1 DEF Ordered, PagesInv, Alive, NoPage, NoTx
  <2>3. of'[k] \in Models /\ of'[k] # of[r] /\ page'[k].vins \subseteq Listed(of'[k]) /\ tx'[k].rows \subseteq page'[k].vins
    BY <1>3, <2>1, <2>2
  <2>4. QED  BY <2>1, <2>3, CleanAside
<1>4. ASSUME Alive(k), Frame(k), Stays(k), tx'[k].rows \subseteq page[k].vins PROVE CleanRun(r)'
  <2>1. of'[k] = of[k] /\ page'[k] = page[k] /\ snap' = snap /\ seriesOf' = seriesOf /\ active' = active
    BY <1>4 DEF Stays
  <2>2. of'[k] \in Models /\ of'[k] # of[r] /\ page'[k].vins \subseteq Listed(of'[k]) /\ tx'[k].rows \subseteq page'[k].vins
    BY <1>2, <1>4, <2>1
  <2>3. QED  BY <1>4, <2>1, <2>2, CleanAside
<1>5. CASE Fetch(k)
  <2>1. /\ Frame(k) /\ pc[k] = "fetch" /\ of' = of /\ tx' = tx
        /\ page'[k].vins = PageAt(of[k], page[k].no) /\ snap' = snap /\ seriesOf' = seriesOf /\ active' = active
    BY <1>5, FetchEffect
  <2>2. Alive(k) /\ tx[k].rows = {}
    BY <2>1 DEF Alive, Ended, Ordered, PagesInv, NoTx
  <2>3. PageAt(of[k], page[k].no) \subseteq Listed(of[k])
    <3>1. Listed(of[k]) = {site[of[k]][i] : i \in 1 .. Len(site[of[k]])}
      BY <1>1, <1>2, <2>2, Listing DEF Listed
    <3>2. QED  BY <3>1 DEF PageAt
  <2>4. of'[k] \in Models /\ of'[k] # of[r] /\ page'[k].vins \subseteq Listed(of'[k]) /\ tx'[k].rows \subseteq page'[k].vins
    BY <1>2, <2>1, <2>2, <2>3
  <2>5. QED  BY <2>1, <2>4, CleanAside
<1>6. CASE FetchFails(k)
  <2>1. Frame(k) /\ Stays(k) /\ pc[k] = "fetch" /\ tx' = tx
    BY <1>6, FetchFailsEffect
  <2>2. Alive(k)
    BY <2>1 DEF Alive, Ended
  <2>3. QED  BY <1>2, <1>4, <2>1, <2>2
<1>7. CASE WritePage(k)
  <2>1. /\ Frame(k) /\ pc[k] = "write" /\ PageFree(k) /\ of' = of /\ tx' = tx
        /\ snap'[k] = snap[k] \cup page[k].vins
        /\ seriesOf' = [v \in Vins |-> IF v \in page[k].vins THEN of[k] ELSE seriesOf[v]]
        /\ active' = active \cup page[k].vins
        /\ page'[k].vins = {} \/ page' = page
    BY <1>7, WriteEffect
  <2>2. Alive(k) /\ tx[k].rows = {}
    BY <2>1 DEF Alive, Ended, Ordered, PagesInv, NoTx
  <2>3. \A v \in Vins : seriesOf'[v] = IF v \in page[k].vins THEN of'[k] ELSE seriesOf[v]
    BY <2>1
  <2>4. /\ of'[k] \in Models /\ of'[k] # of[r] /\ page'[k].vins \subseteq Listed(of'[k]) /\ tx'[k].rows \subseteq page'[k].vins
        /\ page[k].vins \subseteq Listed(of'[k])
    BY <1>2, <2>1, <2>2
  <2>5. tx[r].marked => \A v \in page[k].vins : seriesOf[v] # of[r]
    BY <2>1, PageIsFree
  <2>6. \A v \in active : seriesOf[v] = of[r] => v \in active'
    BY <2>1
  <2>7. snap'[k] \subseteq snap[k] \cup page[k].vins
    BY <2>1
  <2>8. QED  BY <2>1, <2>3, <2>4, <2>5, <2>6, <2>7, CleanOther
<1>8. CASE WritePageFails(k)
  <2>1. Frame(k) /\ Stays(k) /\ pc[k] = "write" /\ (tx'[k].rows \subseteq page[k].vins \/ tx' = tx)
    BY <1>8, WriteFailsEffect
  <2>2. Alive(k)
    BY <2>1 DEF Alive, Ended
  <2>3. QED  BY <1>2, <1>4, <2>1, <2>2
<1>9. CASE Mark(k) \/ DeletePointers(k) \/ InsertPointers(k)
  <2>1. Frame(k) /\ Stays(k) /\ pc[k] \in {"mark", "delete", "insert"} /\ tx'[k].rows = tx[k].rows
    BY <1>9, MarkEffect, DeleteEffect, InsertEffect
  <2>2. Alive(k)
    BY <2>1 DEF Alive, Ended
  <2>3. QED  BY <1>2, <1>4, <2>1, <2>2
<1>10. CASE Commit(k)
  <2>1. /\ Frame(k) /\ pc[k] = "commit" /\ of' = of /\ page' = page /\ tx'[k] = NoTx
        /\ snap'[k] = snap[k] \cup tx[k].rows /\ seriesOf' = SeenSeries(k)
        /\ active' = (active \cup tx[k].rows) \ tx[k].off
    BY <1>10, CommitEffect
  <2>2. Alive(k) /\ tx'[k].rows = {}
    BY <2>1 DEF Alive, Ended, NoTx
  <2>3. \A v \in Vins : seriesOf'[v] = IF v \in tx[k].rows THEN of'[k] ELSE seriesOf[v]
    BY <2>1 DEF SeenSeries
  <2>4. /\ of'[k] \in Models /\ of'[k] # of[r] /\ page'[k].vins \subseteq Listed(of'[k]) /\ tx'[k].rows \subseteq page'[k].vins
        /\ tx[k].rows \subseteq Listed(of'[k])
    BY <1>2, <2>1, <2>2
  <2>5. tx[r].marked => \A v \in tx[k].rows : seriesOf[v] # of[r]
    BY DEF HidesInv
  <2>6. \A v \in active : seriesOf[v] = of[r] => v \in active'
    <3>1. \A v \in tx[k].off : seriesOf[v] = of[k]
      BY DEF HidesInv
    <3>2. QED  BY <1>2, <2>1, <2>2, <3>1
  <2>7. snap'[k] \subseteq snap[k] \cup tx[k].rows
    BY <2>1
  <2>8. QED  BY <2>1, <2>3, <2>4, <2>5, <2>6, <2>7, CleanOther
<1>11. CASE DeadlockStatement(k) \/ StatementFails(k) \/ Dies(k)
  <2>1. Frame(k) /\ Stays(k) /\ Alive(k) /\ tx'[k] \in {NoTx, tx[k]}
    BY <1>11, FailureEffect, DiesEffect DEF Alive, Ended
  <2>2. QED  BY <1>2, <1>4, <2>1 DEF NoTx
<1>12. QED  BY <1>3, <1>5, <1>6, <1>7, <1>8, <1>9, <1>10, <1>11 DEF RunStep

\* Every step keeps what the clean runs know.
LEMMA CleanStep == Ordered /\ HidesInv /\ CleanInv /\ [Next]_vars => CleanInv'
<1> SUFFICES ASSUME Ordered, HidesInv, CleanInv, [Next]_vars PROVE CleanInv'
  OBVIOUS
<1>1. CASE UNCHANGED vars
  <2>1. UNCHANGED <<site, seriesOf, active, snap, pc, of, page, partial, failing, tx, clean>>
    BY <1>1 DEF vars, db
  <2>2. ASSUME NEW r \in Runs
        PROVE  /\ Alive(r)' = Alive(r) /\ Others(r)' = Others(r) /\ NotSeen(r)' = NotSeen(r)
               /\ PageCount(of[r])' = PageCount(of[r])
               /\ PageAt(of[r], page[r].no)' = PageAt(of[r], page[r].no)
               /\ \A q \in Runs : Listed(of[q])' = Listed(of[q])
    BY <2>1 DEF Alive, Others, NotSeen, PageCount, PageAt, Listed
  <2>3. ASSUME NEW r \in Runs, CleanRun(r) PROVE CleanRun(r)'
    <3>1. Others(r) \subseteq Runs
      BY DEF Others
    <3>2. QED  BY <2>1, <2>2, <2>3, <3>1 DEF CleanRun
  <2>4. QED  BY <2>1, <2>2, <2>3 DEF CleanInv
<1>2. CASE SiteStep
  BY <1>2, SiteEffect DEF CleanInv
<1>3. ASSUME NEW k \in Runs, RunStep(k) PROVE CleanInv'
  <2>1. ASSUME NEW r \in Runs \ {k}, Alive(r)', clean'[r] PROVE CleanRun(r)'
    <3>1. CASE \E m \in Models : CreateRun(k, m)
      <4>1. PICK m \in Models : CreateRun(k, m)
        BY <3>1
      <4>2. Frame(k)
        BY <4>1, CreateEffect
      <4>3. Alive(r)
        BY <2>1, <4>2 DEF Alive, Frame
      <4>4. clean[r] /\ r \notin {q \in Others(k) : of[q] = m}
        BY <2>1, <4>1 DEF CreateRun
      <4>5. r \in Others(k)
        BY <4>3 DEF Others
      <4>6. \A n \in Models : CreateRun(k, n) => n = m
        BY <4>1, CreateEffect
      <4>7. QED  BY <1>3, <4>3, <4>4, <4>5, <4>6, CleanOthers DEF CleanInv
    <3>2. CASE ~\E m \in Models : CreateRun(k, m)
      <4>1. Frame(k) /\ (clean' = clean \/ clean' = [clean EXCEPT ![k] = FALSE])
        BY <1>3, <3>2, FetchEffect, FetchFailsEffect, WriteEffect, WriteFailsEffect, MarkEffect,
           DeleteEffect, InsertEffect, CommitEffect, FailureEffect, DiesEffect DEF RunStep
      <4>2. Alive(r) /\ clean[r]
        BY <2>1, <4>1 DEF Alive, Frame, Ordered, TypeOK
      <4>3. QED  BY <1>3, <3>2, <4>2, CleanOthers DEF CleanInv
    <3>3. QED  BY <3>1, <3>2
  <2>2. ASSUME Alive(k)', clean'[k] PROVE CleanRun(k)'
    <3>1. CASE \E m \in Models : CreateRun(k, m)
      BY <2>2, <3>1, CleanCreate
    <3>2. CASE Fetch(k)
      BY <2>2, <3>2, FetchEffect, CleanFetch DEF CleanInv, Alive, Ended
    <3>3. CASE FetchFails(k)
      <4>1. Frame(k) /\ Stays(k) /\ tx' = tx /\ GivesUp(k) /\ CleanRun(k)
        BY <2>2, <3>3, FetchFailsEffect DEF CleanInv, Alive, Ended
      <4>2. tx[k].rows \subseteq page[k].vins
        BY <4>1 DEF CleanRun
      <4>3. QED  BY <2>2, <4>1, <4>2, CleanOwn DEF GivesUp
    <3>4. CASE WritePage(k)
      BY <2>2, <3>4, WriteEffect, CleanWrite DEF CleanInv, Alive, Ended
    <3>5. CASE WritePageFails(k)
      <4>1. Frame(k) /\ Stays(k) /\ GivesUp(k) /\ CleanRun(k) /\ (tx'[k].rows \subseteq page[k].vins \/ tx' = tx)
        BY <2>2, <3>5, WriteFailsEffect DEF CleanInv, Alive, Ended
      <4>2. tx'[k].rows \subseteq page[k].vins
        BY <4>1 DEF CleanRun
      <4>3. QED  BY <2>2, <4>1, <4>2, CleanOwn DEF GivesUp
    <3>6. CASE Mark(k) \/ DeletePointers(k) \/ InsertPointers(k)
      <4>1. /\ Frame(k) /\ Stays(k) /\ pc'[k] \in {"delete", "insert", "commit"} /\ tx'[k].rows = tx[k].rows
            /\ clean' = clean /\ pc[k] \in {"mark", "delete", "insert"} /\ partial' = partial /\ failing' = failing
        BY <3>6, MarkEffect, DeleteEffect, InsertEffect
      <4>2. CleanRun(k)
        BY <2>2, <4>1 DEF CleanInv, Alive, Ended
      <4>3. tx'[k].rows \subseteq page[k].vins
        BY <4>1, <4>2 DEF CleanRun
      <4>4. ASSUME ~partial'[k] /\ ~failing'[k] PROVE tx'[k].marked /\ tx'[k].off = NotSeen(k)
        <5>1. CASE Mark(k)
          BY <5>1, MarkEffect
        <5>2. CASE ~Mark(k)
          <6>1. pc[k] \in {"delete", "insert"} /\ tx'[k].marked = tx[k].marked /\ tx'[k].off = tx[k].off
            BY <3>6, <5>2, DeleteEffect, InsertEffect
          <6>2. QED  BY <4>1, <4>2, <4>4, <6>1 DEF CleanRun
        <5>3. QED  BY <5>1, <5>2
      <4>5. QED  BY <2>2, <4>1, <4>2, <4>3, <4>4, CleanOwn
    <3>7. CASE Commit(k) \/ Dies(k)
      BY <2>2, <3>7, CommitEffect, DiesEffect DEF Alive, Ended
    <3>8. CASE DeadlockStatement(k) \/ StatementFails(k)
      BY <2>2, <3>8, FailureEffect DEF Ordered, TypeOK
    <3>9. QED  BY <1>3, <3>1, <3>2, <3>3, <3>4, <3>5, <3>6, <3>7, <3>8 DEF RunStep
  <2>3. QED  BY <2>1, <2>2 DEF CleanInv
<1>4. QED  BY <1>1, <1>2, <1>3, NextSteps

\* A complete run that ends commits.
LEMMA EndsCommits ==
  ASSUME Ordered, Next, NEW r \in Runs, Ends(r)
  PROVE  Commit(r) /\ ~failing[r] /\ ~partial[r]
<1>1. pc[r] = "commit" /\ pc'[r] = "done" /\ ~partial[r]
  BY DEF Ends
<1>2. ~SiteStep
  BY <1>1, SiteEffect
<1>3. PICK k \in Runs : RunStep(k)
  BY <1>2, NextSteps
<1>4. k = r
  BY <1>1, <1>3, CreateEffect, FetchEffect, FetchFailsEffect, WriteEffect, WriteFailsEffect, MarkEffect,
     DeleteEffect, InsertEffect, CommitEffect, FailureEffect, DiesEffect DEF RunStep, Frame
<1>5. Commit(r)
  BY <1>1, <1>3, <1>4, CreateEffect, FetchEffect, FetchFailsEffect, WriteEffect, WriteFailsEffect, MarkEffect,
     DeleteEffect, InsertEffect, FailureEffect, DiesEffect DEF RunStep
<1>6. QED  BY <1>1, <1>5, CommitEffect

\* Then it has all vehicles that are listed for its model, and hides the others.
LEMMA CleanEnd ==
  ASSUME Ordered, HidesInv, CleanInv, NEW r \in Runs, Commit(r), ~failing[r], ~partial[r], clean[r]
  PROVE  /\ CleanRun(r) /\ active' = active \ NotSeen(r) /\ tx[r].rows = {}
         /\ \A v \in Vins : seriesOf'[v] = seriesOf[v]
         /\ Listed(of[r]) \subseteq snap[r]
<1>1. /\ pc[r] = "commit" /\ seriesOf' = SeenSeries(r) /\ active' = (active \cup tx[r].rows) \ tx[r].off
      /\ CleanRun(r) /\ of[r] \in Models /\ site \in Sites
  BY CommitEffect DEF CleanInv, Alive, Ended, Ordered, PagesInv, TypeOK
<1>2. tx[r].marked /\ tx[r].off = NotSeen(r)
  BY <1>1 DEF CleanRun
<1>3. tx[r].rows = {} /\ page[r].no > page[r].total
  BY <1>2 DEF HidesInv
<1>4. \A v \in Vins : seriesOf'[v] = seriesOf[v]
  BY <1>1, <1>3 DEF SeenSeries
<1>5. page[r].no \in Nat \ {0} /\ page[r].total \in Nat \ {0}
  BY RunTypes DEF Ordered, Page
<1>6. page[r].total = PageCount(of[r])
  BY <1>1, <1>3, <1>5 DEF CleanRun
<1>7. (page[r].no - 1) * PageSize >= Len(site[of[r]])
  <2> DEFINE n == page[r].no - 1
             k == PageCount(of[r])
             l == Len(site[of[r]])
  <2>1. n \in Nat /\ k \in Nat /\ l \in Nat /\ n >= k /\ k * PageSize >= l
    BY <1>1, <1>3, <1>5, <1>6, PagesSuffice, Listing
  <2> HIDE DEF n, k, l
  <2>2. n * PageSize >= k * PageSize
    BY <2>1
  <2>3. n * PageSize \in Nat /\ k * PageSize \in Nat
    BY <2>1
  <2>4. n * PageSize >= l
    BY <2>1, <2>2, <2>3
  <2>5. QED  BY <2>4 DEF n, l
<1>8. \A i \in 1 .. Len(site[of[r]]) : site[of[r]][i] \in snap[r]
  <2>1. ASSUME NEW i \in 1 .. Len(site[of[r]]) PROVE i <= (page[r].no - 1) * PageSize
    <3>1. i \in Nat /\ Len(site[of[r]]) \in Nat /\ i <= Len(site[of[r]]) /\ (page[r].no - 1) * PageSize \in Int
      BY <1>1, <1>5, Listing
    <3>2. QED  BY <1>7, <3>1
  <2>2. QED  BY <1>1, <2>1 DEF CleanRun
<1>9. Listed(of[r]) = {site[of[r]][i] : i \in 1 .. Len(site[of[r]])}
  BY <1>1, Listing DEF Listed
<1>10. QED  BY <1>1, <1>2, <1>3, <1>4, <1>8, <1>9

\* A complete run leaves exactly the listed vehicles of its model active, what-
\* ever the runs of other models do meanwhile, as long as the site stands still.
THEOREM CompleteRunsAreExact == Spec => CompleteIsExact
<1>1. Init => Ordered /\ HidesInv /\ CleanInv
  BY OrderedInit, HidesInit, CleanInit
<1>2. Ordered /\ HidesInv /\ CleanInv /\ [Next]_vars => Ordered' /\ HidesInv' /\ CleanInv'
  BY OrderedStep, HidesStep, CleanStep
<1>3. Ordered /\ HidesInv /\ CleanInv /\ [Next]_vars =>
        [\A r \in Runs : Ends(r) /\ clean[r] => {v \in active' : seriesOf'[v] = of[r]} = Listed(of[r])]_vars
  <2> SUFFICES ASSUME Ordered, HidesInv, CleanInv, Next, NEW r \in Runs, Ends(r), clean[r]
               PROVE  {v \in active' : seriesOf'[v] = of[r]} = Listed(of[r])
    OBVIOUS
  <2>1. Commit(r) /\ ~failing[r] /\ ~partial[r]
    BY EndsCommits
  <2>2. CleanRun(r) /\ active' = active \ NotSeen(r) /\ (\A v \in Vins : seriesOf'[v] = seriesOf[v])
        /\ Listed(of[r]) \subseteq snap[r]
    BY <2>1, CleanEnd
  <2>3. Listed(of[r]) \subseteq Vins /\ active \subseteq Vins
    BY <2>1, CommitEffect, Listing DEF Listed, Ordered, TypeOK, PagesInv
  <2>4. ASSUME NEW v \in active', seriesOf'[v] = of[r] PROVE v \in Listed(of[r])
    <3>1. v \in Vins /\ v \notin NotSeen(r) /\ seriesOf[v] = of[r]
      BY <2>2, <2>3, <2>4
    <3>2. v \in snap[r]
      BY <3>1 DEF NotSeen
    <3>3. QED  BY <2>2, <3>2 DEF CleanRun
  <2>5. ASSUME NEW v \in Listed(of[r]) PROVE v \in active' /\ seriesOf'[v] = of[r]
    <3>1. v \in snap[r] /\ v \in Vins
      BY <2>2, <2>3
    <3>2. v \in active /\ seriesOf[v] = of[r] /\ v \notin NotSeen(r)
      BY <2>2, <3>1 DEF CleanRun, NotSeen
    <3>3. QED  BY <2>2, <3>1, <3>2
  <2>6. QED  BY <2>4, <2>5
<1>4. QED  BY <1>1, <1>2, <1>3, PTL DEF Spec, CompleteIsExact

-----------------------------------------------------------------------------
(* The pointers.                                                           *)

\* Runs that rebuild the pointers do so one after the other; what one has
\* inserted is what it would find again until it commits.
PointersInv ==
  \A r \in Runs :
    /\ tx[r].pointers # "kept" => PointersFree(r)
    /\ pc[r] = "commit" <=> tx[r].pointers = "inserted"
    /\ pc[r] = "commit" => \A m \in Models : Fullest(m, SeenRuns(r), SeenSeries(r)) \in {NoRun, tx[r].latest[m]}

\* Nobody has touched the pointers at first.
LEMMA PointersInit == Init => PointersInv
BY DEF Init, PointersInv, NoTx

\* A step that touches neither the pointers of a transaction nor a table while
\* another run is about to commit.
LEMMA PointersKept ==
  ASSUME Ordered, PointersInv, NEW k \in Runs, Frame(k),
         (tx'[k].pointers = tx[k].pointers /\ pc[k] # "commit") \/ tx'[k] = NoTx, pc'[k] # "commit",
         \A r \in Runs \ {k} : pc[r] = "commit" => snap' = snap /\ seriesOf' = seriesOf
  PROVE  PointersInv'
<1>1. \A r \in Runs : tx'[r].pointers = tx[r].pointers \/ (tx'[r].pointers = "kept" /\ r = k)
  BY DEF Frame, NoTx
<1>2. ASSUME NEW r \in Runs, tx'[r].pointers # "kept" PROVE PointersFree(r)'
  <2>1. \A q \in Runs \ {r} : tx[q].pointers = "kept"
    <3>1. PointersFree(r)
      BY <1>1, <1>2 DEF PointersInv
    <3>2. \A q \in Runs \ {r} : q \in Others(r) \/ tx[q] = NoTx
      BY Quiet
    <3>3. QED  BY <3>1, <3>2 DEF PointersFree, NoTx
  <2>2. QED  BY <1>1, <2>1 DEF PointersFree, Others
<1>3. ASSUME NEW r \in Runs PROVE pc'[r] = "commit" <=> tx'[r].pointers = "inserted"
  <2>1. CASE r = k
    BY <2>1 DEF PointersInv, NoTx
  <2>2. CASE r # k
    BY <2>2 DEF PointersInv, Frame
  <2>3. QED  BY <2>1, <2>2
<1>4. ASSUME NEW r \in Runs, pc'[r] = "commit", NEW m \in Models
      PROVE  (Fullest(m, SeenRuns(r), SeenSeries(r)))' \in {NoRun, tx'[r].latest[m]}
  <2>1. r # k /\ pc[r] = "commit" /\ snap' = snap /\ seriesOf' = seriesOf /\ tx'[r] = tx[r] /\ of'[r] = of[r]
    BY <1>4 DEF Frame
  <2>2. SeenRuns(r)' = SeenRuns(r) /\ SeenSeries(r)' = SeenSeries(r)
    BY <2>1 DEF SeenRuns, SeenSeries
  <2>3. (Fullest(m, SeenRuns(r), SeenSeries(r)))' = Fullest(m, SeenRuns(r), SeenSeries(r))
    BY <2>2 DEF Fullest
  <2>4. QED  BY <2>1, <2>3 DEF PointersInv
<1>5. QED  BY <1>2, <1>3, <1>4 DEF PointersInv

\* DELETE and INSERT wait until no other transaction has touched the pointers.
LEMMA PointersTaken ==
  ASSUME Ordered, PointersInv, NEW k \in Runs, Frame(k), Stays(k), PointersFree(k), Alive(k),
         \/ tx'[k].pointers = "deleted" /\ pc'[k] # "commit"
         \/ /\ tx'[k].pointers = "inserted" /\ pc'[k] = "commit" /\ tx'[k].rows = tx[k].rows
            /\ \A m \in Models : Fullest(m, SeenRuns(k), SeenSeries(k)) \in {NoRun, tx'[k].latest[m]}
  PROVE  PointersInv'
<1>1. \A q \in Runs \ {k} : tx[q].pointers = "kept" /\ tx'[q] = tx[q] /\ pc'[q] = pc[q]
  <2>1. \A q \in Runs \ {k} : q \in Others(k) \/ tx[q] = NoTx
    BY Quiet
  <2>2. QED  BY <2>1 DEF PointersFree, Frame, NoTx
<1>2. ASSUME NEW r \in Runs, tx'[r].pointers # "kept" PROVE PointersFree(r)'
  BY <1>1, <1>2 DEF PointersFree, Others
<1>3. ASSUME NEW r \in Runs PROVE pc'[r] = "commit" <=> tx'[r].pointers = "inserted"
  BY <1>1 DEF PointersInv
<1>4. ASSUME NEW r \in Runs, pc'[r] = "commit", NEW m \in Models
      PROVE  (Fullest(m, SeenRuns(r), SeenSeries(r)))' \in {NoRun, tx'[r].latest[m]}
  <2>1. r = k /\ tx'[k].rows = tx[k].rows
    BY <1>1, <1>4 DEF PointersInv
  <2>2. SeenRuns(k)' = SeenRuns(k) /\ SeenSeries(k)' = SeenSeries(k)
    BY <2>1 DEF SeenRuns, SeenSeries, Stays
  <2>3. (Fullest(m, SeenRuns(k), SeenSeries(k)))' = Fullest(m, SeenRuns(k), SeenSeries(k))
    BY <2>2 DEF Fullest
  <2>4. QED  BY <1>4, <2>1, <2>3
<1>5. QED  BY <1>2, <1>3, <1>4 DEF PointersInv

\* A step that touches none of this.
LEMMA PointersAside ==
  ASSUME PointersInv, UNCHANGED <<seriesOf, snap, pc, of, tx>>
  PROVE  PointersInv'
<1>1. ASSUME NEW r \in Runs
      PROVE  /\ PointersFree(r)' = PointersFree(r)
             /\ SeenRuns(r)' = SeenRuns(r) /\ SeenSeries(r)' = SeenSeries(r)
  BY DEF PointersFree, Others, Alive, SeenRuns, SeenSeries
<1>2. ASSUME NEW r \in Runs, NEW m \in Models
      PROVE  (Fullest(m, SeenRuns(r), SeenSeries(r)))' = Fullest(m, SeenRuns(r), SeenSeries(r))
  <2>1. SeenRuns(r)' = SeenRuns(r) /\ SeenSeries(r)' = SeenSeries(r)
    BY <1>1
  <2>2. QED  BY <2>1 DEF Fullest
<1>3. QED  BY <1>1, <1>2 DEF PointersInv

\* Every step keeps the pointers in order.
LEMMA PointersStep == Ordered /\ PointersInv /\ [Next]_vars => PointersInv'
<1> SUFFICES ASSUME Ordered, PointersInv, [Next]_vars PROVE PointersInv'
  OBVIOUS
<1>1. CASE UNCHANGED vars
  BY <1>1, PointersAside DEF vars, db
<1>2. CASE SiteStep
  BY <1>2, SiteEffect, PointersAside DEF db
<1>3. ASSUME NEW k \in Runs, RunStep(k) PROVE PointersInv'
  <2>1. CASE (\E m \in Models : CreateRun(k, m)) \/ Fetch(k)
    BY <2>1, CreateEffect, FetchEffect, PointersKept
  <2>2. CASE FetchFails(k)
    BY <2>2, FetchFailsEffect, PointersKept DEF GivesUp, Stays
  <2>3. CASE WritePage(k)
    <3>1. Frame(k) /\ pc[k] = "write" /\ pc'[k] # "commit" /\ tx' = tx /\ PageFree(k)
      BY <2>3, WriteEffect DEF GivesUp
    <3>2. \A r \in Runs \ {k} : pc[r] # "commit"
      BY <3>1 DEF PageFree, PointersInv, Others, Alive, Ended
    <3>3. QED  BY <3>1, <3>2, PointersKept
  <2>4. CASE WritePageFails(k)
    BY <2>4, WriteFailsEffect, PointersKept DEF GivesUp, Stays
  <2>5. CASE Mark(k)
    BY <2>5, MarkEffect, PointersKept DEF Stays
  <2>6. CASE DeletePointers(k)
    BY <2>6, DeleteEffect, PointersTaken DEF Alive, Ended
  <2>7. CASE InsertPointers(k)
    BY <2>7, InsertEffect, PointersTaken DEF Alive, Ended
  <2>8. CASE Commit(k)
    <3>1. Frame(k) /\ pc[k] = "commit" /\ pc'[k] # "commit" /\ tx'[k] = NoTx
      BY <2>8, CommitEffect
    <3>2. \A r \in Runs \ {k} : pc[r] # "commit"
      BY <3>1 DEF PointersFree, PointersInv, Others, Alive, Ended
    <3>3. QED  BY <3>1, <3>2, PointersKept
  <2>9. CASE DeadlockStatement(k) \/ StatementFails(k)
    BY <2>9, FailureEffect, PointersKept DEF Stays
  <2>10. CASE Dies(k)
    BY <2>10, DiesEffect, PointersKept DEF Stays
  <2>11. QED  BY <1>3, <2>1, <2>2, <2>3, <2>4, <2>5, <2>6, <2>7, <2>8, <2>9, <2>10 DEF RunStep
<1>4. QED  BY <1>1, <1>2, <1>3, NextSteps

\* A complete run of a model that lists vehicles is the run that is shown, or
\* the one that is shown was there before and has more vehicles of the model: a
\* run that read everything never loses against one that is only as full.
THEOREM CompleteRunsAreShown == Spec => ShownUnlessFuller
<1>1. Init => Ordered /\ HidesInv /\ CleanInv /\ PointersInv
  BY OrderedInit, HidesInit, CleanInit, PointersInit
<1>2. Ordered /\ HidesInv /\ CleanInv /\ PointersInv /\ [Next]_vars
        => Ordered' /\ HidesInv' /\ CleanInv' /\ PointersInv'
  BY OrderedStep, HidesStep, CleanStep, PointersStep
<1>3. Ordered /\ HidesInv /\ CleanInv /\ PointersInv /\ [Next]_vars =>
        [\A r \in Runs : Ends(r) /\ clean[r] /\ Listed(of[r]) # {} =>
           LET q == latest'[of[r]]
           IN  q # r => q # NoRun /\ Cardinality({v \in snap'[q] : seriesOf'[v] = of[r]}) > Cardinality(Listed(of[r]))]_vars
  <2> SUFFICES ASSUME Ordered, HidesInv, CleanInv, PointersInv, Next,
                      NEW r \in Runs, Ends(r), clean[r], Listed(of[r]) # {}, latest'[of[r]] # r
               PROVE  /\ latest'[of[r]] # NoRun
                      /\ Cardinality({v \in snap'[latest'[of[r]]] : seriesOf'[v] = of[r]}) > Cardinality(Listed(of[r]))
    OBVIOUS
  <2> DEFINE m == of[r]
             f == Fullest(m, snap', seriesOf')
             S(q) == Size(m, q, snap', seriesOf')
  <2>1. Commit(r) /\ ~failing[r] /\ ~partial[r]
    BY EndsCommits
  <2>2. CleanRun(r) /\ tx[r].rows = {} /\ (\A v \in Vins : seriesOf'[v] = seriesOf[v]) /\ Listed(m) \subseteq snap[r]
    BY <2>1, CleanEnd
  <2>3. /\ m \in Models /\ pc[r] = "commit" /\ snap' = SeenRuns(r) /\ seriesOf' = SeenSeries(r)
        /\ latest' = tx[r].latest /\ snap \in [Runs -> SUBSET Vins] /\ snap' \in [Runs -> SUBSET Vins]
    BY <2>1, CommitEffect DEF Ordered, PagesInv, TypeOK
  <2>4. snap' = snap
    BY <2>2, <2>3 DEF SeenRuns
  <2>5. f \in {NoRun, latest'[m]}
    BY <2>3 DEF PointersInv
  <2>6. {v \in snap'[r] : seriesOf'[v] = m} = Listed(m)
    BY <2>2, <2>3, <2>4 DEF CleanRun
  <2>7. S(r) = Cardinality(Listed(m)) /\ S(r) \in Nat /\ S(r) # 0
    <3>1. {v \in snap'[r] : seriesOf'[v] = m} # {}
      BY <2>6
    <3>2. S(r) = Cardinality(Listed(m))
      BY <2>6 DEF Size
    <3>3. S(r) \in Nat /\ S(r) # 0
      BY <2>3, <3>1, SizeType
    <3>4. QED  BY <3>2, <3>3
  <2>8. ASSUME NEW q \in Runs, q > r PROVE S(q) = 0
    <3>1. {v \in snap'[q] : seriesOf'[v] = m} = {}
      BY <2>2, <2>3, <2>4, <2>8 DEF CleanRun
    <3>2. QED  BY <2>3, <3>1, SizeType
  <2>9. f \in Runs /\ S(f) > 0 /\ (S(r) < S(f) \/ (S(r) = S(f) /\ r <= f))
    BY <2>3, <2>7, FullestIsFullest
  <2>10. latest'[m] = f /\ f # r
    BY <2>5, <2>9
  <2>11. S(f) \in Nat
    BY <2>3, <2>9, SizeType
  <2> HIDE DEF S, f
  <2>12. ~(f > r)
    BY <2>8, <2>9
  <2>13. S(f) > S(r)
    BY <2>7, <2>9, <2>10, <2>11, <2>12
  <2>14. S(f) > Cardinality(Listed(m))
    BY <2>7, <2>13
  <2>15. S(f) = Cardinality({v \in snap'[f] : seriesOf'[v] = m})
    BY DEF S, Size
  <2>16. QED  BY <2>9, <2>10, <2>14, <2>15
<1>4. QED  BY <1>1, <1>2, <1>3, PTL DEF Spec, ShownUnlessFuller
===============================================================================
