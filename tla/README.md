# Verification of the e-commerce caching system

TLA+ models of the Spring Boot application in `src/`, TLC runs that check them on
small instances, and TLAPS proofs of what matters most for every instance size.

Contents: 1 the system, 2 the plan, 3 the models, 4 runs and bounds, 5 fairness,
6 proofs, 7 what the models leave out, 8 how to run everything.

## 1. The system

A review-and-vouchers shop: MySQL holds the durable tables, Redis holds caches,
locks, counters, the flash-sale ledger, the order stream, sessions and social
sets. `ARCHITECTURE.md` describes three identical instances behind nginx; all of
them share one MySQL and one Redis.

| component | state | operations | interacts with | hard behaviour |
|---|---|---|---|---|
| flash sale, request side (`VoucherOrderServiceImpl.seckillVoucher`, `seckill.lua`) | Redis: stock key, buyer set per voucher, stream `stream.orders` | draw an id, run the script, set the field `proxy`, answer | id generator, consumer (stream, `proxy`) | races for the last unit, id drawn before the script, lost answers, crash between calls |
| flash sale, consumer side (`VoucherOrderHandler`, `createVoucherOrder`) | per-instance thread; group `g1`, its pending list; `tb_seckill_voucher`, `tb_voucher_order` | read, lock the user, deduct and insert in a transaction, unlock, acknowledge, pending loop | Redisson, MySQL | redelivery, shared consumer name, retries of what was done, lost leases, endless retry |
| user lock (Redisson `RLock`) | Redis key `lock:order:<user>` with lease and watchdog | `tryLock()`, `unlock()` | consumer | holder dies, lease lapses, hold leaks |
| voucher publication (`VoucherServiceImpl.addSeckillVoucher`) | both voucher tables, Redis stock key | insert, insert, SET, commit or roll back | request side reads the key | Redis visible before the commit |
| id generator (`RedisIdWorker`) | Redis counter per prefix and day | `nextId` | request side | clock read before INCR, 32-bit field, clocks that differ or go back |
| mutex with token (`MutexRedisLock`, `unlock.lua`) | Redis key | `tryLock(sec)`, `unlock()` | none (dormant) | fixed lease, late unlock |
| shop cache (`ShopServiceImpl`, `CacheClient`) | Redis entry with logical expiry, rebuild lock, `tb_shop` | read, rebuild in a pool, update with delete | MySQL transaction | stale write-back, lock expiry, delete before commit |
| shop types (`ShopTypeServiceImpl`) | Redis list, `tb_shop_type` | read-through | - | never invalidated |
| blogs (`BlogServiceImpl`, the list of `info.html`) | `tb_blog.liked`, Redis zset per blog, feed zset per user | like/unlike, publish to fans, scroll | follow table | test-then-act over two stores, push without transaction, posts arriving between pages, equal times across pages, failed and late pages, several clocks |
| follows (`FollowServiceImpl`, the follow buttons) | `tb_follow`, Redis set per user | follow, unfollow, common follows | blogs | two stores, no unique index |
| sessions (`UserServiceImpl`, interceptors, `UserHolder`, `login.html`, `common.js`) | Redis code key, token hash with TTL, thread-local, the browser's session storage | send code, log in, refresh, own user | every handler | concurrent first logins, hash without TTL, thread reuse, answers after the page's timeout |
| daily check-in (`sign`, `signCount`) | Redis bitmap per user and month | set today's bit, count the streak | sessions | midnight and the end of the month between the clock and the call |
| search, CRUD, uploads, configuration, other pages, vendored libraries | - | reads and plumbing | - | none of its own |

What makes each correct:

* flash sale: no overselling, one order per user and voucher, an accepted order
  reaches MySQL under the id the client was told, the two ledgers add up through
  crashes and redelivery, an acknowledged entry has its row, the pending list drains;
* publication: stock sold is stock published;
* ids: unique within a prefix, increasing while the clock does not go back;
* mutex: exclusion within the lease, nobody ends another's hold;
* shop cache: a finished update is seen once the entry has expired again, one
  rebuild at a time, no entry outlives its reason;
* likes: the count in MySQL holds one for each user in the Redis set, so every like
  can be taken back;
* follows: table and Redis set agree, or the next undisturbed request joins them;
* feed: whoever follows throughout gets the post; scrolling shows each post in order,
  skips none of those it asked for and comes to an end, also when pages fail;
* sessions: a request runs as the user of its token or as nobody, a session has an
  end, and a user who goes on trying gets in;
* check-in: the streak is the number of days without a gap.

`PROJECT.json` lists each hazard at its line with the properties that answer it.

## 2. Plan

Order of work, most important behaviour first:

1. **Flash sale** (done): `OrderStream`, `UserLock`, `SeckillOrder`,
   `SeckillProperties`, the abstract `FlashSale`, `MCSeckill`, `SeckillProofs`.
2. **Shop cache** (done): `ShopCache` with every body `queryById` can be given,
   `ShopCacheProperties`, `MCShopCache`, `ShopCacheProofs`.
3. **Sessions** (done): `Session`, `SignIn`.
4. **Id generator and mutex** (done): `IdWorker`, `MutexLock`; checked side by side
   with 3 in `Utilities`, with which they share no state.
5. **Likes, follows and feed** (done): `Likes`, `Follows`, `Feed`, `Scroll`, composed in
   `Community`.
6. **Proofs** (done) of the safety properties of all of these for every instance
   size: each part's first, then those of `Utilities` and `Community`.

Composition: `SeckillOrder` EXTENDS `OrderStream` and `UserLock`;
`SeckillProperties` EXTENDS `SeckillOrder` and instantiates `FlashSale` through a
refinement mapping; `MCSeckill` and `SeckillProofs` EXTEND `SeckillProperties`. The shop
cache has modules of its own in the same layers: it shares the two stores with the
flash sale, and no key or table. `Feed` EXTENDS `Follows` and `Scroll` EXTENDS
`Feed`. `Utilities` and `Community` choose in `Init` which of their parts a
behaviour is about: parts without shared state need no interleaving with each
other, and one run then checks them all. Each part has a specification of its own
(`SessionSpec`, `IdSpec`, `MutexSpec`, `LikeSpec`, `FollowSpec`, `FeedSpec`), which is
what their proofs are about.

## 3. The models

### Flash sale

**`OrderStream`** is the Redis stream with its group. Entries are never trimmed, so
an entry is its position and "undelivered" is everything past `lastDelivered`. All
instances read as consumer `c1` (`Consumer.from("g1", "c1")`), so there is one
pending list, the set `pel`; `XREADGROUP ... 0` answers its smallest member. The
group is created by an operator, by hand (a comment of the service has the
command), hence `groupExists`.

**`UserLock`** is the Redisson lock as used here: `tryLock()` with neither wait nor
lease time, renewed by the watchdog. `holder[u]` is free, an instance (its one
consumer thread), or `Orphan` once that process died. A hold that nobody will give
back (the answer to `tryLock` was lost, `unlock` failed) is *leaked*: it only ends
with its lease.

**`SeckillOrder`** composes both with Redis, MySQL and the threads.

| action | code |
|---|---|
| `CacheStock`, `CommitVoucher`, `RollbackVoucher` | `addSeckillVoucher`: SET inside the transaction, then its end |
| `NextId` | `redisIdWorker.nextId("order")` on a request thread |
| `RunScript` (`Sell`, `Reject`), `RunScriptFails` | `validateSeckillEligibility` and the whole script, which Redis runs as one step; the call may fail before or after it |
| `InitializeTransactionProxy` | `initializeTransactionProxy()` and the answer |
| `ReadNew`, `ReadNewFails` | `run()`: one undelivered record, or an exception, which enters `handlePendingList` |
| `ReadPending` | `handlePendingList()`: the oldest pending record, or none, which leaves the loop |
| `AcquireUserLock`, `AcquireUserLockFails` | `tryLock`; taken: `handleVoucherOrder` *returns*, and its caller acknowledges |
| `CreateVoucherOrder`, `CreateVoucherOrderFails` | `proxy.createVoucherOrder`: null proxy, no stock, duplicate key, commit; a failing call may have committed |
| `ReleaseUserLock`, `ReleaseUserLockFails` | `finally`, after which an exception goes on its way |
| `Acknowledge`, `AcknowledgeFails` | XACK; `handlePendingList` stays in its loop, `run` in its own |
| `LeaseExpires`, `Crash`, `Restart` | the environment and `@PostConstruct init()` |

Granularity: one step per remote call, because every call of another thread can
come between two of them. `createVoucherOrder` is one step although it is two
statements: it is one MySQL transaction whose UPDATE takes the row lock of the
voucher, so transactions on one voucher are serial, and a crash inside it is a crash
before it. The UPDATE of a row that an open publication has inserted waits
(`RowUnlocked`). An empty read in `run()` and an exception in `handlePendingList`
(which sleeps and retries) change nothing and are stuttering steps. The field
`proxy` is written by request threads and read by the consumer without
synchronisation; a read returns the value set so far, and a late visibility is the
same as a later write, because every read is preceded by remote calls and a null
is retried.

**`SeckillProperties`** states the type invariant, the safety and action properties,
the refinement mapping and the liveness properties. **`FlashSale`** is what
customers are promised: vouchers go on sale with a stock, each step accepts one
purchase of one user and one unit or fulfils one accepted purchase once.

Each module that models code, of whichever component, also holds the mutants of its
definitions, marked `Mutant`: the slips against which each property is tested.

### Shop cache

**`ShopCache`** is one shop: its Redis entry (`cache`), the key `lock:shop:<id>`
(`lock`; its value is always "1", so it has no owner), its row, the transaction of
`update()` and the threads. A shop's content is the *version* of its row; 0 is "no
such row", and a negative entry holds 0. `committed` is history: the versions the row
has had. `queryById` has five bodies, four of them in comments; `strategy` is the one
a build has, chosen in `Init` and never changed, and the others are dormant. The two
`queryWithPassThrough` do the same and are one strategy.

| action | code |
|---|---|
| `SaveShop` | `ShopController.saveShop`: an insert that leaves the cache alone |
| `UpdateRow`, `DeleteEntry`, `CommitUpdate`, `UpdateFails` | `update()`: the row, then DEL, then the end of the transaction |
| `BeginRead`, `GetEntry` | a request, and GET with what each body does with a live, expired, negative or missing entry |
| `createRedisCash` | `tryLock` and, with the lock, a task for the pool (`CacheClient` has the same code); the stale entry is the answer, a missing one is loaded |
| `LockOrRetry`, `Load`, `Put`, `Unlock` | `queryWithMutex`, which calls itself without the lock; each call has a `finally` that deletes the lock |
| `Load`, `Put` | also `queryWithPassThrough` |
| `TakeTask`, `LoadForRebuild`, `PutRebuilt`, `UnlockAfterRebuild`, `RebuildFails` | the pool thread: `saveShop2Redis`, then `unlock` in `finally` |
| `ReaderFails` | any call of a reader throws, before or after its effect |
| `EntryExpires`, `LeaseExpires`, `Crash` | the clock and the processes |

Again one step per remote call. `unlocks` counts the `finally` blocks a thread has to
leave through. Queued tasks are a count, because all of them rebuild the same shop.
A logical entry expires but stays; the others vanish with their TTL. Two readings of the
code are worth knowing: after an `update()`, `CacheClient.queryWithLogicalExpire`
answers "no such shop" until something else fills the entry; and a missing shop is
cached as a logical entry without data, which reads as null until it has expired.

**`ShopCacheProperties`** states the type invariant and what must hold: only
committed versions are served; one rebuild at a time and no step back, while no
rebuild outlives the 10-second lease; and in the end the entry agrees with the row.

### Sessions and check-ins

**`Session`** joins three places. A *client* is the browser tab of one user: `page`
(the login page, the info page, the info page with its data), `typed` (a code to type
in) and `token` (`sessionStorage`). A *server thread* has a request (`job`), its next
call (`pc`) and the thread-local of `UserHolder` (`local`), which outlives the request.
Redis and MySQL have `code`, `session` (the hashes, with `lasting` for those without a
TTL) and `users`. A token is a number; `IsFresh` gives the smallest one nobody has.

| action | code |
|---|---|
| `SendCode` | the button of `login.html`, and `sendCode` |
| `Send`, `Reload` | the login button (never disabled) or `queryUser` of `info.html`, with the token that `common.js` read when the page was loaded |
| `Lookup`, `Refresh`, with `Guard` | `RefreshTokenInterceptor.preHandle` (HGETALL, then EXPIRE) and then `LoginInterceptor` |
| `PreHandleFails` | an exception inside `preHandle`: Spring calls no `afterCompletion`, so the thread keeps its user (`tainted`) |
| `CheckCode`, `QueryUser`, `CreateUser`, `PutSession`, `ExpireSession` | `login`, call by call; a first login creates the row and goes on with the null that `createUserWithPhone` returns |
| `Me` | `UserController.me` |
| `CallFails` | a call of a handler fails, applied or not; `WebExceptionAdvice` answers |
| `Answer`, with `Reply`, `Receive` | the end of each request: `afterCompletion`, and what the page does with the answer (a login stores the token; a refusal or failure leads back to the login page) |
| `PageTimesOut` | the two seconds of `axios.defaults.timeout`: the page gives up and the server goes on |
| `CodeLapses`, `SessionLapses`, `AbandonedSessionEnds` | the TTLs |

**`SignIn`** is one user's bitmaps. `ReadDate` is the clock reading of a request; `Sign`
and `SignCount` are its call to Redis, with a day, and so a bitmap and an offset, that
may be yesterday's. The number BITFIELD returns (`Field`) is the set of the positions of
its ones, `ShiftRight` is `num >>>= 1`, and `TrailingOnes` is the loop of `signCount`. `RequestFails` is a SETBIT that throws, applied or not.

### Id generator and mutex

**`IdWorker`**: `ReadClock` gives second and date in one reading, `Draw` is INCR of that
date's counter and the packing (`Compose`), `DrawFails` is INCR raising an error,
applied or not. `Compose` has a narrow field, `Width` instead of 2^32: past it the counter
or-s into the seconds as it does in the code. The clocks of several instances are one
clock that is set back now and then (`SetClockBack`), because a call sees of a clock
only its one reading.

**`MutexLock`** has one key. `TryLock` is SET NX EX, `Unlock` is `unlock.lua`, which
deletes the key only with the caller's token; `TryLockReplyLost`, `UnlockFails`,
`LeaseEnds` and `OwnerDies` are the environment. The token is a UUID of the process and
the thread's id, so a dead process's hold (`DeadOwner`) is nobody's.

### Likes, follows and feed

**`Likes`** is one blog: `liked` of its row, the Redis set `likers`, and the requests on
server threads: `Click`, `ReadScore`, `CountUp` or `CountDown` (or `CountDownRefused`: the
column is unsigned, `ecommerce.sql:31`), `MarkUser`, and `LikeFails` at any of the calls. `net`
is history: each user's share of the count.

**`Follows`** has `rows` (how many rows of `tb_follow` a pair has: there is no unique index)
and `followed` (the Redis sets). `Follow` begins a request, `SaveRow` or `RemoveRows` is
its MySQL call, `UpdateSet` its Redis call; `RemoveNothing` is the early end when no row
was deleted; `FollowFails` is a call that throws.

**`Feed`** publishes: `SavePost`, `ListFans` (the query of `tb_follow`), then for each row
`ReadTime` and `PushToFan`, and `PushFails` at any of these calls. The follows of `Follows` go on
meanwhile (`FollowStep`). `inbox[f][b]` is the score of post b in `feed:<f>`. There is no common
clock: `ReadTime` may read any time, because each instance stamps its pushes with its own.

**`Scroll`** is the reader of one inbox. `RevRange` is ZREVRANGEBYSCORE: the posts up to a
time, each at its `Rank` in the order of the set (`Before`, with some fixed order among
equal scores); `LastTies` is the loop that computes the offset to send back.

| action | code |
|---|---|
| `Refresh` | `queryBlogsOfFollow(true)`: the parameters are set at once, to the time of the *browser's* clock (`info.html:132-135`), which may be behind or ahead of the times of the posts (`Clocks`) |
| `NextPage` | `onScroll` at the bottom |
| `ReceivePage` | the `then`: the list is replaced or added to, and the parameters are those of the answer |
| `QueryFails` | the `catch` of line 149, for an error and for the two seconds of `common.js:5`: logged, and nothing else. The list stays, and the parameters are what `Refresh` made them |

Queries and answers are apart: `isReachBottom` does not keep the page from asking again, so
two can be under way and be answered, or fail, in either order. Two variables are history:
`overlapped` (two queries were under way at once) and `stale` (opening the list anew failed
while an older one was on show). Both last until a first page of the newest list arrives
with no other query under way (`StartsAfresh`).

## 4. Runs and bounds

`MCSeckill` gives the model values. The bounds are constants spent in the guards:
`MaxFaults` (calls failing without effect, also the rollback of a publication),
`MaxLostReplies` (reads and `tryLock`s that took effect and failed for the caller),
`MaxLateFaults` (calls failing after the sale or the commit, `unlock` or XACK
failing either way), `MaxCrashes`, `MaxPauses` (a JVM stall long enough for the
lease of a lock in use to lapse). Requests stand for request threads and are used
once; stock is one or two units, because the boundary cases are "the last unit" and
"none"; two users and two instances are the fewest that race, and two entries the
fewest that can be handled out of order.

| run | bounds | checks |
|---|---|---|
| `seckill_sale` | 2 users, 1 voucher, stock 1, 2 instances, 2 requests; one lost reply, late fault, crash and pause | `RedisLedger`, `AnswersStayTrue`, `IdsAreFresh`, `LockExclusion`, `ImplementsFlashSale` |
| `seckill_redelivery` | as above with stock 2; one fault, late fault and crash | `TypeOK`, `StreamMatchesPurchases`, `DbLedger`, `OneOrderPerUser`, `OrdersWereDelivered`, `BacklogCovered`, `StockMovesWithOrder`, `GivesUpOnlyOnContention` |
| `seckill_single` | one instance, no crash, one fault and one lost reply, fairness | `AckedHasOrder`, `AcceptedIsSettled`, `PendingListDrains` |
| `seckill_contention` (violation) | two instances, no failure at all | `AckedHasOrder` |
| `seckill_restart` (violation) | one instance, one crash, fairness | `AcceptedIsSettled` |
| `seckill_late_fault` (violation) | one instance, one late fault, fairness | `PendingListDrains` |
| `seckill_unserved_instance` (violation) | two instances, no failure, fairness | `AcceptedIsSettled` |
| `shop_cache` | 2 readers, 2 pool threads, all strategies, 2 versions, one recursive call, one failure or lapsed lease or crash, fairness | `TypeOK`, `OnlyCommittedIsServed`, `OneRebuildWithinLease`, `EntryNeverGoesBack`, `Converges` |
| `utilities` | sessions: 2 clients on one thread, and 1 client on two, 4 tokens, one failing call or late answer, one lapse; check-ins: 2 months of 3 days; ids: 2 callers, 1 prefix, counters 3 wide, days of 2 seconds, clock to 2, 3 draws a day, 2 ids; mutex: 3 threads | `TypeOK`, `RunsAsItsSession`, `HeldSessionsEnd`, `SentAwayWithoutSession`, `ClientsGetIn`, `StreakIsConsecutive`, `UniquePerPrefix`, `SortedByCreation`, `OneHolderWithinLease`, `EndsOnlyOwnHold` |
| `community` | likes: 2 users, 2 threads, 4 clicks, one failure; follows: 2 fans, 1 author, 2 threads, 3 requests, 2 rows a pair, one failure, one post of 1 publisher; scrolling: 3 posts, 3 times, a browser's clock at 1 or 3, 2 openings of the list, one failed query, 7 posts in the list and to come, at most one row for the reader | `TypeOK`, `CounterAgreesWithSet`, `LikeCanBeCancelled`, `TableAgreesWithSet`, `PublishedReachesFollowers`, `ShownInOrder`, `NothingSkipped`, `ScrollEnds` |
| `shop_cache_slow_rebuild` (violation) | the build in use, one lapsed lease | `ExactlyOneRebuilds` |
| `shop_cache_mutex` (violation) | 3 readers, the mutex build, no failure, no expiry | `OneThreadQueries` |

What the flash-sale runs show. Whatever fails, Redis never oversells, MySQL never writes an order
twice or without a unit, no user gets a second order, and MySQL never lacks a unit
for an accepted entry. This does **not** rest on the user lock: the duplicate check
of the script and the primary key carry it, and the runs keep these properties
while leases lapse and entries are handed to two instances. What can be lost is an
accepted order. With one instance and no crash, every accepted order reaches MySQL
before it is acknowledged. Beyond that:

* *contention*: one user buys two vouchers, two instances handle them at the same
  time; the second fails `tryLock`, returns normally and acknowledges: Redis counts
  a sale MySQL never sees;
* *restart*: an entry in hand at a crash stays pending until some later exception
  happens to start `handlePendingList`;
* *late fault*: once the answer to the commit is lost, the retry meets its own
  primary key for ever while stock is left, and blocks the thread;
* *unserved instance*: an instance takes orders before it has served a request, and
  its `proxy` is null until it does.

Deadlock is not checked: the requests of a run are finitely many, and an idle
consumer's polling is a stuttering step.

What the shop-cache runs show. In every build a reader gets a version that was
committed, although `update()` deletes the entry before it commits; and once the
rows rest, the entry of a shop that is read ends up equal to the row, or missing,
even if an old version was written back in between: it can only stay until it
expires. For the logical strategies, an entry never steps back to an older version
while rebuilds are shorter than the lease. Beyond the lease there are two rebuilds
(`shop_cache_slow_rebuild`), because the lock has neither owner nor renewal. The mutex
build loads twice without any failure (`shop_cache_mutex`): the reader that retried
deletes a lock it never had.

Two versions and one transaction are the fewest that make an old value; two readers
and two pool threads the fewest that race for the lock and for the entry; three readers
let one load, one give the lock away and one load again.

What `utilities` shows, and where the promise ends. *Sessions*: whatever a thread served
before, refused or failed, the next request does not run as somebody else - except after
an exception inside `preHandle`, which Spring does not clean up after. No client has a
token whose hash would stay for ever, although hash and lifetime are two calls. A page
sends its user to log in only if the session is gone or something failed. And a user who
goes on trying gets in, although the first login creates the row and then always ends
without a session: with an error, or with a token of a hash that was never written.
*Check-ins*: the streak is right across midnight and the end of a month, where it
restarts by design. *Ids*: unique within a prefix as long as no
day's counter outgrows its bits, however the clocks run; sorted as long as no clock goes
back. Not unique across prefixes: each prefix has its own counter and the prefix is not in
the id, so the nth ids of two prefixes in a day are equal if drawn in the same second,
although `RedisIdWorkerTest.java:131-134` expects none of them to be. *Mutex*: exclusive within
the lease; afterwards two threads may be inside, but neither ends the other's hold.

Why the bounds suffice: two clients on one thread reuse it in turn, one client on two
threads is the double click; four tokens leave one in each place a token can be
(session storage, two requests, an abandoned hash). A failure at each call and a late
answer each occur at every step, one per behaviour. Clocks and counts reach their bounds, so
deadlock is not checked. Three days are a first, an inner and a
last day of a month, two months one change. A field of 3 and 3 draws overflow it; days of
2 seconds and a clock to 2 contain a midnight; two ids are a pair to compare. Three
threads are one that overran, its successor, and a third that waits.

What `community` shows, and where the promise ends. *Likes*: requests of different users
never disturb each other's share of the count; two overlapping clicks of one user, or a
failure half way, do, and nothing repairs it. *Follows*: table and set part only
through an overlap or a failure on that pair, and one undisturbed request joins them,
duplicate rows included; a failure of an unfollow after its DELETE does leave the
author in the set, and a second unfollow finds no row and leaves it there, so it takes a
follow, or a follow and an unfollow, to put it right. *Feed*: a post published without
failure reaches everybody who followed throughout; a failing push leaves the fans that
are left without it for good. *Scrolling*: newest first and nothing
twice while posts keep arriving, as long as their times differ, queries of the tab do not
overlap, and the list is not one whose renewal failed. A query that fails does no harm when
it was for a next page: the same page is asked for again. When it was to open the list anew,
the parameters are those of the new list while the old one stays on show, so the next page
is the newest again, put at the end: posts come twice and out of order until opening
succeeds. Even then nothing is skipped, and the scroll ends. Nothing is skipped also when
posts have equal times, but then pages may repeat, for ever if more posts share a time than
the offset, counted in one page, can step over. What is not skipped is what was *asked for*:
a list starts at the time of the browser's clock plus one millisecond, so a browser that is
behind the servers is not shown the newest posts of its inbox, although the scroll ends. A
fan with two rows gets each post twice, the second push moves it to a later time, and a list
being scrolled may show it again. An overlap lasts until the list is opened anew with no
other query under way.

Why the bounds suffice: four clicks are like, cancel and a pair that overlaps; two users and
two threads are the fewest that interleave. Three follow requests are two that overlap
and one that puts right; two rows are the duplicate. Three posts are a page and one more,
three times let all of them differ, or tie within and across pages; two openings let an
answer to the first list come after the second was opened. One failed query can be the
opening, the next page, or the renewal of a list; a clock at 1 is behind times 3, and one
at 3 is not; a list of 7 is the whole old one with the whole new one after it, and one slot
more for the page that finds nothing (`NextPage` also counts the pages under way). While
follows change nobody scrolls, so times do not matter there (`TimesWhileFollowing`); a
scrolling reader has at most one row (`RowsWhileScrolling`), since with two the properties
promise nothing. Pairs of
fans and authors do not affect each other, and an inbox is the same whoever wrote the
posts, so one author is enough. Clicks, follows and posts are finitely many, so
deadlock is not checked here either.

Two disagreements were met and are not runs. `seckill.lua:31` says a stock that
"doesn't exist" returns 1, but comparing the nil of a missing key raises a script
error (`ScriptRaises`); the request fails and nothing is sold. And "Different prefixes
should not generate overlapping IDs" (`RedisIdWorkerTest.java:134`) is not what `nextId`
ensures, as said above; the application draws ids with one prefix only (`"order"`), so
nothing depends on it.

## 5. Fairness

`FairSpec` assumes weak fairness of: a started publication ending, a started request
running its calls, the operator creating the group and restarting a dead process,
a lease nobody renews lapsing, and each consumer thread in its *successful* steps
(`ConsumeFairly`): `run` and `handlePendingList` are endless loops on a
thread of their own, so an enabled step is taken in the end, and a call that can
be answered is answered in the end. Nothing makes a request arrive, a failure
happen, or a lease in use lapse. Failures are bounded by the constants above, which is why
liveness says "once failures stop".

`BusySpec` is a hot shop: its readers keep coming (weak fairness of `Read`, which
begins the next request when one is done), pool threads run, entries and leases reach
their end, and a transaction that has begun takes its next successful step. Without
readers nothing refreshes an entry, and the code promises nothing: `Converges` is
about entries somebody reads. Nothing makes writers write or calls fail.

`SessionFairness`: a server thread finishes the request it has (weak fairness of
`Serve`), the user presses the buttons (weak fairness of `SendCode`), and a session
nobody has any more runs out. `Send` has *strong* fairness: its guard is a free
thread, which comes and goes, and the servlet container queues a waiting request and
gives it a thread in turn. Failures and lapses are bounded, so `ClientsGetIn` says
that finitely many of them do not keep a user out.

`Community.Fairness`: the user scrolls on at the bottom of the list, and each query ends,
with its answer or, finitely often, by failing (the timeout ends the others, so none stays
under way for ever). Nothing makes posts arrive or anybody click or open the list anew.

## 6. Proofs

`SeckillProofs` holds TLAPS proofs for all values of the constants: any sets of
vouchers, requests, instances, any finite set of users, any stock in `Nat`, any
bounds on failures. The assumptions are those of the modules: `StockAssumption`,
`LimitAssumption`, `NilAssumption`, `FiniteAssumption`, `LockValues`.

| theorem | states |
|---|---|
| `TypeCorrect` | `Spec => []TypeOK` |
| `SaleCorrect` | `RedisLedger`, `StreamMatchesPurchases`, `IdsAreFresh` |
| `AnswersHold` | `AnswersStayTrue` |
| `OrdersCorrect` | `OrdersWereDelivered`, `DbLedger` |
| `NoSecondOrder` | `OneOrderPerUser` |
| `StockMoves` | `StockMovesWithOrder` |
| `NeverOutOfStock` | `BacklogCovered` |
| `UserLockExcludes` | `LockExclusion` |
| `GivesUpRightly` | `GivesUpOnlyOnContention` |
| `AckedOnOneInstance` | `AckedHasOrder`, assuming one instance and no crash |
| `Implementation` | `Spec => ImplementsFlashSale` |

The argument. `TypeOK` is inductive by itself; it includes that a handled or pending
position has been delivered. `SaleInv` is `RedisLedger`, `StreamMatchesPurchases`
and `IdsAreFresh` together: only `Sell` changes the ledger, and it keeps the
one-to-one match of buyers and entries because it tests the buyer set, and the
uniqueness of ids because a request in flight owns an id no entry has - which needs
`IdsAreFresh`, which needs `INCR`. `OrderInv` says that every row is a delivered
entry and MySQL adds up; `CommitOrder` keeps it because the primary key is new and
an id determines its entry (from `SaleInv`). `OneOrderPerUser` follows from both
without the lock. The refinement maps `purchased` to accepted and the rows to
fulfilled purchases: `Sell` is an abstract acceptance, `CommitOrder` an abstract
fulfilment that happens for the first time, and every other step leaves the mapped
variables alone.

`BacklogCovered` is arithmetic on the two ledgers: entries match purchases and rows
match delivered entries one to one (`SameSize`), so the stock of MySQL less the
accepted entries without a row *is* the stock of Redis (`BacklogIsRedisStock`), which
is never negative. `GivesUpOnlyOnContention` needs that fact - an order is not refused
for want of stock - and `HandledInv`: a thread that unlocks with no exception under way
has its row, or its voucher was rolled back. `LockInv` says that whoever is in the
section holds the lock until a process stalls past a lease. `AnswersStayTrue` is
inductive together with `SaleInv`. `AckedOnOneInstance` adds to its hypotheses what the
runs `seckill_contention` and `seckill_restart` show to be needed, and no more: calls may
fail and get lost, and leases may lapse; `SingleInv` says that with one thread no
lock is ever taken by another process.

`ShopCacheProofs` does the same for any sets of readers and pool threads, any set of
the builds and any bounds, under the assumptions of `ShopCache`
(`StrategiesAssumption`; the others are not needed).

| theorem | states |
|---|---|
| `TypeCorrect` | `Spec => []TypeOK` |
| `OnlyCommitted` | `OnlyCommittedIsServed` |
| `OneRebuild` | `OneRebuildWithinLease` |
| `NeverBack` | `EntryNeverGoesBack` |

The argument. `RowInv`: versions only go up, because a transaction works above the
row it updates and the insert only happens on a missing row. `ServedInv`: whoever is
about to cache or to answer with a version has a committed one, because a version is
only ever read from the row or from the entry. `PathInv`: readers of the logical
strategies never write the entry and never unlock. `RebuildInv`: while no lease has
lapsed under a rebuild, there is at most one task, it holds the lock from its creation
to its end, and what it is about to write is no older than the entry - which needs
`RowInv` and `ServedInv` for its load, and `PathInv` so that no one else writes in
between. `CacheInv`, all of them, is inductive.

The other components, again for any sets of clients, threads, fans, authors and so on,
and any bounds:

| module | theorem | states |
|---|---|---|
| `SessionProofs` | `NoForeignUser` | `RunsAsItsSession` |
| | `SessionsEnd` | `HeldSessionsEnd` |
| | `NobodySentAway` | `SentAwayWithoutSession` |
| `IdWorkerProofs` | `IdsAreUnique` | `UniquePerPrefix` |
| | `IdsAreSorted` | `SortedByCreation` |
| `UtilitiesProofs` | `MutexExcludes` | `OneHolderWithinLease` |
| | `UnlocksOwnHold` | `EndsOnlyOwnHold` |
| | `StreaksAreRight` | `StreakIsConsecutive` |
| | `UtilitiesTyped` | `TypeOK` of `Utilities` |
| | `PartsKeepPromises`, `PartsStepAsPromised` | all invariants and step properties of the run `utilities` |
| `LikeProofs` | `CounterAgrees` | `CounterAgreesWithSet` |
| | `LikesCanBeCancelled` | `LikeCanBeCancelled` |
| `FeedProofs` | `FollowsAgree` | `TableAgreesWithSet` |
| | `LoyalFansGetPosts` | `PublishedReachesFollowers` |
| `CommunityProofs` | `ScrollInOrder` | `ShownInOrder` |
| | `ScrollIsComplete` | `NothingSkipped` |
| | `CommunityKeepsPromises` | `TypeOK` of `Community` and the other invariants of the run `community` |

The assumptions are those the modules state about their constants: `SessionConstants`,
`SignConstants`, `IdConstants`, `NoCallIsNoReading`, `OwnerValues`, `LikeConstants` (finitely
many users), and those of `Follows`, `Feed` and `Scroll`. The proofs about a part are about
its own actions and invariant; `UtilitiesProofs` and `CommunityProofs` join them to theorems
about the very specifications that the runs check.

* *Sessions.* `SessionInv` says that a token some client or request has is nobody else's
  (`TokensOwned`), that only an existing hash lacks a lifetime (`LastingExists`), so that a
  token just drawn is not among those, and that a thread has a request exactly while it
  is busy. `RunsAsItsSession` then follows: a lookup by a token finds its owner or
  nobody. `NobodySentAway` adds `PageInv`: a request that is still heard belongs to the
  page its client is on, a page for users has a token and asks with it, and a request
  about to renew a session has a user; so the one answer that sends it away without a
  failure is a lookup that found no hash. `LoginInv` joins both with the rest of the types.
* *Check-ins.* `BitsAreSigned`: a bit is set exactly if its day was checked in, because a day
  is told by month and offset (`DayInMonth`, `OneDay`). BITFIELD up to a day then has
  position i set exactly if the day i days before it, within the month, was
  (`FieldCountsBack`), and the loop answers the lowest position without a one
  (`TrailingOnesCounts`). That the loop ends, and with this number, is induction; the
  library's induction theorems are out of the provers' reach, but `LeastNatural` is not: a
  least number for which it went wrong would follow a smaller one.
* *Ids.* `IdInv`: counts are bounded by the counter of their day (`CountsDrawn`) and grow
  with it (`CountsGrow`). Two ids with one second are told apart by the count, two with
  different seconds by the field (`ComposeOrders`). While no clock goes back, a call's
  second is no earlier than that of any id handed out before it began (`SecondsGrow`).
* *Mutex.* `OneHolderWithinLease` with the type is inductive.
* *Likes.* A request that is its user's only one fixes the relation of share and set by
  the call it is at; everybody else's are left alone. While nobody was unlucky, every
  share is zero or one and the count is the number of users whose share is one
  (`CounterIsSharers`), so it is positive for whoever takes a like back.
* *Follows.* The same for a pair at rest, a pair whose request has written the row and
  not the set, and a request that has its pair to itself.
* *Feed.* A loyal fan of a post that is not broken has it, or is still on the list of the
  thread that pushes it, or that thread has not read the table, in which the fan has a row.
* *Scrolling.* A page holds the posts of successive ranks (`PageRanks`), and its last
  post, with the offset it sends back, is just before the next one (`PageAdvances`). Hence
  `ScrollInv`: while no two queries overlap, the parameters stand just behind the list on
  show (`Continues`): its last post has their time and the offset steps over it, or, after an
  opening that found nothing, a later time; the answer under way fits them (`AnswerFits`); the list and the answer are
  sorted unless the list is stale (`ListFits`); and every post of the opening is shown or
  not yet passed (`Covers`, `NotPast`), stale or not: after a failed renewal the parameters
  are again before every post asked for. A failing query takes an answer away and leaves all
  of this alone (`FailureKeeps`). An arrival, whatever its time, can only raise the rank of
  what is there, and so takes nothing out of the pages to come (`ArrivalsKeep`). That it
  moves nothing from one time to another needs `PushedOnce`: with one row per pair a post is
  pushed to the reader once. No clock is compared with another anywhere.

Every invariant and every step property of the passing runs is a theorem. Only
model-checked are the liveness properties, which are beyond the prover:
`AcceptedIsSettled`, `PendingListDrains`, `Converges`, `ClientsGetIn` and `ScrollEnds`.

## 7. Left out of the models

* how an id is packed in the flash sale: there it is the counter, and `IdWorker` has
  the packing. The order page shows ids as JavaScript numbers, which are exact only to
  2^53 (`shop-detail.html:226`); nothing is done with them but shown;
* `logout`, which is a TODO of the controller;
* `formatPrice`, `getUrlParam` and `paramsSerializer` of `common.js` and the tab bar of
  `footer.js`: formatting and navigation without state;
* `vue.js`, `element.js` and axios, third-party code kept in the tree; the pages that use
  them are modelled by what their own scripts do;
* Redis losing its latest writes in a restart (it runs with snapshots, without an
  append-only file) and MySQL failover: both stores are taken as durable;
* the sale window (`beginTime`, `endTime`): the code never tests it;
* more than one shop: shops share only the threads of the pool, whose queue is
  unbounded, so a task waits but is not refused;
* the contents of a row, JSON, and the geo search;
* the wording of answers, and logging;
* the commented-out earlier versions of the service.

`PROJECT.json` gives, for every component that is not modelled, the reason.

## 8. Running

    tlc -workers 2 -config SeckillSale.cfg MCSeckill
    tlc -workers 2 -config ShopCache.cfg MCShopCache
    tlc -workers 2 -config Utilities.cfg MCUtilities
    tlc -workers 2 -config Community.cfg MCCommunity
    tlapm SeckillProofs.tla
    tlapm ShopCacheProofs.tla
    tlapm SessionProofs.tla
    tlapm IdWorkerProofs.tla
    tlapm UtilitiesProofs.tla
    tlapm LikeProofs.tla
    tlapm FeedProofs.tla
    tlapm CommunityProofs.tla

`community` takes about three minutes, `seckill_redelivery`, `seckill_single`, `shop_cache` and
`utilities` about one each, the others less.
