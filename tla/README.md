# A verification project for Markdown Ninja

TLA+ models of [Markdown Ninja](https://markdown.ninja), the publishing platform
in this repository: websites and blogs, newsletters, contacts, a store, and the
billing of the organizations that own the websites.  It is a Go server, run as
several identical processes over one PostgreSQL database, with a job queue in
the same database and Stripe, an email provider and a blob storage outside.

The paths below are relative to the repository's `src/`.

## 1. Inventory

Almost no state lives in a process: it is in the database.  What makes the code
hard is therefore what happens *between* the statements of concurrent requests,
webhooks, jobs and scheduled tasks, mostly without locks, and what a failure in
the middle leaves behind.

| Component | State | Operations | What is hard | What makes it correct |
|---|---|---|---|---|
| Store: orders, products, access (`pkg/services/store`) | `orders`, `order_line_items`, `products`, `contact_product_access` | PlaceOrder, completeOrder (from three kinds of webhook and the API), CancelOrder, give and remove access, update and delete products | late, repeated and reordered webhooks; a call to Stripe inside a transaction; several handlers of one order; payments that settle later; canceled orders that are paid; the push of a job after the commit | who pays gets what was ordered, and nobody else; an order is completed once; a completed order is final; whoever pays is served in the end |
| Store: refunds, coupons | `refunds`, `coupons` | CreateRefund, a job that creates it at Stripe, a sync every minute | retries without an idempotency key; an inverted guard | one refund for an order; refunds end as Stripe has them |
| Emails (`pkg/services/emails`) | `newsletters`, `website_configurations` | create, edit, test, send, delete a newsletter; a task every minute; jobs that make the emails | whole rows written back from stale copies; push before write; retries in the middle of a mailing; posts sent as newsletters | a newsletter marked as sent was sent; all recipients or none (but see section 10); once; at the rate limit |
| Contacts and sessions (`pkg/services/contacts`, `pkg/services/site`) | `contacts`, `sessions` | subscribe, log in, complete with a code, log out, block, delete, update | counts of attempts; a block that races with a login; stale contacts written back | no more attempts than allowed; a blocked contact doesn't get in |
| Organizations (`pkg/services/organizations`) | `organizations`, `staffs`, `staff_invitations`, `api_keys` | staff, plans and subscriptions, webhooks, monthly invoices | checks before writes without a lock; webhooks in any order; invoices retried | one administrator at least; the plan is that of Stripe; usage is invoiced once |
| Content (`pkg/services/content`) | `pages`, `tags`, `assets`, `snippets` | create, update, publish and delete pages, upload and delete assets | rows and blobs; folders and their children; scheduled publication | no row without its blob; a scheduled page is published and sent once |
| Websites (`pkg/services/websites`) | `websites`, `domains`, `redirects` | domains, primary domain, redirects | stale website rows; lists that replace lists of rows | the primary domain is one of the website's; the redirects are those saved last, which the code doesn't give for their destinations |
| Events (`pkg/services/events`) | a buffer in memory, `events`, the salt of anonymous IDs | push, flush, save | a full buffer, failed saves, shutdown | what fits is saved |
| JWT (`pkg/jwt`) | `jwt_keys`, keys cached by each server | sign, verify, rotate every day | caches of several servers | a token that is valid verifies everywhere |
| Scheduler (`pkg/scheduler`) | a PostgreSQL advisory lock | become leader, run tasks | a lost connection | one leader |
| Queue and workers (`pkg/worker`, a library) | `queue` | push, run, retry | at-least-once | jobs stand being run again |
| Rate limiter (`pkg/ratelimit`) | counters in memory | IsAllowed, a cleanup every minute | the clock is read before the mutex is taken: windows that are over are still counted in, and deleted | no window lets more through than allowed |
| Command line client (`cmd/mdninja`) | local files, the website | publish | partial failure | the website is as the files |
| Others | | certificates, kernel, mailer, Markdown, web application, ebooks, clients | | |

How they interact.  The server (`pkg/server`) decodes requests and webhooks and
calls a service; services call each other directly, in the same transaction when
they are handed one.  Work for later is pushed to the queue, in the transaction
or beside it.  The scheduler runs tasks on one server, which push jobs or do the
work.  An order is completed by `completeOrder`, called by the webhooks for
checkout sessions and invoices and by the website; it writes the contact
(contacts), the order and the access rows (store), then pushes a job (queue) and
counts the sale (events).  A page published by `JobPublishPages` (content) is
sent by `JobSendPostAsNewsletter` (emails), and the emails go to the verified
and subscribed contacts (contacts).

`PROJECT.json` lists the components with their sources and the hazards, each at
the line where it bites, with the properties that cover it.

## 2. Plan

What is written, and checked:

| Part | Modules | Composed and instantiated in | Proved in |
|---|---|---|---|
| Store: money changes hands here | `StoreOrders`, which implements `Purchase` | `MCStoreOrders` | `StoreOrders_proofs` |
| Newsletters | `Newsletters` | `MCNewsletters` | `Newsletters_proofs` |
| Billing of organizations | `Billing` | `MCBilling` | `Billing_proofs` |
| What a site is made of | `Pages`, `Assets`, `Websites`, `Redirects`, `Client`; `SavedRedirects`, which two of them extend | `MCSite` | `Redirects_proofs`, and `Site_proofs` for the others |
| People: visitors, staff, and what they send emails from | `Contacts`, `RateLimiter`, `Organizations`, `EmailDomains` | `MCPeople` | `Organizations_proofs`, and `People_proofs` for the others |
| The platform under them | `Servers`, `EventsBuffer`, `Serving`, `Downloads`, `Catalogue` | `MCPlatform` | `Platform_proofs` |

Each module has been written to be proved about as well: no recursion,
constants with assumptions, one action for each operation.  Section 9 says what
has no proof.

### How the proofs go

Almost every property is about code that reads a row without a lock and writes
it later, so that most proofs have one argument.  The inductive invariant says of
every request in flight what it has read, and that it is still so, *unless the request is
marked*; whatever changes what a request may have read must be shown to mark it
(`stale`, `touched` and the like are written by the actions that change the row), and a
marked request that writes must be shown to name what it spoils among the
exceptions of the property.  The proof is therefore a check that the exceptions are
complete: with any number of requests, no other interleaving breaks the property.
Where the code does lock, the lock takes the place of the mark
(`StoreOrders`, `Billing`).

### One run, several instances

Most runs check several small instances one after the other rather than one that has
everything at once.  A variable `instance` is chosen by the initial
state and never changes; a constraint on the next states (`Within`,
`PagesWithin`, ...) says what may happen in an instance, for instance that the
second request stays idle.  Each instance is a full sub-behaviour of the
specification, with all its states; what is left out of one is in another, and the
tables below say why it can be.  Components that share no state (a page and an asset)
are checked in one run in the same way: the others stay as they were.

Systems with bounds come to rest when the bound is reached: all the
identities have been used, the clock is at its end.  That is why the runs `site`, `people`,
`platform` and `orders` don't check for deadlocks; in `billing` and
`newsletters` time goes on and they do.

### Variables that only record

Where the code loses a race, the properties have to say which one, or they would be false.  The
models have for this variables that record what has happened and that no
action reads as a guard: `stale`, `raced`, `overwritten`, `disturbed`,
`overlapped`, `crossed`, `mixed`, `misplaced` (a request wrote back what another had
changed since), `lost`, `torn`, `halved`, `broken` (a failure came between two
steps), and others which their declarations explain.  A property then says that
all is well *but for those*: an exception is a statement about the code, as narrow as TLC
let it be, and each is named in the comment of the property.

## 3. StoreOrders

### The code and the model

One action of the model is one database transaction, or the part of one between
two points where something else can happen.  `completeOrder` is a process (a
*handler*) of several steps, the others are single actions.

| Model | Code |
|---|---|
| `OpenSession`, `InsertOrder`, `AbandonOrder` | `place_order.go`: the Stripe session, then the order's row; or a failure in between |
| `Checkout`, `Settle`, `Expire`, `MakeInvoice` | Stripe and the customer.  A payment succeeds at once or settles later, or nothing was due; a session expires; the invoice is made some time after the payment |
| `Deliver`, `CompleteOrder` | `handle_stripe_event.go` and the API: both run `completeOrder`, whose first step locks the order's row |
| `Fetch` | `complete_order.go:73-90`: the session and its payment are read from Stripe |
| `SaveInvoice`, `CancelUnpaid`, `Ignore` | the early returns, lines 92-191 |
| `Write`, `Commit`, `Return` | lines 193-316: the contact and the order are written and the access rows looked up; the rows are inserted and the transaction committed; the sale is counted and success answered |
| `Conflict`, `Fail` | a unique violation, which aborts the transaction; any other failure, or the death of the server |
| `PushConfirmation`, `LosePush`, `RunConfirmation` | the goroutine after the commit and `job_send_order_confirmation_email.go` |
| `CancelOrder`, `GiveContactsAccessToProduct`, `RemoveAccessToProduct`, `UpdateProduct`, `CheckProduct`, `DeleteProduct` | the operations of those names; DeleteProduct checks before its transaction, and the foreign key of the line items protects what was ordered since |

The row lock (`SELECT ... FOR UPDATE`) is the guard `RowLocked`, the lock of the
contact's row after its update `ContactLocked`.  `granted`, `revoked`, `emitted`,
`acked` and `sales` record what happened; no action of the program reads them.

### The promise: Purchase

`Purchase` says what merchants and customers rely on, without Stripe, events,
handlers or locks: an order that is paid can be fulfilled, once, which gives
access to all of its items in one step; the staff grants and takes away; access
exists for no other reason.  `Implements` in `StoreOrders` is its specification
with `paid` and `fulfilled` mapped to the payments that succeeded and the rows
that are completed.

### What the runs show

| Run | Instance | Shows |
|---|---|---|
| `orders`, "two handlers" | 1 order, 2 handlers of its events that race and fail | access is earned, completed orders are delivered, completed once, confirmed only when completed, completion is final; the refinement of Purchase; who pays gets the order completed and its invoice saved, and an expired session cancels its order |
| `orders`, "one handler" | 1 order, 1 handler, the staff, the deletion of products, the confirmation job | the same, with all that happens around a handler |
| `orders_conflict` | as `orders`, all at once | a disagreement: see below |

The bounds.  An order has at most one payment, one invoice and three kinds of
events, so that its state is finite without a bound; two handlers are enough for
one to come between any two steps of another, and events can be delivered for
ever.  That orders of one contact that contend for its row and for one
access row are not mixed up is shown, for any number of them, by the proofs.

The liveness properties assume that a server runs what it started (weak fairness of
`Advance`), that Stripe sends an event again until it is acknowledged
(`Deliveries`; it does for three days), that it makes the invoices, and strong fairness of the steps that
may fail: what is tried again and again works in the end.  This is
what the code counts on when it answers an error to a webhook.  Nothing is
assumed about customers, the staff, or the confirmation job, which can be lost.

Findings.  `orders_conflict`: a comment in `completeOrder` (line 275) says that
nothing has to be done when the access row exists already; but the statement that
failed has aborted the transaction, the commit fails, and the order is not
completed until Stripe sends an event again.

### What is proved

`StoreOrders_proofs`, for any number of orders, contacts, products and handlers,
and from `StoreAssumption` only (each order has a buyer and some items):

- `Invariance`: `Inductive` is an invariant.  The properties alone are not
  inductive.  What is needed is that the lock makes what a handler has read of
  its row remain true (`LockIsHeld`), that a payment that was seen to succeed has
  succeeded (`PaymentsAreSeen`: unlike the other answers of Stripe, this one can't become
  false), and that a handler about to commit has accounted for all that was
  bought, either found or to be inserted or taken away since
  (`WritesAreComplete`).
- `TypeCorrectness`, `AccessEarned`, `CompletedDelivered`,
  `CompletedAtMostOnce`: the invariants of the run, from it.
- `ConfirmedAfterCommit`: an order that is confirmed to its buyer is completed.  The
  invariant is of the queue: a confirmation that waits was pushed for a completed order, and
  completion is final.
- `CompletionFinal`: the action property, from it.
- `Refinement`: `Spec` implements `Purchase`.

Liveness is only model-checked.

## 4. Newsletters

### The code and the model

A newsletter is a row that nobody locks: everyone reads it whole and writes it
back whole.  Requests of the staff, runs of the scheduler's task and workers are
processes with a copy of the row.

| Model | Code |
|---|---|
| `CreateNewsletter`, `DeleteNewsletter` | the operations of those names |
| `EditNewsletter`, `SendNewsletter`, `TestNewsletter`, then `Push` and `Save` | `update_newsletter.go`, `send_newsletter.go`: read and check; push the job; write the row |
| `StartTask`, `TakeDue`, then `Push` and `Save` | `task_send_scheduled_newsletters.go` |
| `PublishPost`, `StartPost`, then `Push` | `job_send_post_as_newsletter.go`: the row is made as already sent |
| `StartJob`, `DropJob`, `Mark`, `LoadRecipients`, `PushChunk`, `Commit`, `Finish` | `job_send_newsletter.go` |
| `ConfigureDomain`, `Subscribe`, `Unsubscribe`, `Tick` | what changes around: the email domain, the contacts, time |
| `FailRequest`, `FailTask`, `RetryJob`, `GiveUpJob` | failures at any step; a task goes on with the next newsletter unless its server died; the queue runs a job again, or gives it up |

### What the runs show

| Run | Instance | Shows |
|---|---|---|
| `newsletters`, "staff" | 1 newsletter, 1 request, the task, 1 worker | nobody's stale row marks a newsletter as sent whose job was not pushed; no draft goes out |
| `newsletters`, "mailing" | 2 recipients who come and go, chunks of 1, a job run again | a mailing is all or nothing |
| `newsletters`, "healthy" | a domain that stays verified, jobs that are not given up | a newsletter that is due is mailed, unless it is deleted or scheduled otherwise |
| `newsletters_twice`, `newsletters_paced` | everything | disagreements: see below |

The bounds: one job for a newsletter waits in the queue at a time (`MaxJobs`), which
delays a push but forbids none; emails are counted up to `MaxMailings`.  A request,
the task and the worker are three writers of one row, of which any may come between the
read and the write of another.  Nothing couples two newsletters
except the order in which the task takes them.

Fairness: the task runs every minute and the workers take jobs; strong fairness
for the steps that may fail.  The instance leaves out jobs that the queue gives up and
an unverified domain, after which a newsletter is really not mailed.

Findings.  `newsletters_twice`: a newsletter marked as sent can be sent again,
since nothing is locked between the check and the update, and an edit can even
clear the mark.  `newsletters_paced`: the email jobs of a chunk are all scheduled for the same second,
because they hold a pointer to one variable.

### What is proved

`Newsletters_proofs`, for any sets of newsletters, contacts and processes, any
chunk size and any bounds, from `NewslettersAssumption` only (the three kinds of
processes are different, the contacts are finitely many):

- `NewsletterInvariance`: `Inductive` is an invariant.  A property of the rows
  alone can't be inductive when everyone writes rows from copies: it takes
  `ProcessesAreJustified`, which says the same of every copy that is going to be
  written and of every job that is running, beside `RowsAreJustified`.
- `NewsletterTypes`, `MarkingIsSafe`, `MailingIsAsked`: the invariants of the run
  `newsletters` but one, from it.
- `MailingWhole`: `MailingIsWhole`, from `WholeInv`.  The transaction of a job is empty until the
  recipients have been read; from then on it holds one email for each contact that was
  subscribed all along and isn't still to do, and none for the others that are to do, so that what
  is committed is one for each, whatever attempts failed before and however the recipients fall into chunks.

The liveness property is only model-checked.

## 5. Billing

### The code and the model

The row of an organization is written by three kinds of processes, each from
the copy it has read.  Requests and synchronisations hold the lock of the row
from the read to the write, with calls to Stripe in between.  The monthly job
does not, although it looks like it: it opens a transaction but reads and writes
the row with another connection.

| Model | Code |
|---|---|
| `CancelSubscription`, `InvoiceCancellation`, `PayInvoice`, `CancelAtStripe`, `Commit` | `update_subscription.go:52-135`, to the free plan: lock and check; invoice the usage; pay; cancel at Stripe; write the row |
| `ChangeSubscription`, then `CreateSubscription`, `CreateCheckout` or `UpdateAtStripe`, then `Commit` | the rest of it: a new subscription with the card that is known, a checkout session, or new items of the subscription |
| `SyncStripe`, `HandleStripeEvent`, `FinishSync` | `sync_stripe.go` and the handlers of `handle_stripe_event.go`, which all end there.  `Synced` is its loop over the subscriptions, in any order: the one listed last wins |
| `DispatchInvoice`, `StartInvoice`, `InvoiceUsage`, `WriteUsage` | `job_dispatch_invoice_monthly_usage.go`, `job_invoice_monthly_usage.go`: read and mark; make the item and the invoice; write the row |
| `GivePlan` | `update_organization.go`, its plan and slots, for administrators |
| `PayCheckout`, `Renew`, `ChangeCard`, `Tick` | customers, Stripe, and time |
| `Fail`, `FailJob` | failures at any step; Stripe sends an event again, the queue runs a job again or gives it up |

The calls between two steps of the model are calls to Stripe, which other
processes see at once, while the row is seen at the commit.  An item is made
once for an idempotency key; Stripe refuses the key with other parameters and
forgets it after a day.  Months have `MonthLength` instants and usage is
a period of instants.  The date of the subscription is not modelled: no statement of
the repository stores it (`repository/organizations.go` has no such column in its
INSERT and UPDATE), so that the branch of `invoiceForUsageData` that reads it
is never taken.  `disturbed` records that the row was given away, or overwritten
by the stale copy of a job, since it was last synchronised; no action reads it.

### What the runs show

| Run | Instance | Shows |
|---|---|---|
| `billing`, "worker" | 1 request, 1 synchronisation, 1 worker, 1 job, 1 new month | the row is what Stripe has or an event is on its way, with every failure and in any order; no period of usage is backwards |
| `billing`, "two subscriptions" | the same without failures, 2 subscriptions | a second subscription is only made when the first has not been heard of |
| `billing`, "webhooks" | 1 request, 2 synchronisations, gifts, slots | in all of them: the organization gets the subscription it paid for, and loses the one that ended |
| `billing_once` | as `billing`, without failures | a disagreement: see below |

The bounds.  One request and one synchronisation exclude each other by the lock,
so that more of them only wait; the worker is the one that comes in between.  Two
subscriptions are the least for a second one.  The events of Stripe have one
effect, a whole synchronisation, so that those that wait are one Boolean, `news`.
Time goes through a new month, the run of the job on its second day, and what comes after.

What the properties do *not* say is what the code does not give.
`RowFollowsStripe` has the exception `disturbed`: after a gift, or after a job has
written a stale row, the row may differ from Stripe until the next event or sync,
which may never come.  `SecondIsUnseen` forbids a second subscription only
to who could know of the first: while its webhook is on its way, the organization has no
subscription in its row and a repeated request makes another one, as it does from
a second checkout session.  And the extra slots are in the row before the
checkout is paid.

Fairness: a request that was started ends (`WF` of its step or its failure);
Stripe sends an event again until it is acknowledged, and what is tried again and
again works in the end (`SF` of `HandleStripeEvent` and `FinishSync`).

Finding.  `billing_once`: the usage of a month is invoiced twice, by a cancellation and by
the monthly job that had read the row before it, without any failure.  The job then also
writes the canceled subscription back into the row.

### What is proved

`Billing_proofs`, for any sets of processes, subscriptions, jobs and slots, any
length of a month and any bound on time, from `BillingAssumption` only (the sets
are disjoint, 0 is a number of slots):

- `BillingInvariance`: `Inductive` is an invariant.  That the row follows Stripe
  isn't inductive: it takes that requests and synchronisations hold the lock
  (`LockIsHeld`, `PlacesAreOwn`), so that what they are about to write is still right or an
  event is on its way (`CopiesFollowStripe`).  That periods are forward takes that no row and
  no copy was invoiced into the current month (`MarksArePast`), for which a
  cancellation has to reset the date.
- `BillingTypes`, `RowFollows`, `PeriodsForward`: the invariants of the run, from it.
- `SecondUnseen`: the action property, from it.

The liveness property is only model-checked.

Not modelled: the deletion of organizations (which checks and deletes), the
address and the tax number that are copied to and from Stripe, the enterprise
plan, that nobody can buy, and the limits of a plan, which only refuse a request.

## 6. What a site is made of: the run `site`

`MCSite` composes five modules, which share no variable.  A property that the run
checks is about all of its instances, so that `SiteTypeOK` and `VisitorsArrive` are
conjunctions over components.

### Pages

| Model | Code (`pkg/services/content/service`) |
|---|---|
| `CreatePage`, `UpdatePage`, then `Commit` | `create_page.go`, `update_page.go`: read and decide, with the differences of the tags; then the transaction, whose tags are `AssociateTagsToPage` (`tags_utils.go`) |
| `PushNewsletter`, `LoseNewsletter`, `Die` | the push of JobSendPostAsNewsletter, after the transaction of a request or of the job |
| `DeletePage`, `CreateTag`, `DeleteTag` | the operations of those names |
| `DateComes`, `TaskPublishPages`, `JobPublishPages` | a date; the task and the job |
| `FailEdit` | a failure before the commit |

`PostsAreSent`: a published post that is to be sent goes to the subscribers, and
once.  The exceptions are the push that fails after the commit (`lost`), the post
that is created at the very second of its date (`missed`: it is neither before now nor
after), and the mark that a stale edit overwrites (`stale`).  `TagsAreAsked`: a
page has the tags of its last edit, but for those that the edit itself has made:
they get no row in `pages_tags` (`introduced`).  `DueIsPublished`: what is
scheduled is published, or edited, once its date comes.  It assumes `PagesFairness`: the task runs
each minute, a worker takes the job in the end although others die with it, and
goes on to push.

### Assets

| Model | Code (`pkg/services/content/service`) |
|---|---|
| `StartUpload`, `FindFolder`, `CreateFolder`, `CheckPath`, `PutObject`, `InsertAsset` | `upload_asset.go`, `create_asset_folder.go`, `find_or_create_folder.go`: the folders above, the check of the path, the blob, the row |
| `StartDelete`, `DeleteAsset` | `delete_asset.go`: the rows, with all below a folder, and the jobs in one transaction |
| `JobDeleteAssetData`, `DeleteWebsiteAssets`, `JobDeleteAssetsDataWithPrefix` | the jobs, and the deletion of the website |
| `GiveUpBlob`, `GiveUpPrefix`, failures | jobs the queue gives up, requests that end half way |

`BlobsFollowRows`: a row has its blob, what is stored without a row is going to be
deleted, and everything is in a folder, except for uploads that end between the
blob and the row (`abandoned`), jobs that are given up (`kept`), and what is made in a
folder while that is deleted (`uprooted`).

### Websites and Redirects

| Model | Code |
|---|---|
| `CreateWebsite`, `DeleteWebsite`; `UpdateWebsite`, `AddDomain`, `RemoveDomain`, `SetDomainAsPrimary`, `SetSubdomainAsPrimary`, `SaveRedirects`, `UpdateWebsiteIcon`, then their `Commit...` | `pkg/services/websites/service`: the row is read without a lock, and all of it written back |
| `CheckTlsCertificateForDomain` | the job that asks whether a domain has its certificate |
| `FindWebsiteByDomain`, `ServeContent` | `find_website_by_domain.go` and `site/service/serve_content.go`: what a visitor of a host gets, or where he is led |
| `MatchVariable`, `MatchSplat`, `MatchSymbol`, `MatchEnd` | `redirects_utils.go`, `matchRedirectAndReplace`: an action for each case of its loop |

`SavedRedirects` says what a list of redirects is, a destination for each of its patterns, and
what a website has after a list is saved (`Saved`).  `diffRedirects` compares patterns only
(`redirects_utils.go:46-56`), and `SaveRedirects` makes and deletes rows but updates none
(`save_redirects.go:63-108`): a redirect that stays leads where it led, wherever the new
list has it lead.  `CommitRedirects` does this to the rows; `wanted` and `original` record, for each website, the list
that was saved last, and where each of its patterns was to lead when its row was made.

`VisitorsAreLed`: at any of its hosts a website is reached after one redirection at most, and
it has the *patterns* that were saved last, one row for each, which leads where it was to lead when it was
new (`original`, not `wanted`); except those of which two
requests overlapped (`disturbed`).  That it leads where the last list has it lead is
`RedirectsAreUpdated`, which no configuration has, since it is false: see below.  `RedirectsAreMeant`: the loop gives what
a pattern means, segment by segment, which is defined without a loop in
`IsMeant` and `Meaning`.  The run asks it for every path and every pattern with up to three
segments made of three words, one of which begins another, two variables and "*": 16,120 pairs.
Facts the code has and the property states: a variable at the end matches no empty segment, and
a pattern isn't checked when it is saved (`validators.go:127`, a TODO), so that patterns
which mean nothing are possible; the model takes those the tests have.

### Client

`StartPublish` ... `Exit_` are the steps of `mdninja publish`
(`cmd/mdninja/client`), one per call to the API; `Answers` are those of a call: "ok",
"failed" without effect, or "lost" with effect.  `ChangeDisk`,
`CreateOrUpdate`, `Delete` and `ChangeSetting` are what others do meanwhile.

`SiteIsPublished`: what is on the disk is on the website, kind after kind, and a
file that is missed is missed for a reason.  Of the redirects in the configuration the website has
the patterns and no others, but only those that it didn't have lead where the configuration says; the others
lead where they did (`RedirectsAreSent`).  What the code doesn't do is in the property as
well: a change of the draft alone isn't sent, since no hash covers it
(`pages.go:78`); the type of a page that exists never changes; a changed asset is deleted before it is
uploaded again (`assets.go:66`), and is gone when that fails; no call is tried
again; an error of an asset doesn't stop the others, one of a snippet or a page does; the
command ends with 0 all the same (`publish_website.go:71`); of a
website with more pages than a list gives, those that aren't listed can't be updated.
Files that are too large are left out with a warning in the log (`assets.go:219`, `pages.go:167`,
`snippets.go:129`) while the command goes on; they are not on the disk of the model, and what
the property says is of the files that are small enough.

### What the code doesn't give

A list that has another destination for a pattern the website has changes nothing, although
the call succeeds, the web application lets the destination of a redirect be
edited (`webapp/src/ui/components/websites/redirects_list.vue:28`) and `mdninja` logs "Redirects successfully
updated" (`cmd/mdninja/client/publish_website.go:67`).  Only a list without the pattern, and then another
with it, changes where it leads.  With `RedirectsAreUpdated` among the invariants of `MCSite.cfg`, TLC shows it in
a few steps: a redirect is saved, then its pattern with another destination, and the row keeps the first.

### What is proved

`Site_proofs`, for any sets of pages, tags, editors, publishers, assets, folders, uploads, deletions,
websites, names, redirects and staff, and whatever is on the disk:

- `PagesInvariance`: `PagesInv` is an invariant.  A post that is marked as sent was
  handed on, for good: its job is pushed, is about to be, or is lost (`SentIsHanded`); an edit
  marks what it is going to send or what was sent when it read the row (`EditIsSound`); a
  post whose mark was never overwritten was handed on once if it is marked, and else
  not at all (`MarkIsKept`).  For the tags: the
  differences that an edit computed still lead from the page's tags to those it asked
  for (`DiffIsSound`), unless another request changed the page's tags since (`raced`).
- `PostsSent`, `TagsAsked`, `PagesTypes`: the invariants of the run, from it.
- `FilesHaveData`, `AssetsTypes`: `BlobsFollowRows`, from `AssetsInv`.  The asset of an upload in
  flight is its own: not a row, not to be deleted, of no other request
  (`RequestsAreApart`); its blob is there when the row is inserted, because only the
  deletion of the website could have taken it.

- `SitePublished`: `SiteIsPublished`, from `ClientInv`.  It follows the command from one list to the
  next: a file that is still to be sent and that nobody touched is as it was read from the disk, and on the
  website exactly if the list had it, until the command deletes it; one that was sent and that nobody
  touched is there.  `OthersKeep` is the frame: whatever others change on the disk or the website is
  in `touched`, and so are redirects that another saves: unless somebody does, those the website had at the start
  are there when the configuration's are saved.  A page that isn't in the list is on the website only because the list has
  a limit (`LimitIsReached`, by counting).
- `VisitorsLed`: `VisitorsAreLed`, from `WebsitesInv`.  Slugs and hosts are unique among what is there,
  a primary domain is the website's own, the patterns are those saved last and each leads where it was to lead
  when its row was made (`Saved` keeps this of those that stay), and a request in flight
  holds what was asked of it and the row as it is, unless it is in `outdated` or `disturbed`:
  every commit is shown to put there the requests whose row it changes.

- `VisitorsArriving`: `VisitorsArrive`, which is that and `RedirectsAreMeant`; `SiteTypes`:
  `SiteTypeOK`, the types of all five.  Both are of every behavior of the run, which is one of each module
  (`EachOfSite`).

`Redirects_proofs`, for any words, variables and number of segments: `RedirectsMeant`, that whatever the loop of
`matchRedirectAndReplace` returns is what the pattern means.  The invariant of the loop is that it is between two
segments, all of which fitted so far (`Between`), or within one, of which a common beginning is compared
(`Within`); what is left of the two texts is what is left of that segment and the slashes and segments that follow.
Every case of the loop leads from one to the other, or returns, and what it returns is then decided:
nothing fits that a symbol refutes, since words have neither slashes nor stars nor variables in them.
All of it rests on what a text is: `Text` joins the segments, `Replace` joins what the symbols become, and the
library defines joining by recursion (`FlattenSeq`).  What is known of it is by induction on the
length of what is joined; the library's induction takes a predicate that the provers can't
instantiate, so that `Induction` states it of a set of numbers, from the least element of what such a set leaves out.

`RedirectsAssumption` says that words are made of letters, that letters, names of variables and the marks `/`,
`*` and `:splat` are all different, and that the variables are finitely many, since the destination shows each of them.
`ClientAssumption` says that the three kinds of files don't overlap, that a directory has finitely many pages, and
that what stands for "none" is no text; `WebsitesAssumption` that a slug is no hostname and that there are
finitely many rows of redirects.  `PagesAssumption` has `MaxPosted > 1`, which bounds how far the model counts: one that
couldn't count to two couldn't tell a post that is sent twice.  `AssetsAssumption` says that
the folders above a path are those of a tree.

### Instances and bounds

| Instance | Bounds | Why |
|---|---|---|
| "posts" | 1 page, 2 requests, 1 worker | pages don't meet but in tags; two requests and the job are three writers of a row |
| "tags" | 1 page, 2 tags, 1 request | a tag that is there and one that is made, deleted or not meanwhile |
| "assets" | a file in a folder in a folder, 3 IDs, 2 uploads, 1 deletion | two folders above, so that the one in between can be missing; two uploads for the same path |
| "a website", "two websites", "redirects" | 2 requests or 2 websites, 2 slugs, 1 hostname, 2 domain rows; 1 pattern, 2 destinations, 3 rows of redirects, made in order | a name that is taken, released and taken; renamings that cross; a redirect that is made, given another destination, deleted and made again.  Icons are only one request's, and slugs don't change.  Patterns don't meet (for any number of them there is the proof), and rows are alike |
| "patterns" | see above | |
| "files", "local pages", "settings" | a folder, a file in it, a snippet; 2 pages, a list of 1; 3 settings, 1 pattern with 2 destinations; 3 edits of others to files, 2 to pages or settings | a list that is too short, an edit of others before, during or after |

## 7. People: the runs `people`, `people_locked`, `people_administrators`

### Contacts

| Model | Code |
|---|---|
| `Login`, `CreateSession`, `WrongLoginCode`, `FailSessionLoginAttempt`, `RightLoginCode`, `FindContact`, `CompleteLogin` | `site/service/login.go`, `complete_login.go`, and the sessions of `contacts/service` |
| `Subscribe`, `WrongSignupCode`, `RightSignupCode`, `CompleteSubscription` | `subscribe.go`, `complete_subscription.go` |
| `UpdateMyAccount`, `VerifyEmail`, `Unsubscribe`, `Logout`, `DeleteMyAccount` | those of the account; a link in an email is a member of `links` |
| `CreateContact`, `UpdateContact`, `ImportContacts`, `BlockContact`, `UnblockContact`, `DeleteContact` | the staff's |
| `FindOrCreateContact`, `CompleteOrder` | `place_order.go` and gifts of products; `complete_order.go:63` reads the contact, and line 244 writes it back as verified when Stripe has answered that the order is paid |
| `Save`, `UpdateContactInternal`, `CreateContactInternal`, `Block` | the second halves, which write what was read |
| `HandleEmailSuppression`, `JobDeleteOldUnverifiedSessions`, `Fail` | the email provider, a job, failures |

A code stands for the mailbox it was sent to; who presents the right one has shown
to read that mailbox (`proven`).  A paid order counts as well, as the code has it ("TODO: do we really
mark the contact as verified?", `complete_order.go:236`), although anybody may order with any address.  `BlockedIsOut`, `VerifiedIsProven` and
`TriesAreCounted` hold but for requests that overlap: a session made by a request
that had read the contact before it was blocked (`letIn`), a row written back
over another's changes (`overwritten`), attempts that were counted as one (`raced`).

### RateLimiter

| Model | Code (`pkg/ratelimit/ratelimit.go`) |
|---|---|
| `ReadClock`, `IsAllowed` | `IsAllowed`: the clock, and with it the key of the bucket; then, under the mutex, the count |
| `StartCleanup`, `Cleanup` | `cleanup`: the clock; then, under the mutex, the deletion of what has expired |
| `Tick` | time; a call waits for the mutex less than a period, which is an hour wherever the limiter is used |

`RequestsAreLimited`: a window lets at most `Allowed` requests of a visitor through, and
none is refused before, although buckets are deleted: a bucket outlives its window by one
period (`Expires`), and no call is late by that much.  With a bucket that expires with its
window TLC finds a call that makes it anew.  `Allowed` is 1 at least; with 0 the code would
let the first request through, but its callers pass 30.  The run checks this with
`TriesAreCounted`, as `AttemptsAreLimited`.

`People_proofs` proves it for any visitors, calls, periods and limits.  The inductive
invariant adds that whoever waits has read an instant less than a period ago
(`WaitsAreShort`), and that a bucket has the count of its window as long as it hasn't
expired (`BucketsCount`); the arithmetic of windows (`NoLateCall`) shows that one never
finds an expired bucket.

### Organizations

The operations of `pkg/services/organizations/service` on staff, invitations, API
keys and the organization itself, each a check (`InviteStaffs`, `RemoveStaff`,
`AcceptStaffInvitation`, `DeleteOrganization`, `CreateWebsite`,
`CreateApiKey`) and a write (`CreateStaffInvitations`, `DeleteStaff`,
`CreateStaff`, `DeleteOrganizationRow` and `ScheduleDeletionOfOrganizationData`,
`InsertWebsite`, `InsertApiKey`), or one step for those that check nothing.
`StaffAreInvitedWithinLimits` and `OrganizationsAreRun`, with the exceptions
`revived`, `relaxed`, `crossed` and `halved`: an invitation that is withdrawn
while it is accepted, requests that are counted together, a removal or deletion that has checked
what is no more, and the transaction of a deletion that fails, which undoes only what it holds, since the row is
deleted outside of it.

### EmailDomains

| Model | Code (`pkg/services/emails`) |
|---|---|
| `UpdateWebsiteConfiguration`, `RemoveDomain`, `AddDomain`, `UpdateWebsiteConfigurationRow` | `update_website_configuration.go`: the check; the two calls to the provider; the row |
| `VerifyDnsConfiguration`, `VerifyDomain` | `verify_dns_configuration.go`; it writes the whole row back |
| `RemoveWebsiteConfiguration`, `DeleteConfiguration`, `JobDeleteWebsiteConfigurationData` | when a website is deleted |
| `ProveDomain` | the owner of a domain sets its DNS records |
| `PushEmail`, `PushEmailJob`, `JobSend...`, `SendTransactionnal`, `GiveUpEmail` | the emails of a website, which keep the address of when they were made |

`MailDomainsAreKept`: a website's domain is at the provider, proven if the row
says so, of no other website (which only the check of the update ensures: the unique
index is commented out, `migrations/2024/0001.up.sql:388`), and none is left
there.  The exceptions: a failure half way (`torn`, `lost`), requests that overlap
(`overlapped`), and that a domain which takes the place of a proven one is taken as proven
(`carried`): the update keeps `DomainVerified`.

### What is proved

- `People_proofs`, for any number of contacts, sessions, links and requests, and every limit:
  `BlockedStaysOut`, `OwnersAreProven`, `TriesCount`, and `LimitsAreOnAttempts` for the
  conjunction with the limiter that the run checks.  The inductive invariant `ContactsInv` is that of
  each row (`ContactInv`, `SessionInv`) and of each request (`RequestInv`): one that isn't marked
  writes the row that is there but for its own change; one that is marked puts
  the contact among `overwritten`, `letIn` or the session among `raced`.
- `Organizations_proofs`, for any finite number of users and every limit: `StaffWithinLimits` and
  `OrganizationsHaveStaff`.  Whatever changes what a request has counted marks it
  (`Counted`), so that one that isn't marked writes within the limit; and a new organization is empty,
  an invitation was granted.  That the users are finitely many (`IsFiniteSet(Users)`) is what
  makes "the number of staff" mean something.
- `People_proofs`, for any number of websites, domains, requests and emails: `DomainsKept`, from
  `EmailDomainsInv`.  What a request that isn't stale has read of
  its website is there still, and nobody has the domain it wants (`ReadIsCurrent`); what it has
  asked of the provider before it writes (`StepIsSound`) still is so: the domain it is going to write
  is there (`CallIsKept`), the one it gives up is gone (`OldIsGone`); the job of a deleted website removes a domain that
  nobody else has or is about to have (`RemovalIsDue`); an email that isn't late is from the domain its
  website has (`MailIsFromIts`).  The proof needed `overlapped` to name also the websites that were
  deleted and whose job still waits: the job removes a domain that another website has taken meanwhile, and
  a third may take it after that.  It takes three websites, more than the run has.
- For the limiter see above.
- `PeopleTypes`: `PeopleTypeOK`, the types of all four.  A behavior of the run is one of each module
  (`EachOfPeople`), whose steps the run interleaves.

### Findings

`people_locked`: only Login looks at the block of a contact; a blocked one that
has a signup code completes its subscription, and gets a session.
`people_administrators`: two removals at the same time both count two
administrators, and leave none.

### Instances and bounds

| Instance | Bounds | Why |
|---|---|---|
| "logins", "subscriptions", "addresses", "one at a time" | 2 requests, 2 contacts, 2 addresses, 2 sessions, 1 attempt allowed | a second request between the read and the write of the first; an attempt, one more, and one that is not counted; an address that goes from a contact to another; all operations, one at a time |
| "limiter" | 1 visitor, 2 calls, 2 requests allowed in windows of 3 instants, 9 instants | visitors don't share buckets; three windows, of which the first expires |
| "staff", "websites" | 1 organization, 3 users, 2 requests, 1 extra slot, 1 API key | organizations share nothing; two administrators and a third who is invited; a limit that changes |
| "one caller", "two callers", "deletions", "emails" | 2 websites, 2 domains, 2 requests, 1 email | a domain that is released and taken; failures with one request, overlaps with two |

Users are interchangeable, for which the run has its symmetry; nothing here is
checked about liveness.

## 8. The platform: the run `platform`

| Module | Code | Says |
|---|---|---|
| `Servers` | `pkg/scheduler/scheduler.go`, `pkg/jwt` and what `cmd/mdninja-server` starts: servers start, stop and die, become leader, lose the session that holds the lock; the daily tasks; `RotateKeys` in its three steps; tokens | `TasksRunOnce`: the daily tasks run on one server, unless a leader has lost its session.  `KeysOutliveTokens`: a token is refused before it expires only if it was signed with a key that was too old already, which a server whose rotation of the day has worked doesn't do |
| `EventsBuffer` | `pkg/services/events/service/events_buffer.go` and the saving of batches: push, flush, save, put back, shutdown | `EventsAreKept`: an event is saved or on its way, once, unless the buffer was full or an error hid a commit.  "Full" includes a batch that would fill the buffer exactly, none of which is taken (`events_buffer.go:40`) |
| `Serving` | `pkg/services/site/service/serve_*.go`: what a request reads, in its order, the ETag, the copy; the edits of the staff and the stamps they leave | `CopiesAreCurrent`: a copy whose ETag is today's shows what is there today, but for edits of one second (`twice`), the stamp that a new primary domain writes again (`rewritten`), and pages that the job has published since the last edit (`released`), which lists may lack |
| `Downloads` | `serve_asset.go`, `get_asset_data.go` and the cache in memory: ranges, ETags, copying that breaks off | `DownloadsAreWhole`: a visitor gets the bytes asked for, all of them unless the copying broke off, for him or for the one whose part is in memory (`broken`) |
| `Catalogue` | product pages and coupons of `pkg/services/store/service` | `CatalogueIsKept`: positions without gaps, one page at least, texts as saved last, a coupon for the products it was saved with; but for requests that overlap (`misplaced`, `emptied`, `overwritten`, `mixed`) |

Bounds: two servers, one of which takes over; keys that live four half days and
tokens two, so that keys expire while tokens are valid within six; a buffer of two
events of four, so that it is full and a batch of one or of two is put back; edits in three
seconds, two at a time; files of sizes 0, 1 and 2, of which the first two fit in
memory; three pages of a product, two requests.  Servers (who are also the editors,
the downloads and the managers) are interchangeable, for which the run has its symmetry.

### What is proved

`Platform_proofs`, for any number of servers, keys, tokens, events, pages, requests, files, products and
coupons, every size of the buffer, of files and of the memory, and every life of keys and tokens:

- `NoEventIsLost`: `EventsAreKept`, from `EventsInv`: an event is in one place once (`PlacedOnce`), so that
  a batch that is put back can't repeat one, and only what came was saved.
- `OneServerRunsTasks`: `TasksRunOnce`; a leader that hasn't lost its session holds the
  lock (`LeadersHoldLock`).
- `TokensAreVerified`: `KeysOutliveTokens`.  It takes that keys are made in the order of
  their numbers and only old ones are deleted (`KeysAreInOrder`), that who signs has a key that
  was made (`SignersHaveKeys`), and that a server which rotates alone signs with one made since the day
  before (`RotationsAreDaily`); then a key that is deleted is older than any valid token
  such a server has signed.

- `CurrentCopies`: `CopiesAreCurrent`, from `ServingInv`.  A request reads one row after the other
  while edits are committed, so the invariant says of each request what the rows it has read so far are worth: if
  the stamp it holds is today's, no two edits share it and no edit wrote it again, then they are the rows of
  today, but for posts that the job has published since (`ViewIsSound`); a copy has this from the request that
  made it (`CopyIsSound`), and no stamp comes from the future (`StampsAreSound`).
- `WholeDownloads`: `DownloadsAreWhole`, from `DownloadsInv`.  A request has found a file that was uploaded;
  the memory holds, for an ETag, the file of that ETag, whole or one whose copying broke off
  (`MemoryIsSound`); the visitor keeps parts of what its ETag names (`KeptIsWhole`).
- `RightAnswers`: `AnswersAreRight`, which is both.
- `KeptCatalogue`: `CatalogueIsKept`, from `CatalogueInv`.  What a request is going to write is
  what is there with what was asked of it, unless it is marked (`TaskIsSound`).  That renumbering leaves no gap
  is by counting: the place of a page is the number of pages before it,
  places differ, and distinct numbers below the size of a finite set are all of them (`Onto`).
- `PlatformTypes`: `PlatformTypeOK`, the types of all five.

The lives of keys and tokens are parameters with the assumption `TokenLife < KeyLife`, which
`jwt_provider.go` meets with 35 and 30 days.  `ServingAssumption` has the posts among the pages and times that are
numbers; `DownloadsAssumption` finitely many sizes, at least one, and that what stands for no range is none;
`CatalogueAssumption` that IDs of pages are numbers and "no page" isn't a page.

## 9. What is only model-checked

Proved for every value of the constants are the safety properties of every module, and those
of the runs that say several of them at once.  TLC alone checks, on the instances above:

- All liveness, since fairness and ENABLED are out of reach of the prover.

## 10. What is not modelled

- Refunds.  `create_refund.go:53` refuses an order that has no refund yet, as if it
  had one, so that no refund is ever made, and the job that makes it at Stripe, without an
  idempotency key, has nothing to do.  A model would have no steps.
- The tax number of an organization, which no other state depends on; its creation
  always ends in an error, since the error is wrapped before it is tested
  (`billing_utils.go:230`).
- Amounts (which `complete_order.go:131` sets in cents, and line 195 in
  units), currencies, countries, texts, names.
- Orders of amount zero beyond what `StoreOrders` has as `nothing_due`, which
  stay pending.
- What the shutdown of a server does with events that are put back after its
  last second (`main.go:244`): it loses them, as the death of a server does.  Nor the
  requests that a shutdown cuts: a comment gives them 25 seconds
  (`pkg/server/const.go:22`), but the context of that timeout is made from the one whose
  cancellation starts the shutdown (`pkg/server/server.go:202`), so that `Shutdown` returns at
  once.  For the models it is the failure of a request at any step.
- Certificates: ordering and renewing them is a library's, and the code here keeps rows by key,
  each written by a statement of its own.
- Which redirect applies when a path has several patterns: `MatchRedirect` takes the first
  that matches, the newest first; the rows that one call makes are of the same time, in no order.
- Two paths of `job_send_newsletter.go` that go on without a recipient: when its unsubscribe link can't be signed
  (line 102, which leaves an email without an address) and when the template of its email
  fails (line 166, which leaves it out).  Both compute in memory, and what they compute doesn't depend on the recipient but for an ID; "all recipients or none" is
  said of the rest.
- Self-hosted servers, on which no plan limits anything (`check_billing_gated_action.go:17`): `Organizations`
  is the hosted platform.
- That a product with assets can't be deleted (`delete_product.go:43`): `StoreOrders` allows the deletion, and so has more
  behaviors than the code.
- Analytics, which are SQL; the salt of anonymous IDs, one variable in memory that is
  replaced each day; the queue, which is
  modelled where jobs are pushed, as its users see it; Markdown, themes, the
  web application, the ebook generator; authentication of
  staff by another service, and permissions, which are checks at the start of an operation.
- Models of the API and of the database rows, configuration and wiring: the types of
  Go are in the types of the models as far as properties tell their values apart.

`PROJECT.json` gives the status of each component and the reason.

## 11. Running

    tlc -workers 2 -config MCStoreOrders.cfg MCStoreOrders.tla
    tlc -workers 2 -config MCSite.cfg MCSite.tla
    tlapm StoreOrders_proofs.tla
    tlapm Newsletters_proofs.tla
    tlapm Billing_proofs.tla
    tlapm Organizations_proofs.tla
    tlapm People_proofs.tla
    tlapm Redirects_proofs.tla
    tlapm Site_proofs.tla
    tlapm Platform_proofs.tla

`PROJECT.json` lists the runs with their modules, configurations and
properties; the operators commented with "Fault:" are mutations of the
definitions that follow them, which the properties detect.  The longest runs, `site`,
`people` and `platform`, take two to four minutes.
