# pulumi-awsx in TLA+

TLA+ models of pulumi-awsx, the component provider `awsx/` and the parts of the
older library `awsx-classic/` that compute something, model-checked with TLC and
partly proved with TLAPS. Line numbers are in `PROJECT.json`, under `map`.

## The system

awsx is a Pulumi component provider: the engine calls it once per component; it
computes a plan from the arguments (how to cut a VPC's range into subnets, which
gateway serves which route, how big a Fargate task is) and registers child
resources, which the engine creates concurrently, in any order their dependencies
allow. Arguments may be outputs of other resources, known only later; what depends
on them runs in an `apply`, a callback the engine fires while it is creating what
was registered before. awsx-classic does the same inside the user's program.
Nothing is persisted by either. Hard is therefore (1) arithmetic on addresses and
tables, whose boundary cases a test hardly reaches, (2) chains of transformations
that must keep what the user said, (3) decisions made after some resources were
registered, or by two functions that each see a part.

| Component | State | Operations | Correct when |
|---|---|---|---|
| Auto allocator, `ec2/subnetDistributorNew.ts` | cursors over zones and subnets, table of allocations | `allocateSubnetCidrBlocks`, read back by `getSubnetSpecs` | subnets of a zone are disjoint and ordered, stay in the zone, are read back under the key they were stored with |
| Layout decision, same file and `ec2/vpc.ts` | the specs as they are normalised and merged; the layout | `validateAndNormalizeSubnetInputs`, `mergeWithDefaultSubnetSpecs`, `getSubnetSpecsExplicit`, `validateSubnets`, `validateNoGaps` | accepted layouts are disjoint (Exact: tile the VPC), no spec is lost or resized |
| Legacy allocator, `ec2/subnetDistributorLegacy.ts` | current address, subnets of the zone | `getSubnetSpecsLegacy` | neighbours are disjoint, zones are alike |
| Layout conversion, `ec2/vpc.ts` | previous block, specs so far | `extractSubnetSpecInputFromLegacyLayout`, `findSubnetGap` | Auto, given the printed specs, lays out what Legacy did |
| VPC resource graph, `ec2/vpc.ts`, `ec2/subnetSpecs.ts` | counters and arrays of the loop over zones; resources and their dependencies | `Vpc.initialize` | a refusal leaves nothing behind, egress is zonal, IPv6 slices are distinct, a valid network comes up |
| Fargate sizing, `ecs/fargateMemoryAndCpu.ts` | a table sorted in place, again and again | `calculateFargateMemoryAndCPU` | the cheapest configuration that covers the containers |
| Containers and services, `ecs/*.ts` | task definition, service, outputs of target groups | both services' constructors, `normalizeTaskDefinitionContainers`, `computeLoadBalancers` | task and service agree on containers and ports, one launch argument, a refusal leaves no service |
| Load balancers, `lb/*.ts` | listeners, default target group | both constructors, `getDefaultProtocol`, `getListenerProtocol` | ports and protocols agree with each other and with the arguments |
| Roles, log groups, buckets, trails | the resources of a trail | `Trail`, `requiredBucket`, `defaultLogGroup`, `defaultRoleWithPolicies` | the trail waits for its bucket's policy; an existing resource keeps its identity |
| Classic VPC topology, `awsx-classic/ec2` | current address, map of zones to gateways, round-robin counter | `ComputedLocationTopology`, `ExplicitLocationTopology`, `VpcData.partition` | blocks are disjoint and as large as fits; each private subnet is routed |
| Classic dashboards, `awsx-classic/cloudwatch` | measured boxes of a tree of widgets | `RowWidget`, `ColumnWidget`, `getDashboardBody` | widgets never overlap, stay in the grid, read in order |
| Classic API Gateway, `awsx-classic/apigateway/api.ts` | one Swagger document, maps of handlers and authorizers | `createAPI` | the document has what the last route on each path and method gave; the stage is up only with permissions in place |
| Classic step scaling, `awsx-classic/autoscaling/stepScaling.ts` | converted steps | `StepScalingPolicy` | alarms and policies together answer with the step each value triggers |
| Default VPC; ECR; provider dispatch; other classic modules; schema and SDK generation | | | not modelled, see the end |

Interactions. `Vpc.initialize` calls `createInnerVpc`, which decides the layout
through one of three allocators, checks it and hands a list of specs to the loop
that registers resources; if the VPC's range comes from IPAM it is unknown until
the VPC exists, so the decision runs in an `apply` while the loop has long
registered its resources on promises of the blocks. A service's port mappings name
target groups of `lb/` by value and read their ports when they are known. A trail
is made of four helpers which each create, adopt or skip a resource.

`PROJECT.json` lists all components with their status and, under `hazards`, what can
go wrong in each, at its line, with the properties that watch it.

## Modules

`AddressBlocks` - CIDR blocks as the external `netmask` library computes them.
`Width` is 32 in the program, a parameter here. `BlockSize` is a parameter with
assumptions that characterise powers of two, since tlapm's backends do not
reason about `^`; every instance defines it as `2^(Width - m)`.

`SubnetAllocation` - `allocateSubnetCidrBlocks` and the reading back by
`getSubnetSpecs`. A behaviour is one call. `ChooseSpecs` is the choice between
given and default specs, `AddSize` one step of the `reduce`, `CheckTotal` the size
check, `PlaceSubnet` the body of the inner loop, `NextAz` the end of the outer
loop's body, `Publish` the read back. `Throw` ends the call.

`SubnetLayout` - from `subnetSpecs` as written to the checked layout, for
strategies Auto, AutoMerge and Exact. It extends `SubnetAllocation`: `CallAllocator` makes
the call, `AllocatorStep` is that module's `Next`, `Collect` takes what it published.
`Normalize` and `Validate` are what comes before and after the allocators.
Types and names are model strings, `size` is a number of addresses of the model's space, a
block is what the libraries read a CIDR as, which starts at a multiple of its size.

`LegacyAllocation` - `getSubnetSpecsLegacy`: `Split` cuts the VPC into slices,
`FilterSpec` passes one spec through the three filters, `PlaceSubnet` is the body of each
of the three inner loops, which differ in their split base only, `NextZone` the end of the
outer one. Cidrs are kept as written, because `cidrSubnetV4` computes with the written
address and `isOverlapping` with the block it denotes. A range at 0.0.0.0 is refused
(`RefuseAddressZero`): the first zone starts from the address before its slice.

`LayoutConversion` - extends `LegacyAllocation` with the conversion, one subnet of the
first zone at a time (`ConvertSubnet`), and instances `SubnetAllocation` for the call with
what was printed. `findSubnetGap` is `OpenGap`, its start, and `FillGap`, one iteration of its
loop; the inner loop, which only doubles a block, is `Widest`. Three components in a row.

`VpcNetwork` - `Vpc.initialize` (actions grouped in `Initialize`) next to the
engine (`Create`, `Fail`, `Abort`; external). `needs` maps each registered resource
to what it waits for: its inputs, parent and `dependsOn`. The layout check of
`validatePartialSubnetSpecs` is a resource-like item, `check`, when it runs in an
apply. One iteration of the inner loop is one `BuildSubnet`, which registers the
subnet, its route table, association, gateway, address and route as the code does.
Whether the blocks of a layout pass is an input, `layoutOk`; what decides it is
`SubnetLayout`'s matter. The NAT strategy check is modelled in both, because the
loop relies on it. Tags, names and outputs are left out.

`NetworkPromise` - what a VPC promises, in three variables: the layout is judged
once, subnets are built only if it was accepted, and a subnet gets its way out only
after it was built, a private one through a public subnet that exists.
`VpcNetwork!Promise` is the refinement mapping, `KeepsPromise` the claim.

`FargateSizing` - the sums over containers, one at a time, the table with its rows as in
the code, and the search in the order in which three stable sorts in place leave the
table: by memory, then vCPUs, then cost (`Before`). Costs are whole multiples of a
common unit.

`LoadBalancer` - both balancers; the two spreads over the same defaults are record
merges in the code's order. `EcsService` - both services with the task definition
they make, target groups whose ports become known at any time (`TargetGroupIsKnown`), the
applies that read them, and the engine. `ServiceBehindBalancer` composes the two: a
mapping names the balancer's default group, whose port the service learns when the
group has been created. `DefaultResources` - the helpers, ARNs as sequences of parts,
built and parsed. `Trail` - the trail on top of them, with the engine.

`ClassicTopology` - both topologies and the resources partition makes of their
descriptions; zones are numbers that sort as names do. What the code sorts or filters, the
model takes by rank (`KthOf`). `DashboardLayout` - a tree of
simple widgets, spaces, rows and columns in an array, measured bottom-up and emitted
top-down as the code does; a space takes any size from zero up (the code would also take
negative and fractional ones) and adds no box. `ApiGateway` - `createAPI`: each route is a list of tasks (register, walk a
file, authorize, require a key, write an operation, throw) performed in the code's order,
for the routes in the constructor and for the additional ones in the apply, with the
engine beside them. `StepScaling` - the constructor, the apply, the engine, and the
external half: which alarm fires at a value and which interval its policy picks.

`*Proofs` hold the proofs; `MC*` define the instances; each `.cfg` is one run.

## Runs

| Run | Instance | Shows |
|---|---|---|
| `zones_disjoint` | the calls of the Auto allocator alone that `subnet_layout` has | expects `ZonesDisjoint` violated, see Divergences |
| `subnet_layout` | 64 addresses; the Auto allocator alone with VPCs of 32, 16, 8 and 2 addresses at different offsets, 0 to 3 zones, zone mask given or not, up to 3 specs of masks 3 to 6 or none, with one name or three; and the way from what a user writes, all strategies, 1 or 2 zones, pairs of specs sized by mask, size, both or neither, triples of different types, explicit blocks in and out of agreement, range known or not | `InOrder`, `FitsWhenDescending`, `SpillBounded`, `PublishedIsPerSpec`, `AcceptedIsDisjoint`, `ExactTiles`, `SpecsHonoured` |
| `layout_conversion` | 256 addresses, 1 to 3 zones, two specs of any type and mask, three of the types that are placed, four of one type, one to five small ones before a large one, VPCs too small for them or at address 0 | `LayoutIsRegular`, `GapsAreFilled`, `AutoKeepsLayout` |
| `gaps_avoid_subnets` | of these, the small ones before a large one | expects `GapsAvoidSubnets` violated, see Divergences |
| `vpc_network` | one zone with five lists of types, all NAT strategies, 0 to 2 addresses, range and blocks known or not, layouts that pass or not, IPv6; two zones with gateways shared or per zone, IPv6, both kinds of endpoint; one failing creation | `TypeOK`, `RefusalsAreClean`, `EgressInOwnZone`, `GatewaysHaveOwnAddress`, `Ipv6BlocksAreDistinct`, `EndpointReachesEveryZone`, `KeepsPromise`, `NetworkComesUp` |
| `fargate_sizing` | the real table; demands on, just beyond and between its steps, no container, one or two | `CheapestThatCovers`, `RefusedOnlyBeyondMaximum` |
| `service_behind_balancer` | balancers with every exclusive pair of arguments and up to two listeners; services with every mapping, helper and launch argument; both together; ports 80, 443, 8080; one failing creation | `ServiceIsWellFormed`, `PortsAgree`, `EndpointsAgree`, `RefusalsAreClean`, `ServedOnceGroupHasPort`, `ServiceComesUp` |
| `trail` | bucket and log group given in every way, by valid and invalid ARNs, names and regions; one failing creation | `TrailIsAllowed`, `IdentityIsKept`, `TrailComesUp` |
| `classic_topology` | 256 addresses, masks 2 to 6 for subnets (16 to 28 in the code), 1 to 4 zones, 0 to 4 gateways, computed lists of up to 3, explicit ones of up to 6 | `BlocksAreSound`, `EgressIsSound` |
| `dashboard_layout` | a grid of 4 columns, up to 5 widgets, flows nested twice, a widget given twice, spaces wider than the grid or without height | `NoOverlap`, `WithinGrid`, `ShownInOrder` |
| `api_gateway` | pairs and triples of routes of all kinds that meet on a path, in the constructor or the apply, routes that share authorizers under given and default names, documents of the user's own, refused routes; one failing creation | `DocumentIsAsGiven`, `ApiIsWhole`, `ApiComesUp` |
| `step_scaling` | up to three upper and two lower steps, or one and three, in any order, values that coincide or overlap, metric 0 to 5; one failing creation | `AnswerIsTheStep`, `RefusalIsTotal` |

Why the bounds are enough. The allocators look at absolute addresses only through
alignment, so a space of a few bits has every relation between two sizes that 32 bits
have: equal, half, much smaller, larger than the zone. Three specs are needed to see a
gap in the middle, and three of one type to see the Legacy fallback miss. Hosts and
broadcast addresses matter at the two smallest masks, which the instances include. Two
zones suffice where an index is shared between zones, three for the powers of two
(three zones in four slices); the classic round-robin counter needs three zones that
borrow from fewer, hence four. `MaxIpv6Index` (2, 255 in the code) is small so that the
limit is met. `MaxFailures` (1) bounds how many creations AWS refuses: one already ends
a deployment. A dashboard's limits `MaxWidth` 4, `MaxHeight` 3 and `MaxWidgets` 3 stand
for 24, 1000 and 100: four columns have a line that is full, one that wraps and a
widget too wide for what is left. Two routes meet on a path in every order of kinds; a
third is needed for an operation lost and written again. Three steps have a first, a
middle and a last interval, and the metric passes one value beyond both ends. A gap takes
four or more blocks before `findSubnetGap` widens one too far, hence five small specs.
`CHECK_DEADLOCK FALSE` everywhere: a call ends, and so does a deployment.

## Fairness

`VpcNetwork` assumes `WF(Initialize)`, an async function that awaits nothing it
registers runs to its end, and `WF(Engine)`, the engine keeps creating resources
that are ready; `Trail` and `ApiGateway` likewise (`Construct`, `Engine`). Weak fairness of the
engine as a whole is enough, as resources are finitely many and a ready one stays
ready. The composed balancer and service have it for each constructor, for the
creations of each and for the outputs of groups made elsewhere, which resolve once
their resources exist. `Abort` has none: after an error the engine may stop at any
moment or carry on with what is independent. The liveness properties allow for a
failed creation, since the cloud may always refuse. The other modules are
functions, or are checked for safety only, and assume no fairness.

## Proofs

From the named assumptions on the constants only, so for any width, number of zones,
specs, widgets, routes and failures. They say what the types of the arguments say, and:
no call is for a VPC so near the end of the address space that slices would wrap around
(`IsCall`); a bucket's name has no slash (`BucketNameAssumption`); the balancer's group is
not one made elsewhere (`ProgramsAssumption`); blocks start at multiples of their sizes
(`InputAssumption`, `LegacyRequestAssumption`, `TopologyRequestAssumption`); a route of raw
data has no authorizers (`RequestAssumption`); no two subnets of a classic VPC have one name,
since the engine refuses the second (`SubnetNamesAssumption`); the value that stands for
`undefined` is not a datum (`UndefinedIsNothing` and its like); as many slices as there are
zones fit into the VPC they are cut from (`SlicesAssumption`: sizes are powers of two and
`newBits` rounds the logarithm up, but the provers know nothing of powers).

`SubnetLayoutProofs`, of the allocator: `TypeCorrect`, `SubnetsInOrder`, `DescendingSpecsFit`,
`SpillIsBounded`, `AllocationIsFinal`, `ReadBackIsPerSpec`. None is inductive alone. `IInv`
adds the running totals of the reduce (`Sized`), where the two cursors are and that each
total fits a slice (`Cursor`), which entries the table has (`Filled`), and for each entry
that it is aligned and ends within *twice* the running total of its zone's start, within
the total itself if sizes descend (`EntryOK`). The factor two is the heart of it: a
subnet wastes less than its own size by alignment, so i subnets end within
2 * required[i] <= 2 slices. `RInv` adds that the names of the read-back are those of the
table, though computed from another list (`Named`), and what it returned (`ReadBack`).
The arithmetic of aligned blocks comes first in the module.

And of the layout around it: `AcceptedShareNothing`, `ExactIsTiled`, `SpecsAreHonoured`. `LInv`
says what normalisation has established (`Parsed`), that the allocator was called with the
list decided on and works on it, in `RInv` (`Called`), and that the layout has one subnet
per zone and spec, aligned and of the size stated (`LaidOut`). On top of it: of two
aligned blocks either one contains the other or they are apart, so `validateSubnets` sees
every overlap. A list of disjoint blocks in which each starts at `next()` of the one
before never passes the end of the address space, since what came after would stay below
the first block for good; equal last hosts are equal ends above /31; so `validateNoGaps`
accepts tilings only. Counting rests on bijections: a zone's subnets and the merged list,
its extras and the specs that override no default (`MergeKeepsCount`).

`LegacyAllocationProofs`: `LayoutStaysRegular`. The code decides each subnet from mutable
counters and the last address; `ChosenAt` is the same choice as a function of the zone and
of what stands before the subnet in it, and `ZoneOK` says that the zone so far is that
function's doing. The counter and the split base together count every subnet of the zone
once (`CountFacts`). The choice commutes with moving a slice further
(`ChosenIsShifted`: rounding to blocks no larger than a slice does), so zones are alike,
and with one size it is the next block (`ChosenIsContiguous`). The rest of `IInv` carries
this along the list of finished zones, whose n-th last entries are the last zone's.
It is proved for the default layout too, whose two runs over the zones are one step.

And `GapsStayFilled`, of the conversion on top of it. `FirstInv` says that the zone which is
converted is of the allocator's making (`ZoneOK`), from which `GapFacts` follows: the subnet
behind a gap starts at a multiple of the size of the one in front, because the formula only
leaves a gap before a subnet that is not smaller (`SmallerFollowsClose`). That is what lets
the first block of a gap be written down at all. `GapBlock` is the heart of it: whatever
the doubling comes to starts where the gap does, ends no later, and its size divides the
gap's end again, so the next block of that size is a place to go on from. It needs that the gap is
no wider than a power of two that its end is a multiple of (`GapEndsBlock`, the precondition
of the property): otherwise a doubled block may be too large to go on with, the
divergence below. `ConversionInv` carries along the list where each spec starts, if each
follows the one before (`Starts`), that this is aligned and has the subnets where they
were (`Laid`), and of the gap being filled what `GapBlock` asks for (`GapAt`). It also says why
the last Unused spec could not be wider, which two equal ones in a row would
contradict. `StartOf`, the recursive function of the property, is the only solution of
its equation (`StartIsUnique`, by the least place where two would differ).

And `LayoutStaysKept`, of both allocators. Only one zone is converted, and Auto's choice of a
block is not Legacy's, so the argument has four parts. (1) Normalisation takes a list
only if no type comes twice. Then every block of a zone starts within its own size of
where the one before ends (`DistinctLayout`), so the layout ascends and its gaps are of the
kind `GapsStayFilled` fills (`ConvertedDiffers`, `Tidy`): nothing need be assumed of the layout.
(2) `CopyInv` says of the list as far as it goes that every subnet is in it, in order,
with Unused specs between them only. (3) `AutoInv` follows Auto on that list: `required[k]`
is the sum of the sizes so far, so if every slot is aligned where this sum puts it
(`SlotsAligned`), Auto's own alignment moves nothing, and the table and the read-back
have every spec at its slot (`Filled`, `Shown`); and it fails only when the last sum is larger than a
slice. That the slots are aligned is (1) for the first zone, and a zone's slice starts
at a multiple of every size in it for the others (`SlotsStayAligned`). (4) `ZonesRepeat`:
Legacy lays every zone out as the first, moved by the slices between, provided no subnet is
larger than a slice, which is so since the sums fit. For a list that is refused, the last
sum is the end of the last subnet, which the slice would hold.

`VpcNetworkProofs`: `TypeCorrect`, `RefusalIsClean`, `NothingOfRefusedLayout`,
`RefusalsLeaveNothing`, `EgressIsZonal`, `AddressesAreOwn`. `IInv` adds what the checks
that have run guarantee at each `pc` (`Checked`), how many gateways the loop has pushed
(`Counted`: one per zone passed or one in all, plus one once the zone's first public
subnet was placed), that the g-th gateway is in zone g with zone g's address
(`Gateways`), and that everything made for a zone hangs on a subnet and a subnet on the
check (`Hanging`). `Counted` rests on the sort: public subnets come before private ones
in every zone (`PublicFirst`), so a private route finds the gateway its index names.

There too: `PromiseIsKept`, `VpcNetwork` implements `NetworkPromise`. `PInv` says
which resources exist at each point of the loop (`Fresh`), what each kind needs
(`Shaped`), that whatever is created had all it needs created (`ClosedUnderNeeds`), how
far the check has come (`Phased`) and that it fails only for a refused layout
(`RefusedForCause`). Each action then maps to one step of the promise or a stutter. And
`SlicesAreDistinct`, `EndpointMissesNoZone`: `CInv` says that the n-th
subnet of a zone has slice (az - 1) + n * azCount with n below the number placed so far
(`Numbered`), so that a slice determines zone and position as remainder and quotient
(`SlicesDiffer`), and that every zone passed has all its route tables
(`TablesRegistered`) when the endpoint, last of all, reads them.

`ServiceProofs`: `EndpointsAgreeAlways`, `RefusalsLeaveNothingServing`,
`ServiceFitsTaskAndGroups`, `MappingsAgree`, of the balancer, the service and the engine
together. `SInv` says what the service's constructor has registered at each step
(`RegisteredSoFar`), that what exists had what it waits for (`Closed`), and that what was
computed from the ports known then is what would be computed now (`Computed`), since a
known port stays. `BInv` does the same for the balancer and its listeners;
`GroupIsBalancers` ties the two: the port the service reads is the one its balancer's
group was made with.

`TrailProofs`: `TrailAllowed`, `IdentityKept`. `IInv` adds what the helpers answered
(`Answered`), what is registered at each step, and that the trail, registered last, has
waited for all the rest (`Closed`), so that a refusal leaves no trail. That an ARN
survives is arithmetic on sequences of parts.

At its end, of `FargateSizing`: `SizingTypeCorrect`, `SizingIsCheapest`,
`SizingRefusesOnlyBeyondMaximum`, `SizingHasRoomForEach`, for any amounts. The table is
finite; two facts of it carry the proof: it is a staircase (`Staircase`: a row's memory
is also offered with any smaller cpu that goes beyond it), so the first row by memory
that fits is the cheapest although the table is no longer in the order of its prices, and
its largest row has both maxima, so a demand within them always finds one.

`CloudWatchProofs`, of dashboards: `TypeCorrect`, `BodiesDoNotOverlap`, `BodiesStayWithinGrid`,
`EveryoneIsShownInOrder`, for every tree and grid. One part of the invariant per stage:
while a flow is laid out, whatever is placed is above the current line or left of the
cursor; of a widget that is done, the children are apart, within its size and in order;
while boxes are emitted, a flow's box is replaced by boxes within it, one per child, which
are therefore apart from all others and lose nobody. A row and the column of rows that
`getDashboardBody` makes stay within the grid (`Narrow`, `RootIsNarrow`), though spaces, and
columns around them, may be wider: a row refuses such a child. A wrapped line begins below
all that is placed, hence below whatever takes height; a line of spaces or of empty flows
may take none, and of those no order is claimed.

There too, of step scaling: `ScalingRefusalIsTotal`, `ScalingAnswersWithTheStep`. The place
of a step in `sortSteps` is how many do not come after it, a bijection (`SortOrders`), so
the sorted list ascends strictly once equal values are refused (`SortAscends`). An interval
then contains a value exactly if its step is the last one reached (`UpperIntervals`,
`LowerIntervals`). `ScalingInv` says what a created policy was made of (`Converted`) and that
nothing exists unless the conversion passed (`Passed`): the alarms wait for the policies.

`ClassicTopologyProofs`: `BlocksStaySound`, `EgressStaysSound`. `DescribedInv` ties every
description to the argument and the zone it came from. The order, masked arguments first,
is by rank among the masked and the unmasked ones and one to one (`OrderIsInjective`), so
names tell subnets apart (`NamesDiffer`), without which a route found by name could be
another subnet's. For the blocks, `BlockInv` says that they follow one another, and are
aligned as long as they narrow: the end of an aligned block is a multiple of every smaller
size, and the VPC, which the first must fit in, is no narrower. `SplitInv` says that after the
split the n-th block ends n sizes further, so the last one still fits. For the egress,
`GatewayInv` says of each zone visited whether it has a gateway and for which reason each
gateway is where it is (`Justified`), `RouteInv` where each route leads (`Leads`) and that
after t borrowed routes every gateway has had its turns: n, and one more for the first
t % gateways of them (`Shares`).

`ApiGatewayProofs`: `ApiStaysWhole`. `IInv` adds that what exists had what it needs
(`Closed`), that every handler that has been written has a permission once permissions
are registered (`Handled`), and that a document that is not complete has no API
(`RefusalLeavesNoApi`).

And `DocumentStaysAsGiven`. `DocInv` relates the document to the routes written so far and
to the tasks pending of the current one. An operation is the latest claimant's, unless a
pending task takes it (`Latest`); a claim no later route took over is served, or a pending
task writes it (`Kept`). `RouteIsAll` says that the tasks of each kind of route write all it
claims, or throw. Authorizers are collected task by task, so `Leads` is a trace along the
tasks, each turning what the next operation is secured by into what follows: from what
has been collected (`Due`) to nothing, with each operation met at exactly what its route
asks for. Traces compose under concatenation, as the tasks do. `Defined` says that a name
never changes its authorizer, so what was right when written stays right (`Behind`).

Checked by TLC only: liveness (`NetworkComesUp`, `ServiceComesUp`,
`ServedOnceGroupHasPort`, `TrailComesUp`, `ApiComesUp`), which needs fairness and ENABLED,
of which the provers do not reason. Every safety property that a passing run checks is
proved. No module uses a RECURSIVE operator.

## Divergences

Where the code does not do what the repository says of it. The first two have a run that
exhibits them; of the others the properties say what does hold: where a divergence would contradict one,
its precondition leaves that case out and says so; the rest no property judges.

VPC (`awsx/ec2/`):
- Mixed sizes leave alignment gaps that push a zone's last subnet into the next zone's
  slice (`subnetDistributorNew.ts:148`); its test says "we only need a single AZ because AZs are
  always split evenly" (`subnetDistributorNew.test.ts:163`). `validateSubnets` refuses the layout.
- `findSubnetGap` goes on with the size it has just widened to and never narrows it
  (`vpc.ts:961`): behind five /28s, before a /25 of their type, the gap's last block covers part
  of the /25, against "Try to find widest possible gap that doesn't overlap the start or end
  subnet." (`:951`). Found by proving `GapsAreFilled`, whose precondition excludes such gaps.
- Normalisation writes `cidrMask: undefined` into a spec (`subnetDistributorNew.ts:447`), which
  then overwrites the default's mask in the merge (`:238`), against "preserves default cidr
  sizing when merging onto concrete defaults" (`subnetDistributorNew.test.ts:467`).
- A /31 or /32 with the size of another mask passes (`subnetDistributorNew.ts:438`): "Ensure any
  specified, netmask, size or blocks are in agreement." (`:328`).
- A spec named "public" beside an unnamed public one gives one resource name twice (`:359`),
  which "unique "name" properties to avoid duplicate resource names" (`:362`) should rule out.
- Exact does not check for gaps when the range comes from IPAM (`vpc.ts:550`): "Whole range of
  VPC must be accounted for" (`provider/pkg/schemagen/ec2.go:515`).
- With an unknown range the NAT strategy is checked after the loop that relies on it
  (`vpc.ts:332`): "Because we've already validated the strategy" (`:330`).
- Three Legacy specs of one type and mixed sizes can overlap (`subnetDistributorLegacy.ts:90`):
  "two strategies to maintain compatibility while fixing overlapping subnets" (`:39`).
- "The current subnet layout can be specified via "Auto" as" (`vpc.ts:647`) fails for layouts
  whose blocks do not ascend (`:933`), for the default layout, whose list is not zone by zone
  ("they're all the same pattern", `:916`, `:918`), and for several Unused specs, printed
  unnamed (`:926`), of which normalisation accepts one (`subnetDistributorNew.ts:359`).

Services and balancers (`awsx/ecs/`, `awsx/lb/`, helpers):
- A given cpu is paired with a memory computed without it (`fargateTaskDefinition.ts:146`), a
  pair that need not be among the "Supported task CPU and memory values"
  (`fargateMemoryAndCpu.ts:34`).
- "Get default port if there's just 1 listener" (`applicationLoadBalancer.ts:198`): the code takes
  the first of several and none of just one (`:204`).
- With a listener that has a port or protocol (`applicationLoadBalancer.ts:213`), or a list of
  exactly one (`:204`), `defaultTargetGroupPort` is ignored: "Port to use to connect with the
  target." (`provider/pkg/schemagen/lb.go:82`). `EndpointsAgree` asks for it everywhere else,
  and not that group and listener agree where a listener's own port or protocol displaces it.
- A mapping with a target group and a container port of its own serves the group's port,
  which the container then does not expose (`containers.ts:158`).
- The ARN made from a bucket's name lacks the service (`s3/bucket.ts:79`), so the bucket's
  policy is about nothing.
- The role to write logs is skipped when the log group is an existing one
  (`cloudtrail/trail.ts:56`).

awsx-classic:
- A block starts where the last one ended, without alignment (`ec2/vpcTopology.ts:202`); lists
  whose sizes grow overlap, against "each subnet has a distinct block" (`ec2/vpc.ts:592`).
- A gateway is filed under the zone it was made for, not the one it stands in
  (`ec2/vpcTopology.ts:422`): the private subnets of a zone in which another zone borrowed a
  public subnet go round-robin, against "Private subnets in an availability zone that
  contains a nat gateway will route through that gateway." (`ec2/vpc.ts:734`).
- "A [Dashboard] can include up to 100 widgets." (`cloudwatch/dashboard.ts:81`); the code counts
  top-level ones only (`:112`). "If any of these are [RowWidgets] this will be treated as a
  sequence of rows." (`:69`); mixed lists throw (`:120`).
- A `SpaceWidget` takes any size (`cloudwatch/widgets_simple.ts:164`), of which its argument says
  "Valid Values: 1–24" (`:32`); a negative one makes its neighbours overlap (not modelled).
- `apigateway/api.ts`: additional routes' paths are not given the leading "/" the docs promise
  (`:135`; only `:763` does it); a named authorizer shared by a route and an additional one
  throws, since the apply sees a copy (`:948`); an authorizer called "api_key" is dropped after a
  route that requires a key; a directory's index replaces the whole path (`:1171`), with the
  handlers given for it, whose functions and permissions remain; the stage does not wait for
  bucket objects or for what is attached to their roles (`:654`); two handlers on one path and
  method register one resource name twice.

## Not modelled

The default VPC (`ec2/getDefaultVpc.ts`) is one lookup; its one consequence, with or without
private subnets, is in `EcsService`. ECR parses a token and writes a policy out in the
order of its rules. `index.ts` and `resources.ts` are tables from type tokens to
constructors. Tag strategies (`subnetNaming.ts`) and `TargetGroupAttachment`, a choice among three
arguments, have no state. Of awsx-classic, the wrappers of ECS, load balancers, security
groups and auto scaling groups rename arguments, and the metrics modules are constants;
IPv6 numbering and endpoints of its VPC, the content of widgets and API operations, and
usage plans are left out of the modules that model the rest. `provider/`, `sdk/` (most of the
repository's lines, generated or copied from the above) and the generator scripts have
no behaviour of their own at run time.

Simplifications to know of: `SubnetLayout` has no Legacy branch (`LayoutConversion` has it);
in `VpcNetwork` zones have distinct names and all have the same specs; Legacy's VPC is
aligned and called without a zone mask, as `Vpc` calls it; values in `StepScaling` are
integers; names that only need to be distinct are model values.

## What is left

Larger parts of awsx-classic: usage plans and API keys, IPv6 and endpoints of the classic
VPC, the port mappings of `awsx-classic/ecs` on listeners and target groups.
