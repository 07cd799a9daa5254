------------------------- MODULE CreationFeeProofs -------------------------
(***************************************************************************)
(* For any number of pools, configs and addresses, any fees and any order  *)
(* of claims: every lamport charged is paid once, to its owner; no claim   *)
(* that is due is ever refused; an operator acts within its grant.         *)
(***************************************************************************)
EXTENDS CreationFees, TLAPS

\* The books of a pool account: what it holds and what it paid to its partner
\* and to the treasury is its rent, its donations and what was charged for it.
\* With ChargedFeesPaidOnce this is why it can always pay what it owes.
Charged(p) ==
    config[pool[p].config].pool_creation_fee + (IF has_legacy_creation_fee(p) THEN LegacyFee ELSE 0)

LamportsBalance ==
    \A p \in DOMAIN pool :
        pool[p].lamports + paid[p][config[pool[p].config].fee_claimer] + paid[p][Treasury]
            = RentMinimum + Charged(p) + donated[p]

\* A pool that does not exist has paid nothing and was sent nothing.
Untouched ==
    \A p \in Pools \ DOMAIN pool :
        /\ donated[p] = 0
        /\ \A a \in Addresses \cup {Treasury} : paid[p][a] = 0

\* The permission mask of an operator says what the admin granted.
MaskMeansGrant ==
    \A a \in Addresses : operator[a] = encodePermissions(granted[a])

CreationInv ==
    /\ CreationFeesTypeOK
    /\ ChargedFeesPaidOnce
    /\ LamportsBalance
    /\ Untouched
    /\ MaskMeansGrant
    /\ OperatorsActWithinGrants

-----------------------------------------------------------------------------

\* The two shares of a fee are natural numbers that add up to it.
LEMMA SharesAddUp ==
    ASSUME NEW c \in ConfigKeys,
           config \in [ConfigKeys -> [pool_creation_fee : Nat, fee_claimer : Addresses]]
    PROVE  /\ split_pool_creation_fee(c).protocol \in Nat
           /\ split_pool_creation_fee(c).partner \in Nat
           /\ split_pool_creation_fee(c).protocol + split_pool_creation_fee(c).partner
                = config[c].pool_creation_fee
<1> DEFINE fee == config[c].pool_creation_fee
<1>1. fee \in Nat
  OBVIOUS
<1>2. /\ (fee * 10) \div 100 \in Nat
      /\ (fee * 10) \div 100 <= fee
  BY <1>1
<1> QED
  BY <1>1, <1>2 DEF split_pool_creation_fee, PROTOCOL_POOL_CREATION_FEE_PERCENT

\* A mask that encodes a set of permissions allows exactly those.
LEMMA MaskAllows ==
    ASSUME NEW a \in Addresses, NEW permission \in OperatorPermission,
           granted[a] \subseteq OperatorPermission,
           operator[a] = encodePermissions(granted[a]),
           is_permission_allow(a, permission)
    PROVE  permission \in granted[a]
<1>1. CASE permission = "ClaimProtocolFee"
  <2> SUFFICES ASSUME permission \notin granted[a] PROVE FALSE
    OBVIOUS
  <2>1. operator[a] \in {0, 2}
    BY <1>1 DEF encodePermissions
  <2>2. (operator[a] \div 1) % 2 = 1
    BY <1>1 DEF is_permission_allow, PermissionMask
  <2> QED
    BY <2>1, <2>2
<1>2. CASE permission = "ZapProtocolFee"
  <2> SUFFICES ASSUME permission \notin granted[a] PROVE FALSE
    OBVIOUS
  <2>1. operator[a] \in {0, 1}
    BY <1>2 DEF encodePermissions
  <2>2. (operator[a] \div 2) % 2 = 1
    BY <1>2 DEF is_permission_allow, PermissionMask
  <2> QED
    BY <2>1, <2>2
<1> QED
  BY <1>1, <1>2 DEF OperatorPermission

-----------------------------------------------------------------------------

LEMMA CreationInitInv == CreationInit => CreationInv
<1> SUFFICES ASSUME CreationInit PROVE CreationInv
  OBVIOUS
<1> USE CreationFeesAssumption
<1>0. config \in [ConfigKeys -> [pool_creation_fee : Nat, fee_claimer : Addresses]]
  BY DEF CreationInit
<1>a. PICK old \in SUBSET Pools :
        \E key \in [old -> ConfigKeys], bits \in [old -> {{"charged"}, {"charged", "claimed"}}] :
            /\ pool = [p \in old |-> LegacyPool(key[p], bits[p])]
            /\ paid = [p \in Pools |->
                         [a \in Addresses \cup {Treasury} |->
                            IF a = Treasury /\ p \in old /\ "claimed" \in bits[p] THEN LegacyFee ELSE 0]]
  BY DEF CreationInit
<1>1. PICK key \in [old -> ConfigKeys], bits \in [old -> {{"charged"}, {"charged", "claimed"}}] :
        /\ pool = [p \in old |-> LegacyPool(key[p], bits[p])]
        /\ paid = [p \in Pools |->
                     [a \in Addresses \cup {Treasury} |->
                        IF a = Treasury /\ p \in old /\ "claimed" \in bits[p] THEN LegacyFee ELSE 0]]
  BY <1>a
<1>2. /\ operator = [a \in Addresses |-> 0]
      /\ donated = [p \in Pools |-> 0]
      /\ granted = [a \in Addresses |-> {}]
      /\ acted = {}
  BY DEF CreationInit
<1>3. \A p \in old :
         /\ pool[p].config = key[p]
         /\ pool[p].creation_fee_bits = {}
         /\ pool[p].legacy_creation_fee_bits = bits[p]
         /\ pool[p].lamports = RentMinimum + config[key[p]].pool_creation_fee
                                 + (IF "claimed" \in bits[p] THEN 0 ELSE LegacyFee)
  BY <1>1 DEF LegacyPool
<1>b. \A p \in old :
         /\ key[p] \in ConfigKeys
         /\ bits[p] \in {{"charged"}, {"charged", "claimed"}}
         /\ config[key[p]].pool_creation_fee \in Nat
         /\ config[key[p]].fee_claimer \in Addresses
  BY <1>0
<1>c. \A p \in old :
         /\ \A a \in Addresses : paid[p][a] = 0
         /\ paid[p][Treasury] = IF "claimed" \in bits[p] THEN LegacyFee ELSE 0
  BY <1>1
<1>4. CreationFeesTypeOK
  <2>1. pool \in [old -> [config : ConfigKeys, creation_fee_bits : SUBSET {"partner", "protocol"},
                          legacy_creation_fee_bits : SUBSET {"charged", "claimed"}, lamports : Nat]]
    <3> SUFFICES ASSUME NEW p \in old
                 PROVE  LegacyPool(key[p], bits[p])
                          \in [config : ConfigKeys, creation_fee_bits : SUBSET {"partner", "protocol"},
                               legacy_creation_fee_bits : SUBSET {"charged", "claimed"}, lamports : Nat]
      BY <1>1
    <3>1. RentMinimum + config[key[p]].pool_creation_fee
             + (IF "claimed" \in bits[p] THEN 0 ELSE LegacyFee) \in Nat
      BY <1>b
    <3>2. bits[p] \in SUBSET {"charged", "claimed"}
      BY <1>b
    <3> QED
      BY <1>b, <3>1, <3>2 DEF LegacyPool
  <2>2. paid \in [Pools -> [Addresses \cup {Treasury} -> Nat]]
    BY <1>1
  <2> QED
    BY <1>0, <1>1, <1>2, <2>1, <2>2 DEF CreationFeesTypeOK
<1>5. ChargedFeesPaidOnce
  <2> SUFFICES ASSUME NEW p \in old
               PROVE  /\ paid[p][config[pool[p].config].fee_claimer] + OwedToPartner(p)
                            = split_pool_creation_fee(pool[p].config).partner
                      /\ paid[p][Treasury] + OwedToProtocol(p)
                            = split_pool_creation_fee(pool[p].config).protocol
                                + (IF has_legacy_creation_fee(p) THEN LegacyFee ELSE 0)
                      /\ \A a \in Addresses \ {config[pool[p].config].fee_claimer} : paid[p][a] = 0
    BY <1>1 DEF ChargedFeesPaidOnce
  <2> DEFINE s == split_pool_creation_fee(key[p])
  <2>1. s.protocol \in Nat /\ s.partner \in Nat
    BY <1>0, <1>b, SharesAddUp
  <2>2. /\ pool[p].config = key[p]
        /\ pool[p].creation_fee_bits = {}
        /\ pool[p].legacy_creation_fee_bits = bits[p]
    BY <1>3
  <2>3. /\ has_legacy_creation_fee(p)
        /\ eligible_to_claim_legacy_creation_fee(p) <=> "claimed" \notin bits[p]
        /\ eligible_to_claim(p, "partner") /\ eligible_to_claim(p, "protocol")
    BY <1>b, <2>2 DEF has_legacy_creation_fee, eligible_to_claim_legacy_creation_fee, eligible_to_claim
  <2>4. /\ paid[p][config[key[p]].fee_claimer] = 0
        /\ paid[p][Treasury] = IF "claimed" \in bits[p] THEN LegacyFee ELSE 0
        /\ \A a \in Addresses : paid[p][a] = 0
    BY <1>b, <1>c
  <2>5. OwedToPartner(p) = s.partner
    BY <2>2, <2>3 DEF OwedToPartner
  <2>6. OwedToProtocol(p) = s.protocol + (IF "claimed" \in bits[p] THEN 0 ELSE LegacyFee)
    BY <2>2, <2>3 DEF OwedToProtocol
  <2> HIDE DEF s
  <2>7. paid[p][Treasury] + OwedToProtocol(p) = s.protocol + LegacyFee
    BY <2>1, <2>4, <2>6
  <2>8. paid[p][config[key[p]].fee_claimer] + OwedToPartner(p) = s.partner
    BY <2>1, <2>4, <2>5
  <2> QED
    BY <2>2, <2>3, <2>4, <2>7, <2>8 DEF s
<1>6. LamportsBalance
  <2> SUFFICES ASSUME NEW p \in old
               PROVE  pool[p].lamports + paid[p][config[pool[p].config].fee_claimer] + paid[p][Treasury]
                        = RentMinimum + Charged(p) + donated[p]
    BY <1>1 DEF LamportsBalance
  <2>1. /\ pool[p].config = key[p]
        /\ has_legacy_creation_fee(p)
        /\ pool[p].lamports = RentMinimum + config[key[p]].pool_creation_fee
                                + (IF "claimed" \in bits[p] THEN 0 ELSE LegacyFee)
    BY <1>3, <1>b DEF has_legacy_creation_fee
  <2>2. /\ paid[p][config[key[p]].fee_claimer] = 0
        /\ paid[p][Treasury] = IF "claimed" \in bits[p] THEN LegacyFee ELSE 0
        /\ donated[p] = 0
    BY <1>2, <1>b, <1>c
  <2> QED
    BY <1>b, <2>1, <2>2 DEF Charged
<1>7. Untouched
  BY <1>1, <1>2 DEF Untouched
<1>8. MaskMeansGrant /\ OperatorsActWithinGrants
  BY <1>2 DEF MaskMeansGrant, OperatorsActWithinGrants, encodePermissions
<1> QED
  BY <1>4, <1>5, <1>6, <1>7, <1>8 DEF CreationInv

-----------------------------------------------------------------------------

\* What the invariant says of one pool's lamports.
PoolBooks(p) ==
    /\ paid[p][config[pool[p].config].fee_claimer] + OwedToPartner(p)
          = split_pool_creation_fee(pool[p].config).partner
    /\ paid[p][Treasury] + OwedToProtocol(p)
          = split_pool_creation_fee(pool[p].config).protocol
              + (IF has_legacy_creation_fee(p) THEN LegacyFee ELSE 0)
    /\ \A a \in Addresses \ {config[pool[p].config].fee_claimer} : paid[p][a] = 0
    /\ pool[p].lamports + paid[p][config[pool[p].config].fee_claimer] + paid[p][Treasury]
          = RentMinimum + Charged(p) + donated[p]

LEMMA BooksPerPool ==
    ChargedFeesPaidOnce /\ LamportsBalance <=> \A p \in DOMAIN pool : PoolBooks(p)
BY DEF ChargedFeesPaidOnce, LamportsBalance, PoolBooks

LEMMA BooksPerPoolPrime ==
    (ChargedFeesPaidOnce /\ LamportsBalance)' <=> \A p \in DOMAIN pool' : PoolBooks(p)'
BY DEF ChargedFeesPaidOnce, LamportsBalance, PoolBooks

\* A step that does not touch a pool keeps its books.
LEMMA UntouchedPoolKeepsBooks ==
    ASSUME NEW p, config' = config, pool'[p] = pool[p], paid'[p] = paid[p], donated'[p] = donated[p],
           PoolBooks(p)
    PROVE  PoolBooks(p)'
BY DEF PoolBooks, Charged, OwedToPartner, OwedToProtocol, eligible_to_claim, has_legacy_creation_fee,
       eligible_to_claim_legacy_creation_fee, split_pool_creation_fee

LEMMA AllBooksKept ==
    ASSUME ChargedFeesPaidOnce, LamportsBalance, UNCHANGED <<config, pool, donated, paid>>
    PROVE  (ChargedFeesPaidOnce /\ LamportsBalance)'
<1>1. \A p \in DOMAIN pool : PoolBooks(p)
  BY BooksPerPool
<1>2. ASSUME NEW p \in DOMAIN pool'
      PROVE  PoolBooks(p)'
  BY <1>1, UntouchedPoolKeepsBooks
<1> QED
  BY <1>2, BooksPerPoolPrime

\* The operator table means what was granted, and is used within it, through
\* any step that leaves it alone.
LEMMA OperatorsKept ==
    ASSUME MaskMeansGrant, OperatorsActWithinGrants, UNCHANGED <<operator, granted, acted>>
    PROVE  MaskMeansGrant' /\ OperatorsActWithinGrants'
BY DEF MaskMeansGrant, OperatorsActWithinGrants

\* The same for a step in which an operator uses a permission.
LEMMA OperatorUsed ==
    ASSUME CreationInv, NEW o \in Addresses, NEW signer \in Addresses, NEW permission \in OperatorPermission,
           is_valid_operator_role(o, signer, permission),
           acted' = acted \cup {<<signer, permission>>},
           UNCHANGED <<operator, granted>>
    PROVE  /\ MaskMeansGrant'
           /\ OperatorsActWithinGrants'
           /\ acted' \subseteq Addresses \X OperatorPermission
<1>1. permission \in granted[signer]
  <2>1. granted[signer] \subseteq OperatorPermission
    BY DEF CreationInv, CreationFeesTypeOK
  <2>2. operator[signer] = encodePermissions(granted[signer])
    BY DEF CreationInv, MaskMeansGrant
  <2>3. is_permission_allow(signer, permission)
    BY DEF is_valid_operator_role
  <2> QED
    BY <2>1, <2>2, <2>3, MaskAllows
<1>2. MaskMeansGrant'
  BY DEF CreationInv, MaskMeansGrant
<1>3. OperatorsActWithinGrants'
  BY <1>1 DEF CreationInv, OperatorsActWithinGrants
<1>4. acted' \subseteq Addresses \X OperatorPermission
  BY DEF CreationInv, CreationFeesTypeOK
<1> QED
  BY <1>2, <1>3, <1>4

-----------------------------------------------------------------------------

LEMMA CreateOperatorStep ==
    ASSUME CreationInv, NEW a \in Addresses, NEW permissions \in SUBSET OperatorPermission,
           CreateOperatorAccount(a, permissions)
    PROVE  CreationInv'
<1>1. UNCHANGED <<config, pool, donated, paid>>
  BY DEF CreateOperatorAccount
<1>2. /\ operator' = [operator EXCEPT ![a] = encodePermissions(permissions)]
      /\ granted' = [granted EXCEPT ![a] = permissions]
      /\ acted' = {}
  BY DEF CreateOperatorAccount
<1>3. encodePermissions(permissions) \in 0 .. 3
  BY DEF encodePermissions
<1>4. CreationFeesTypeOK'
  BY <1>1, <1>2, <1>3 DEF CreationInv, CreationFeesTypeOK
<1>5. (ChargedFeesPaidOnce /\ LamportsBalance)'
  BY <1>1, AllBooksKept DEF CreationInv
<1>6. Untouched'
  BY <1>1 DEF CreationInv, Untouched
<1>7. MaskMeansGrant'
  BY <1>2 DEF CreationInv, CreationFeesTypeOK, MaskMeansGrant
<1>8. OperatorsActWithinGrants'
  BY <1>2 DEF OperatorsActWithinGrants
<1> QED
  BY <1>4, <1>5, <1>6, <1>7, <1>8 DEF CreationInv

LEMMA CloseOperatorStep ==
    ASSUME CreationInv, NEW a \in Addresses, CloseOperatorAccount(a)
    PROVE  CreationInv'
<1>1. UNCHANGED <<config, pool, donated, paid>>
  BY DEF CloseOperatorAccount
<1>2. /\ operator' = [operator EXCEPT ![a] = 0]
      /\ granted' = [granted EXCEPT ![a] = {}]
      /\ acted' = {}
  BY DEF CloseOperatorAccount
<1>3. 0 \in 0 .. 3 /\ {} \in SUBSET OperatorPermission
  OBVIOUS
<1>4. CreationFeesTypeOK'
  <2>1. operator' \in [Addresses -> 0 .. 3]
    BY <1>2, <1>3 DEF CreationInv, CreationFeesTypeOK
  <2>2. granted' \in [Addresses -> SUBSET OperatorPermission]
    BY <1>2, <1>3 DEF CreationInv, CreationFeesTypeOK
  <2> QED
    BY <1>1, <1>2, <2>1, <2>2 DEF CreationInv, CreationFeesTypeOK
<1>5. (ChargedFeesPaidOnce /\ LamportsBalance)'
  BY <1>1, AllBooksKept DEF CreationInv
<1>6. Untouched'
  BY <1>1 DEF CreationInv, Untouched
<1>7. MaskMeansGrant'
  <2>1. encodePermissions({}) = 0
    BY DEF encodePermissions
  <2> QED
    BY <1>2, <2>1 DEF CreationInv, CreationFeesTypeOK, MaskMeansGrant
<1>8. OperatorsActWithinGrants'
  BY <1>2 DEF OperatorsActWithinGrants
<1> QED
  BY <1>4, <1>5, <1>6, <1>7, <1>8 DEF CreationInv

LEMMA UseOperatorStep ==
    ASSUME CreationInv, NEW o \in Addresses, NEW signer \in Addresses, NEW permission \in OperatorPermission,
           UseOperator(o, signer, permission)
    PROVE  CreationInv'
<1>1. UNCHANGED <<config, pool, operator, donated, paid, granted>>
  BY DEF UseOperator
<1>2. /\ MaskMeansGrant'
      /\ OperatorsActWithinGrants'
      /\ acted' \subseteq Addresses \X OperatorPermission
  BY <1>1, OperatorUsed DEF UseOperator
<1>3. CreationFeesTypeOK'
  BY <1>1, <1>2 DEF CreationInv, CreationFeesTypeOK
<1>4. (ChargedFeesPaidOnce /\ LamportsBalance)'
  BY <1>1, AllBooksKept DEF CreationInv
<1>5. Untouched'
  BY <1>1 DEF CreationInv, Untouched
<1> QED
  BY <1>2, <1>3, <1>4, <1>5 DEF CreationInv

-----------------------------------------------------------------------------

LEMMA InitializeStep ==
    ASSUME CreationInv, NEW p \in Pools, NEW c \in ConfigKeys, InitializePool(p, c)
    PROVE  CreationInv'
<1> USE CreationFeesAssumption
<1>1. /\ p \notin DOMAIN pool
      /\ UNCHANGED <<config, operator, donated, paid, granted, acted>>
      /\ DOMAIN pool' = DOMAIN pool \cup {p}
      /\ pool'[p] = [config |-> c, creation_fee_bits |-> {}, legacy_creation_fee_bits |-> {},
                     lamports |-> RentMinimum + config[c].pool_creation_fee]
      /\ \A q \in DOMAIN pool : pool'[q] = pool[q]
  BY DEF InitializePool
<1>2. config[c].pool_creation_fee \in Nat /\ config[c].fee_claimer \in Addresses
  BY DEF CreationInv, CreationFeesTypeOK
<1>3. CreationFeesTypeOK'
  <2> DEFINE R == [config : ConfigKeys, creation_fee_bits : SUBSET {"partner", "protocol"},
                   legacy_creation_fee_bits : SUBSET {"charged", "claimed"}, lamports : Nat]
  <2>1. pool'[p] \in R
    BY <1>1, <1>2
  <2>2. pool \in [DOMAIN pool -> R] /\ DOMAIN pool \subseteq Pools
    BY DEF CreationInv, CreationFeesTypeOK
  <2>3. pool' \in [DOMAIN pool' -> R]
    <3> HIDE DEF R
    <3>1. pool' = [q \in DOMAIN pool \cup {p} |-> pool'[q]]
      BY DEF InitializePool
    <3> QED
      BY <1>1, <2>1, <2>2, <3>1
  <2> QED
    BY <1>1, <2>2, <2>3 DEF CreationInv, CreationFeesTypeOK
<1>4. (ChargedFeesPaidOnce /\ LamportsBalance)'
  <2> SUFFICES ASSUME NEW q \in DOMAIN pool' PROVE PoolBooks(q)'
    BY BooksPerPoolPrime
  <2>1. CASE q # p
    <3>1. PoolBooks(q)
      BY <1>1, <2>1, BooksPerPool DEF CreationInv
    <3> QED
      BY <1>1, <2>1, <3>1, UntouchedPoolKeepsBooks
  <2>2. CASE q = p
    <3>1. /\ pool'[p].config = c
          /\ pool'[p].creation_fee_bits = {}
          /\ pool'[p].legacy_creation_fee_bits = {}
          /\ pool'[p].lamports = RentMinimum + config[c].pool_creation_fee
          /\ config' = config
      BY <1>1
    <3>2. /\ donated'[p] = 0
          /\ \A a \in Addresses \cup {Treasury} : paid'[p][a] = 0
      BY <1>1 DEF CreationInv, Untouched
    <3> DEFINE s == split_pool_creation_fee(c)
    <3>3. s.protocol \in Nat /\ s.partner \in Nat
      BY SharesAddUp DEF CreationInv, CreationFeesTypeOK
    <3>4. /\ split_pool_creation_fee(c)' = s
          /\ OwedToPartner(p)' = s.partner
          /\ OwedToProtocol(p)' = s.protocol + 0
          /\ ~ has_legacy_creation_fee(p)'
          /\ Charged(p)' = config[c].pool_creation_fee + 0
      BY <3>1 DEF OwedToPartner, OwedToProtocol, eligible_to_claim, has_legacy_creation_fee, Charged,
                  split_pool_creation_fee
    <3> HIDE DEF s
    <3>5. split_pool_creation_fee(pool[p].config)' = s
      BY <3>1, <3>4 DEF split_pool_creation_fee
    <3> QED
      BY <1>2, <2>2, <3>1, <3>2, <3>3, <3>4, <3>5 DEF PoolBooks
  <2> QED
    BY <2>1, <2>2
<1>5. Untouched'
  BY <1>1 DEF CreationInv, Untouched
<1>6. MaskMeansGrant' /\ OperatorsActWithinGrants'
  BY <1>1, OperatorsKept DEF CreationInv
<1> QED
  BY <1>3, <1>4, <1>5, <1>6 DEF CreationInv

LEMMA DonateStep ==
    ASSUME CreationInv, NEW p \in Pools, Donate(p)
    PROVE  CreationInv'
<1> USE CreationFeesAssumption
<1>1. /\ p \in DOMAIN pool
      /\ donated[p] < MaxDonated
      /\ donated' = [donated EXCEPT ![p] = donated[p] + 1]
      /\ pool' = [pool EXCEPT ![p].lamports = pool[p].lamports + 1]
      /\ UNCHANGED <<config, operator, paid, granted, acted>>
  BY DEF Donate
<1> DEFINE R == [config : ConfigKeys, creation_fee_bits : SUBSET {"partner", "protocol"},
                 legacy_creation_fee_bits : SUBSET {"charged", "claimed"}, lamports : Nat]
<1>2. /\ pool \in [DOMAIN pool -> R]
      /\ DOMAIN pool \subseteq Pools
      /\ pool[p] \in R
      /\ donated \in [Pools -> 0 .. MaxDonated]
  BY <1>1 DEF CreationInv, CreationFeesTypeOK
<1>3. /\ DOMAIN pool' = DOMAIN pool
      /\ \A q \in DOMAIN pool \ {p} : pool'[q] = pool[q] /\ donated'[q] = donated[q]
      /\ pool'[p] = [pool[p] EXCEPT !.lamports = pool[p].lamports + 1]
      /\ donated'[p] = donated[p] + 1
  BY <1>1, <1>2
<1>4. CreationFeesTypeOK'
  <2>1. pool'[p] \in R
    BY <1>2, <1>3
  <2>2. pool' \in [DOMAIN pool -> R]
    BY <1>1, <1>2, <2>1
  <2>3. donated' \in [Pools -> 0 .. MaxDonated]
    BY <1>1, <1>2
  <2> QED
    BY <1>1, <1>3, <2>2, <2>3 DEF CreationInv, CreationFeesTypeOK
<1>5. (ChargedFeesPaidOnce /\ LamportsBalance)'
  <2> SUFFICES ASSUME NEW q \in DOMAIN pool' PROVE PoolBooks(q)'
    BY BooksPerPoolPrime
  <2>0. PoolBooks(q) /\ paid'[q] = paid[q] /\ config' = config
    BY <1>1, <1>3, BooksPerPool DEF CreationInv
  <2>1. CASE q # p
    BY <1>3, <2>0, <2>1, UntouchedPoolKeepsBooks
  <2>2. CASE q = p
    <3>1. /\ pool'[p].config = pool[p].config
          /\ pool'[p].creation_fee_bits = pool[p].creation_fee_bits
          /\ pool'[p].legacy_creation_fee_bits = pool[p].legacy_creation_fee_bits
          /\ pool'[p].lamports = pool[p].lamports + 1
          /\ pool[p].lamports \in Nat /\ pool[p].config \in ConfigKeys
      BY <1>2, <1>3
    <3>2. /\ split_pool_creation_fee(pool[p].config)' = split_pool_creation_fee(pool[p].config)
          /\ OwedToPartner(p)' = OwedToPartner(p)
          /\ OwedToProtocol(p)' = OwedToProtocol(p)
          /\ has_legacy_creation_fee(p)' = has_legacy_creation_fee(p)
          /\ Charged(p)' = Charged(p)
      BY <2>0, <3>1 DEF OwedToPartner, OwedToProtocol, eligible_to_claim, has_legacy_creation_fee, Charged,
            eligible_to_claim_legacy_creation_fee, split_pool_creation_fee
    <3>3. /\ config[pool[p].config].pool_creation_fee \in Nat
          /\ config[pool[p].config].fee_claimer \in Addresses
          /\ paid[p] \in [Addresses \cup {Treasury} -> Nat]
      BY <1>1, <1>2, <3>1 DEF CreationInv, CreationFeesTypeOK
    <3>4. Charged(p) \in Nat
      BY <3>3 DEF Charged
    <3>5. pool'[p].lamports + paid'[p][config'[pool'[p].config].fee_claimer] + paid'[p][Treasury]
             = RentMinimum + Charged(p)' + donated'[p]
      <4>1. pool[p].lamports + paid[p][config[pool[p].config].fee_claimer] + paid[p][Treasury]
             = RentMinimum + Charged(p) + donated[p]
        BY <2>0, <2>2 DEF PoolBooks
      <4>2. donated[p] \in Nat
        BY <1>1, <1>2
      <4> QED
        BY <1>3, <2>0, <2>2, <3>1, <3>2, <3>3, <3>4, <4>1, <4>2
    <3> QED
      BY <2>0, <2>2, <3>1, <3>2, <3>5 DEF PoolBooks
  <2> QED
    BY <2>1, <2>2
<1>6. Untouched'
  BY <1>1, <1>2, <1>3 DEF CreationInv, Untouched
<1>7. MaskMeansGrant' /\ OperatorsActWithinGrants'
  BY <1>1, OperatorsKept DEF CreationInv
<1> QED
  BY <1>4, <1>5, <1>6, <1>7 DEF CreationInv

-----------------------------------------------------------------------------

\* A payment of n lamports of pool p to one recipient, with new flags, keeps
\* the types, the books of every other pool, and the pools that do not exist.
LEMMA PaymentKeepsRest ==
    ASSUME CreationInv, NEW p \in DOMAIN pool, NEW to \in Addresses \cup {Treasury}, NEW n \in Nat,
           NEW fb \in SUBSET {"partner", "protocol"}, NEW lb \in SUBSET {"charged", "claimed"},
           n <= pool[p].lamports,
           pool' = [pool EXCEPT ![p] = [pool[p] EXCEPT !.creation_fee_bits = fb, !.legacy_creation_fee_bits = lb,
                                                       !.lamports = pool[p].lamports - n]],
           paid' = [paid EXCEPT ![p] = [paid[p] EXCEPT ![to] = paid[p][to] + n]],
           UNCHANGED <<config, donated>>,
           operator' = operator, granted' = granted,
           acted' \subseteq Addresses \X OperatorPermission,
           PoolBooks(p)'
    PROVE  CreationFeesTypeOK' /\ (ChargedFeesPaidOnce /\ LamportsBalance)' /\ Untouched'
<1> USE CreationFeesAssumption
<1> DEFINE R == [config : ConfigKeys, creation_fee_bits : SUBSET {"partner", "protocol"},
                 legacy_creation_fee_bits : SUBSET {"charged", "claimed"}, lamports : Nat]
<1> DEFINE P == [Addresses \cup {Treasury} -> Nat]
<1>1. /\ pool \in [DOMAIN pool -> R]
      /\ DOMAIN pool \subseteq Pools
      /\ pool[p] \in R
      /\ paid \in [Pools -> P]
      /\ paid[p] \in P
  BY DEF CreationInv, CreationFeesTypeOK
<1>2. [pool[p] EXCEPT !.creation_fee_bits = fb, !.legacy_creation_fee_bits = lb,
                      !.lamports = pool[p].lamports - n] \in R
  <2>1. pool[p].lamports - n \in Nat
    BY <1>1
  <2> QED
    BY <1>1, <2>1
<1>3. [paid[p] EXCEPT ![to] = paid[p][to] + n] \in P
  BY <1>1
<1>4. CreationFeesTypeOK'
  <2>1. pool' \in [DOMAIN pool -> R] /\ DOMAIN pool' = DOMAIN pool
    <3> HIDE DEF R
    <3> QED
      BY <1>1, <1>2
  <2>2. paid' \in [Pools -> P]
    <3> HIDE DEF P
    <3> QED
      BY <1>1, <1>3
  <2> QED
    BY <1>1, <2>1, <2>2 DEF CreationInv, CreationFeesTypeOK
<1>5. (ChargedFeesPaidOnce /\ LamportsBalance)'
  <2> SUFFICES ASSUME NEW q \in DOMAIN pool' PROVE PoolBooks(q)'
    BY BooksPerPoolPrime
  <2>1. q \in DOMAIN pool /\ PoolBooks(q)
    BY <1>1, BooksPerPool DEF CreationInv
  <2>2. CASE q # p
    <3>1. pool'[q] = pool[q] /\ paid'[q] = paid[q] /\ donated'[q] = donated[q] /\ config' = config
      BY <1>1, <2>1, <2>2
    <3> QED
      BY <2>1, <3>1, UntouchedPoolKeepsBooks
  <2> QED
    BY <2>2
<1>6. Untouched'
  BY <1>1 DEF CreationInv, Untouched
<1> QED
  BY <1>4, <1>5, <1>6

LEMMA ClaimPartnerStep ==
    ASSUME CreationInv, NEW p \in Pools, NEW c \in ConfigKeys, NEW signer \in Addresses,
           ClaimPartnerPoolCreationFee(p, c, signer)
    PROVE  CreationInv'
<1> USE CreationFeesAssumption
<1> DEFINE s == split_pool_creation_fee(c)
<1> DEFINE fb == Flip(pool[p].creation_fee_bits, "partner")
<1> DEFINE lb == pool[p].legacy_creation_fee_bits
<1>1. /\ p \in DOMAIN pool
      /\ config[c].fee_claimer = signer
      /\ pool[p].config = c
      /\ "partner" \notin pool[p].creation_fee_bits
      /\ pool[p].lamports - s.partner >= RentMinimum
      /\ UNCHANGED <<config, operator, donated, granted, acted>>
  BY DEF ClaimPartnerPoolCreationFee, PayFromPool, eligible_to_claim
<1>2. /\ pool[p].creation_fee_bits \in SUBSET {"partner", "protocol"}
      /\ lb \in SUBSET {"charged", "claimed"}
      /\ pool[p].lamports \in Nat
      /\ paid[p] \in [Addresses \cup {Treasury} -> Nat]
      /\ config[c].pool_creation_fee \in Nat
      /\ pool[p] \in [config : ConfigKeys, creation_fee_bits : SUBSET {"partner", "protocol"},
                       legacy_creation_fee_bits : SUBSET {"charged", "claimed"}, lamports : Nat]
  BY <1>1 DEF CreationInv, CreationFeesTypeOK
<1>3. s.partner \in Nat /\ s.protocol \in Nat
  BY SharesAddUp DEF CreationInv, CreationFeesTypeOK
<1>4. /\ fb \in SUBSET {"partner", "protocol"}
      /\ "partner" \in fb
      /\ "protocol" \in fb <=> "protocol" \in pool[p].creation_fee_bits
  BY <1>1, <1>2 DEF Flip
<1> HIDE DEF fb, s
<1>5. /\ pool' = [pool EXCEPT ![p] = [pool[p] EXCEPT !.creation_fee_bits = fb, !.legacy_creation_fee_bits = lb,
                                                     !.lamports = pool[p].lamports - s.partner]]
      /\ paid' = [paid EXCEPT ![p] = [paid[p] EXCEPT ![signer] = paid[p][signer] + s.partner]]
  <2>1. PayFromPool(p, fb, lb, signer, s.partner)
    BY DEF ClaimPartnerPoolCreationFee, fb, s
  <2> QED
    BY <2>1 DEF PayFromPool
<1>6. PoolBooks(p)'
  <2>0. PoolBooks(p)
    BY <1>1, BooksPerPool DEF CreationInv
  <2>1. /\ pool'[p].config = c
        /\ pool'[p].creation_fee_bits = fb
        /\ pool'[p].legacy_creation_fee_bits = lb
        /\ pool'[p].lamports = pool[p].lamports - s.partner
        /\ config' = config /\ donated' = donated
    <3>1. pool'[p] = [pool[p] EXCEPT !.creation_fee_bits = fb, !.legacy_creation_fee_bits = lb,
                                     !.lamports = pool[p].lamports - s.partner]
      BY <1>1, <1>5
    <3> QED
      BY <1>1, <1>2, <3>1
  <2>2. /\ paid'[p][signer] = paid[p][signer] + s.partner
        /\ \A a \in (Addresses \cup {Treasury}) \ {signer} : paid'[p][a] = paid[p][a]
        /\ signer # Treasury
    <3>1. p \in DOMAIN paid
      BY DEF CreationInv, CreationFeesTypeOK
    <3> QED
      BY <1>2, <1>5, <3>1
  <2>3. /\ split_pool_creation_fee(pool[p].config)' = s
        /\ OwedToPartner(p)' = 0
        /\ OwedToPartner(p) = s.partner
        /\ OwedToProtocol(p)' = OwedToProtocol(p)
        /\ has_legacy_creation_fee(p)' <=> has_legacy_creation_fee(p)
        /\ Charged(p)' = Charged(p)
    <3>1. split_pool_creation_fee(pool[p].config)' = s
      BY <2>1 DEF split_pool_creation_fee, s
    <3>2. OwedToPartner(p)' = 0 /\ OwedToPartner(p) = s.partner
      BY <1>1, <1>4, <2>1 DEF OwedToPartner, eligible_to_claim, s
    <3>3. /\ has_legacy_creation_fee(p)' <=> has_legacy_creation_fee(p)
          /\ eligible_to_claim_legacy_creation_fee(p)' <=> eligible_to_claim_legacy_creation_fee(p)
          /\ eligible_to_claim(p, "protocol")' <=> eligible_to_claim(p, "protocol")
      BY <1>4, <2>1 DEF eligible_to_claim, has_legacy_creation_fee, eligible_to_claim_legacy_creation_fee
    <3>4. Charged(p)' = Charged(p)
      BY <1>1, <2>1, <3>3 DEF Charged
    <3>5. OwedToProtocol(p)' = OwedToProtocol(p)
      BY <1>1, <3>1, <3>3 DEF OwedToProtocol, s
    <3> QED
      BY <3>1, <3>2, <3>3, <3>4, <3>5
  <2>4. /\ paid[p][signer] \in Nat /\ paid[p][Treasury] \in Nat
        /\ paid[p][signer] + s.partner = s.partner
        /\ paid[p][Treasury] + OwedToProtocol(p)
               = s.protocol + (IF has_legacy_creation_fee(p) THEN LegacyFee ELSE 0)
        /\ \A a \in Addresses \ {signer} : paid[p][a] = 0
        /\ pool[p].lamports + paid[p][signer] + paid[p][Treasury] = RentMinimum + Charged(p) + donated[p]
    <3>1. split_pool_creation_fee(pool[p].config) = s /\ config[pool[p].config].fee_claimer = signer
      BY <1>1 DEF s
    <3>2. paid[p][signer] \in Nat /\ paid[p][Treasury] \in Nat
      BY <1>2
    <3> QED
      BY <2>0, <2>3, <3>1, <3>2 DEF PoolBooks
  <2>5. paid'[p][signer] + OwedToPartner(p)' = s.partner
    BY <1>3, <2>2, <2>3, <2>4
  <2>6. pool'[p].lamports + paid'[p][signer] + paid'[p][Treasury] = RentMinimum + Charged(p)' + donated'[p]
    <3>1. paid'[p][Treasury] = paid[p][Treasury]
      BY <2>2
    <3>2. (pool[p].lamports - s.partner) + (paid[p][signer] + s.partner) + paid[p][Treasury]
            = pool[p].lamports + paid[p][signer] + paid[p][Treasury]
      BY <1>2, <1>3, <2>4
    <3> QED
      BY <2>1, <2>2, <2>3, <2>4, <3>1, <3>2
  <2>7. /\ paid'[p][Treasury] = paid[p][Treasury]
        /\ \A a \in Addresses \ {signer} : paid'[p][a] = 0
    BY <2>2, <2>4
  <2>8. config'[pool'[p].config].fee_claimer = signer
    BY <1>1, <2>1
  <2> QED
    BY <2>3, <2>4, <2>5, <2>6, <2>7, <2>8 DEF PoolBooks
<1>7. s.partner <= pool[p].lamports
  BY <1>1, <1>2, <1>3
<1>8. acted' \subseteq Addresses \X OperatorPermission
  BY <1>1 DEF CreationInv, CreationFeesTypeOK
<1>9. CreationFeesTypeOK' /\ (ChargedFeesPaidOnce /\ LamportsBalance)' /\ Untouched'
  BY <1>1, <1>2, <1>3, <1>4, <1>5, <1>6, <1>7, <1>8, PaymentKeepsRest
<1>10. MaskMeansGrant' /\ OperatorsActWithinGrants'
  BY <1>1, OperatorsKept DEF CreationInv
<1> QED
  BY <1>9, <1>10 DEF CreationInv

LEMMA ClaimProtocolStep ==
    ASSUME CreationInv, NEW p \in Pools, NEW c \in ConfigKeys, NEW o \in Addresses, NEW signer \in Addresses,
           ClaimProtocolPoolCreationFee(p, c, o, signer)
    PROVE  CreationInv'
<1> USE CreationFeesAssumption
<1> DEFINE s == split_pool_creation_fee(c)
<1> DEFINE protocol == eligible_to_claim(p, "protocol")
<1> DEFINE legacy == has_legacy_creation_fee(p) /\ eligible_to_claim_legacy_creation_fee(p)
<1> DEFINE fb == IF protocol THEN Flip(pool[p].creation_fee_bits, "protocol") ELSE pool[p].creation_fee_bits
<1> DEFINE lb == IF legacy THEN Flip(pool[p].legacy_creation_fee_bits, "claimed")
                           ELSE pool[p].legacy_creation_fee_bits
<1> DEFINE n == (IF protocol THEN s.protocol ELSE 0) + (IF legacy THEN LegacyFee ELSE 0)
<1>1. /\ p \in DOMAIN pool
      /\ is_valid_operator_role(o, signer, "ClaimProtocolFee")
      /\ pool[p].config = c
      /\ acted' = acted \cup {<<signer, "ClaimProtocolFee">>}
      /\ UNCHANGED <<config, operator, donated, granted>>
  BY DEF ClaimProtocolPoolCreationFee
<1>2. /\ pool[p].creation_fee_bits \in SUBSET {"partner", "protocol"}
      /\ pool[p].legacy_creation_fee_bits \in SUBSET {"charged", "claimed"}
      /\ pool[p].lamports \in Nat
      /\ paid[p] \in [Addresses \cup {Treasury} -> Nat]
      /\ config[c].pool_creation_fee \in Nat
      /\ config[c].fee_claimer \in Addresses
      /\ pool[p] \in [config : ConfigKeys, creation_fee_bits : SUBSET {"partner", "protocol"},
                       legacy_creation_fee_bits : SUBSET {"charged", "claimed"}, lamports : Nat]
  BY <1>1 DEF CreationInv, CreationFeesTypeOK
<1>3. s.partner \in Nat /\ s.protocol \in Nat
  BY SharesAddUp DEF CreationInv, CreationFeesTypeOK
<1>4. /\ fb \in SUBSET {"partner", "protocol"}
      /\ "protocol" \in fb
      /\ "partner" \in fb <=> "partner" \in pool[p].creation_fee_bits
  BY <1>2 DEF Flip, eligible_to_claim
<1>5. /\ lb \in SUBSET {"charged", "claimed"}
      /\ "charged" \in lb <=> "charged" \in pool[p].legacy_creation_fee_bits
      /\ "charged" \in lb => "claimed" \in lb
  BY <1>2 DEF Flip, has_legacy_creation_fee, eligible_to_claim_legacy_creation_fee
<1>6. n \in Nat
  <2> HIDE DEF s, protocol, legacy
  <2> QED
    BY <1>3
<1>7. OwedToProtocol(p) = n
  BY <1>1 DEF OwedToProtocol
<1>8. /\ pool' = [pool EXCEPT ![p] = [pool[p] EXCEPT !.creation_fee_bits = fb, !.legacy_creation_fee_bits = lb,
                                                     !.lamports = pool[p].lamports - n]]
      /\ paid' = [paid EXCEPT ![p] = [paid[p] EXCEPT ![Treasury] = paid[p][Treasury] + n]]
      /\ n <= pool[p].lamports
  <2>1. IF n > 0
        THEN PayFromPool(p, fb, lb, Treasury, n)
        ELSE /\ pool' = [pool EXCEPT ![p] = [pool[p] EXCEPT !.creation_fee_bits = fb, !.legacy_creation_fee_bits = lb]]
             /\ UNCHANGED paid
    BY DEF ClaimProtocolPoolCreationFee
  <2> HIDE DEF fb, lb, n
  <2>2. CASE n > 0
    BY <1>2, <1>6, <2>1, <2>2 DEF PayFromPool
  <2>3. CASE ~ (n > 0)
    <3>1. n = 0 /\ pool[p].lamports - n = pool[p].lamports /\ n <= pool[p].lamports
      BY <1>2, <1>6, <2>3
    <3>2. [pool[p] EXCEPT !.creation_fee_bits = fb, !.legacy_creation_fee_bits = lb]
            = [pool[p] EXCEPT !.creation_fee_bits = fb, !.legacy_creation_fee_bits = lb,
                              !.lamports = pool[p].lamports]
      BY <1>2
    <3>3. paid[p][Treasury] + n = paid[p][Treasury]
      BY <1>2, <3>1
    <3>4. paid[p] = [paid[p] EXCEPT ![Treasury] = paid[p][Treasury]]
      BY <1>2
    <3>5. paid \in [Pools -> [Addresses \cup {Treasury} -> Nat]]
      BY DEF CreationInv, CreationFeesTypeOK
    <3>6. paid = [paid EXCEPT ![p] = paid[p]]
      BY <3>5
    <3> QED
      BY <2>1, <2>3, <3>1, <3>2, <3>3, <3>4, <3>6
  <2> QED
    BY <2>2, <2>3
<1> HIDE DEF s, fb, lb, n, protocol, legacy
<1>9. PoolBooks(p)'
  <2>0. PoolBooks(p)
    BY <1>1, BooksPerPool DEF CreationInv
  <2> DEFINE partner == config[c].fee_claimer
  <2>1. /\ pool'[p].config = c
        /\ pool'[p].creation_fee_bits = fb
        /\ pool'[p].legacy_creation_fee_bits = lb
        /\ pool'[p].lamports = pool[p].lamports - n
        /\ config' = config /\ donated' = donated
    <3>1. pool'[p] = [pool[p] EXCEPT !.creation_fee_bits = fb, !.legacy_creation_fee_bits = lb,
                                     !.lamports = pool[p].lamports - n]
      BY <1>1, <1>8
    <3> QED
      BY <1>1, <1>2, <3>1
  <2>2. /\ paid'[p][Treasury] = paid[p][Treasury] + n
        /\ \A a \in Addresses : paid'[p][a] = paid[p][a]
    <3>1. p \in DOMAIN paid
      BY DEF CreationInv, CreationFeesTypeOK
    <3> QED
      BY <1>2, <1>8, <3>1
  <2>3. split_pool_creation_fee(pool[p].config)' = s /\ split_pool_creation_fee(pool[p].config) = s
    BY <1>1, <2>1 DEF split_pool_creation_fee, s
  <2>4. OwedToPartner(p)' = OwedToPartner(p)
    BY <1>4, <2>1, <2>3 DEF OwedToPartner, eligible_to_claim
  <2>5. OwedToProtocol(p)' = 0
    <3>1. /\ ~ eligible_to_claim(p, "protocol")'
          /\ ~ (has_legacy_creation_fee(p) /\ eligible_to_claim_legacy_creation_fee(p))'
      BY <1>4, <1>5, <2>1 DEF eligible_to_claim, has_legacy_creation_fee, eligible_to_claim_legacy_creation_fee
    <3> QED
      BY <3>1 DEF OwedToProtocol
  <2>6. has_legacy_creation_fee(p)' <=> has_legacy_creation_fee(p)
    BY <1>5, <2>1 DEF has_legacy_creation_fee
  <2>7. Charged(p)' = Charged(p)
    BY <1>1, <2>1, <2>6 DEF Charged
  <2>8. /\ paid[p][partner] \in Nat /\ paid[p][Treasury] \in Nat
        /\ paid[p][partner] + OwedToPartner(p) = s.partner
        /\ paid[p][Treasury] + n = s.protocol + (IF has_legacy_creation_fee(p) THEN LegacyFee ELSE 0)
        /\ \A a \in Addresses \ {partner} : paid[p][a] = 0
        /\ pool[p].lamports + paid[p][partner] + paid[p][Treasury] = RentMinimum + Charged(p) + donated[p]
    <3>1. paid[p][partner] \in Nat /\ paid[p][Treasury] \in Nat
      BY <1>2
    <3> QED
      BY <1>1, <1>7, <2>0, <2>3, <3>1 DEF PoolBooks
  <2>9. paid'[p][Treasury] + 0 = s.protocol + (IF has_legacy_creation_fee(p) THEN LegacyFee ELSE 0)
    BY <1>6, <2>2, <2>8
  <2>10. pool'[p].lamports + paid'[p][partner] + paid'[p][Treasury] = RentMinimum + Charged(p)' + donated'[p]
    <3>1. paid'[p][partner] = paid[p][partner]
      BY <1>2, <2>2
    <3>2. (pool[p].lamports - n) + paid[p][partner] + (paid[p][Treasury] + n)
            = pool[p].lamports + paid[p][partner] + paid[p][Treasury]
      BY <1>2, <1>6, <2>8
    <3> QED
      BY <2>1, <2>2, <2>7, <2>8, <3>1, <3>2
  <2>11. /\ paid'[p][partner] + OwedToPartner(p)' = s.partner
         /\ \A a \in Addresses \ {partner} : paid'[p][a] = 0
         /\ config'[pool'[p].config].fee_claimer = partner
    BY <1>2, <2>1, <2>2, <2>4, <2>8
  <2> QED
    BY <2>3, <2>5, <2>6, <2>9, <2>10, <2>11 DEF PoolBooks
<1>10. /\ MaskMeansGrant'
       /\ OperatorsActWithinGrants'
       /\ acted' \subseteq Addresses \X OperatorPermission
  BY <1>1, OperatorUsed DEF OperatorPermission
<1>11. CreationFeesTypeOK' /\ (ChargedFeesPaidOnce /\ LamportsBalance)' /\ Untouched'
  BY <1>1, <1>4, <1>5, <1>6, <1>8, <1>9, <1>10, PaymentKeepsRest
<1> QED
  BY <1>10, <1>11 DEF CreationInv

-----------------------------------------------------------------------------

LEMMA CreationStepInv == CreationInv /\ [CreationNext]_creationVars => CreationInv'
<1> SUFFICES ASSUME CreationInv, [CreationNext]_creationVars PROVE CreationInv'
  OBVIOUS
<1>1. ASSUME NEW a \in Addresses, CloseOperatorAccount(a) PROVE CreationInv'
  BY <1>1, CloseOperatorStep
<1>2. ASSUME NEW a \in Addresses, NEW permissions \in SUBSET OperatorPermission,
             CreateOperatorAccount(a, permissions)
      PROVE  CreationInv'
  BY <1>2, CreateOperatorStep
<1>3. ASSUME NEW o \in Addresses, NEW signer \in Addresses, NEW permission \in OperatorPermission,
             UseOperator(o, signer, permission)
      PROVE  CreationInv'
  BY <1>3, UseOperatorStep
<1>4. ASSUME NEW p \in Pools, NEW c \in ConfigKeys, InitializePool(p, c) PROVE CreationInv'
  BY <1>4, InitializeStep
<1>5. ASSUME NEW p \in Pools, Donate(p) PROVE CreationInv'
  BY <1>5, DonateStep
<1>6. ASSUME NEW p \in Pools, NEW c \in ConfigKeys, NEW o \in Addresses, NEW signer \in Addresses,
             ClaimProtocolPoolCreationFee(p, c, o, signer)
      PROVE  CreationInv'
  BY <1>6, ClaimProtocolStep
<1>7. ASSUME NEW p \in Pools, NEW c \in ConfigKeys, NEW signer \in Addresses,
             ClaimPartnerPoolCreationFee(p, c, signer)
      PROVE  CreationInv'
  BY <1>7, ClaimPartnerStep
<1>8. CASE UNCHANGED creationVars
  <2>1. UNCHANGED <<config, pool, operator, donated, paid, granted, acted>>
    BY <1>8 DEF creationVars
  <2>2. (ChargedFeesPaidOnce /\ LamportsBalance)'
    BY <2>1, AllBooksKept DEF CreationInv
  <2>3. MaskMeansGrant' /\ OperatorsActWithinGrants'
    BY <2>1, OperatorsKept DEF CreationInv
  <2>4. CreationFeesTypeOK' /\ Untouched'
    BY <2>1 DEF CreationInv, CreationFeesTypeOK, Untouched
  <2> QED
    BY <2>2, <2>3, <2>4 DEF CreationInv
<1> QED
  BY <1>1, <1>2, <1>3, <1>4, <1>5, <1>6, <1>7, <1>8 DEF CreationNext

\* The books balance and nobody was paid twice, so a pool holds what it owes.
LEMMA BooksCover == CreationInv => CreationFeesCovered
<1> SUFFICES ASSUME CreationInv, NEW p \in DOMAIN pool
             PROVE  pool[p].lamports >= RentMinimum + OwedToPartner(p) + OwedToProtocol(p)
  BY DEF CreationFeesCovered
<1> USE CreationFeesAssumption
<1> DEFINE c == pool[p].config
<1> DEFINE s == split_pool_creation_fee(c)
<1>1. /\ c \in ConfigKeys
      /\ pool[p].lamports \in Nat
      /\ paid[p] \in [Addresses \cup {Treasury} -> Nat]
      /\ config[c].pool_creation_fee \in Nat /\ config[c].fee_claimer \in Addresses
      /\ donated[p] \in Nat
  <2>1. p \in Pools /\ c \in ConfigKeys /\ pool[p].lamports \in Nat
    BY DEF CreationInv, CreationFeesTypeOK
  <2>2. donated[p] \in 0 .. MaxDonated
    BY <2>1 DEF CreationInv, CreationFeesTypeOK
  <2>3. donated[p] \in Nat
    BY <2>2
  <2>4. paid[p] \in [Addresses \cup {Treasury} -> Nat]
    BY <2>1 DEF CreationInv, CreationFeesTypeOK
  <2>5. config[c] \in [pool_creation_fee : Nat, fee_claimer : Addresses]
    BY <2>1 DEF CreationInv, CreationFeesTypeOK
  <2> QED
    BY <2>1, <2>3, <2>4, <2>5
<1>2. s.partner \in Nat /\ s.protocol \in Nat /\ s.protocol + s.partner = config[c].pool_creation_fee
  BY <1>1, SharesAddUp DEF CreationInv, CreationFeesTypeOK
<1>3. PoolBooks(p)
  BY BooksPerPool DEF CreationInv
<1>4. OwedToPartner(p) \in Nat /\ OwedToProtocol(p) \in Nat
  <2>1. OwedToPartner(p) \in {0, s.partner}
    BY DEF OwedToPartner
  <2>2. OwedToProtocol(p) \in {0 + 0, 0 + LegacyFee, s.protocol + 0, s.protocol + LegacyFee}
    BY DEF OwedToProtocol
  <2> QED
    BY <1>2, <2>1, <2>2
<1> DEFINE g == IF has_legacy_creation_fee(p) THEN LegacyFee ELSE 0
<1>5. g \in Nat
  OBVIOUS
<1>6. /\ paid[p][config[c].fee_claimer] + OwedToPartner(p) = s.partner
      /\ paid[p][Treasury] + OwedToProtocol(p) = s.protocol + g
      /\ pool[p].lamports + paid[p][config[c].fee_claimer] + paid[p][Treasury]
            = RentMinimum + (config[c].pool_creation_fee + g) + donated[p]
      /\ paid[p][config[c].fee_claimer] \in Nat /\ paid[p][Treasury] \in Nat
  BY <1>1, <1>3 DEF PoolBooks, Charged
<1> HIDE DEF c, s, g
<1> QED
  BY <1>1, <1>2, <1>4, <1>5, <1>6

-----------------------------------------------------------------------------

\* Every lamport charged for a pool's creation is paid out once, to the partner
\* of the pool's config or to the treasury, in whatever order they claim.
THEOREM FeesPaidOnce == CreationSpec => []ChargedFeesPaidOnce
<1>1. CreationInv => ChargedFeesPaidOnce
  BY DEF CreationInv
<1> QED
  BY <1>1, CreationInitInv, CreationStepInv, PTL DEF CreationSpec

\* The rent check of transfer_lamports_from_pool_account never stands in the
\* way of a creation fee that is due.
THEOREM FeesCovered == CreationSpec => []CreationFeesCovered
BY BooksCover, CreationInitInv, CreationStepInv, PTL DEF CreationSpec

\* An address uses an operator permission only while the admin grants it.
THEOREM OperatorsConfined == CreationSpec => []OperatorsActWithinGrants
<1>1. CreationInv => OperatorsActWithinGrants
  BY DEF CreationInv
<1> QED
  BY <1>1, CreationInitInv, CreationStepInv, PTL DEF CreationSpec

=============================================================================
