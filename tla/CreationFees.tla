---------------------------- MODULE CreationFees ----------------------------
(***************************************************************************)
(* The lamports of the pool accounts: the creation fee a pool's config     *)
(* charges its first payer, the split of that fee between the protocol and *)
(* the partner, the fixed fee older versions of the program charged, and   *)
(* the two instructions that pay them out; with the operator accounts that *)
(* say who may collect for the protocol.                                   *)
(*                                                                         *)
(* A byte of flags is the set of its bits, so xor is symmetric difference. *)
(* An operator account is a PDA of the address it whitelists: one for each *)
(* address, its permission a bit mask, 0 when there is no account.         *)
(***************************************************************************)
EXTENDS Integers

CONSTANTS
    Pools, ConfigKeys, Addresses,
    PoolCreationFees,         \* the fees create_config is called with
    MIN_POOL_CREATION_FEE, MAX_POOL_CREATION_FEE,
    LegacyFee,                \* TOKEN_2022_POOL_WITH_OUTPUT_FEE_COLLECTION_CREATION_FEE
    RentMinimum,              \* what the runtime asks of an account of this size
    MaxDonated                \* bound: lamports strangers send to a pool

VARIABLES
    config,                   \* ConfigKeys -> [pool_creation_fee, fee_claimer]
    pool,                     \* the pool accounts that exist
    operator,                 \* Addresses -> permission
    donated,                  \* history: lamports each pool was sent besides its fees
    paid,                     \* history: what each pool paid, and to whom
    granted,                  \* history: what the admin meant each address to be able to do
    acted                     \* history: who used which permission since the last grant

creationVars == <<config, pool, operator, donated, paid, granted, acted>>

Treasury == "treasury"

ASSUME CreationFeesAssumption ==
    /\ PoolCreationFees \subseteq Nat
    /\ MIN_POOL_CREATION_FEE \in Nat
    /\ MAX_POOL_CREATION_FEE \in Nat
    /\ LegacyFee \in Nat
    /\ RentMinimum \in Nat
    /\ MaxDonated \in Nat
    /\ Treasury \notin Addresses

PROTOCOL_POOL_CREATION_FEE_PERCENT == 10
OperatorPermission == {"ClaimProtocolFee", "ZapProtocolFee"}
MAX_OPERATION == 2

\* 1 << permission
PermissionMask(permission) == IF permission = "ClaimProtocolFee" THEN 1 ELSE 2

-----------------------------------------------------------------------------
(* The flags of a pool.                                                    *)

Flip(bits, mask) == (bits \ {mask}) \cup ({mask} \ bits)

eligible_to_claim(p, flag) == flag \notin pool[p].creation_fee_bits

has_legacy_creation_fee(p) == "charged" \in pool[p].legacy_creation_fee_bits

eligible_to_claim_legacy_creation_fee(p) == "claimed" \notin pool[p].legacy_creation_fee_bits

split_pool_creation_fee(c) ==
    LET fee == config[c].pool_creation_fee
        protocol_fee == (fee * PROTOCOL_POOL_CREATION_FEE_PERCENT) \div 100
    IN  [protocol |-> protocol_fee, partner |-> fee - protocol_fee]

valid_pool_creation_fee(fee) ==
    fee > 0 => fee \in MIN_POOL_CREATION_FEE .. MAX_POOL_CREATION_FEE

-----------------------------------------------------------------------------
(* The operators.                                                          *)

is_permission_allow_AtLeast(a, permission) == operator[a] >= PermissionMask(permission) \* mutant

is_permission_allow(a, permission) ==
    (operator[a] \div PermissionMask(permission)) % 2 = 1

\* o: the whitelisted address of the operator account the caller passes.
is_valid_operator_role(o, signer, permission) ==
    /\ operator[o] # 0
    /\ o = signer
    /\ is_permission_allow(o, permission)

\* What an admin who wants exactly these permissions sends.
encodePermissions(permissions) ==
      (IF "ClaimProtocolFee" \in permissions THEN 1 ELSE 0)
    + (IF "ZapProtocolFee" \in permissions THEN 2 ELSE 0)

CreateOperatorAccount(a, permissions) ==
    LET permission == encodePermissions(permissions)
    IN  /\ operator[a] = 0                                 \* init: the PDA must be new
        /\ permission > 0 /\ permission < 2 ^ MAX_OPERATION
        /\ operator' = [operator EXCEPT ![a] = permission]
        /\ granted' = [granted EXCEPT ![a] = permissions]
        /\ acted' = {}
        /\ UNCHANGED <<config, pool, donated, paid>>

CloseOperatorAccount(a) ==
    /\ operator[a] # 0
    /\ operator' = [operator EXCEPT ![a] = 0]
    /\ granted' = [granted EXCEPT ![a] = {}]
    /\ acted' = {}
    /\ UNCHANGED <<config, pool, donated, paid>>

\* claim_protocol_fee and zap_protocol_fee: what they pay is VirtualPool's;
\* here, who may call them.
UseOperator(o, signer, permission) ==
    /\ is_valid_operator_role(o, signer, permission)
    /\ acted' = acted \cup {<<signer, permission>>}
    /\ UNCHANGED <<config, pool, operator, donated, paid, granted>>

-----------------------------------------------------------------------------
(* The lamports.                                                           *)

\* Anchor's init leaves the rent minimum in the account; the fee comes on top.
InitializePool(p, c) ==
    /\ p \notin DOMAIN pool
    /\ pool' = [q \in DOMAIN pool \cup {p} |->
                  IF q = p THEN [config |-> c, creation_fee_bits |-> {}, legacy_creation_fee_bits |-> {},
                                 lamports |-> RentMinimum + config[c].pool_creation_fee]
                           ELSE pool[q]]
    /\ UNCHANGED <<config, operator, donated, paid, granted, acted>>

Donate(p) ==
    /\ p \in DOMAIN pool
    /\ donated[p] < MaxDonated
    /\ donated' = [donated EXCEPT ![p] = @ + 1]
    /\ pool' = [pool EXCEPT ![p].lamports = @ + 1]
    /\ UNCHANGED <<config, operator, paid, granted, acted>>

\* transfer_lamports_from_pool_account, with the flags the handler set before it.
PayFromPool(p, creation_fee_bits, legacy_bits, to, lamports) ==
    /\ pool[p].lamports - lamports >= RentMinimum
    /\ pool' = [pool EXCEPT ![p] = [@ EXCEPT !.creation_fee_bits = creation_fee_bits,
                                             !.legacy_creation_fee_bits = legacy_bits,
                                             !.lamports = pool[p].lamports - lamports]]
    /\ paid' = [paid EXCEPT ![p] = [@ EXCEPT ![to] = paid[p][to] + lamports]]

ClaimProtocolPoolCreationFee_LegacyUnflagged(p, c, o, signer) == \* mutant
    LET protocol == eligible_to_claim(p, "protocol")
        legacy == has_legacy_creation_fee(p) /\ eligible_to_claim_legacy_creation_fee(p)
    IN  /\ p \in DOMAIN pool
        /\ is_valid_operator_role(o, signer, "ClaimProtocolFee")
        /\ pool[p].config = c
        /\ PayFromPool(p, IF protocol THEN Flip(pool[p].creation_fee_bits, "protocol")
                                      ELSE pool[p].creation_fee_bits,
                       pool[p].legacy_creation_fee_bits, Treasury,
                         (IF protocol THEN split_pool_creation_fee(c).protocol ELSE 0)
                       + (IF legacy THEN LegacyFee ELSE 0))
        /\ acted' = acted \cup {<<signer, "ClaimProtocolFee">>}
        /\ UNCHANGED <<config, operator, donated, granted>>

\* Claims whatever is due; when nothing is, it succeeds and moves nothing, the
\* rent check included.
ClaimProtocolPoolCreationFee(p, c, o, signer) ==
    LET protocol == eligible_to_claim(p, "protocol")
        legacy == has_legacy_creation_fee(p) /\ eligible_to_claim_legacy_creation_fee(p)
        flags == IF protocol THEN Flip(pool[p].creation_fee_bits, "protocol")
                             ELSE pool[p].creation_fee_bits
        legacy_bits == IF legacy THEN Flip(pool[p].legacy_creation_fee_bits, "claimed")
                                 ELSE pool[p].legacy_creation_fee_bits
        protocol_fee == (IF protocol THEN split_pool_creation_fee(c).protocol ELSE 0)
                        + (IF legacy THEN LegacyFee ELSE 0)
    IN  /\ p \in DOMAIN pool
        /\ is_valid_operator_role(o, signer, "ClaimProtocolFee")
        /\ pool[p].config = c
        /\ IF protocol_fee > 0
           THEN PayFromPool(p, flags, legacy_bits, Treasury, protocol_fee)
           ELSE /\ pool' = [pool EXCEPT ![p] = [@ EXCEPT !.creation_fee_bits = flags,
                                                         !.legacy_creation_fee_bits = legacy_bits]]
                /\ UNCHANGED paid
        /\ acted' = acted \cup {<<signer, "ClaimProtocolFee">>}
        /\ UNCHANGED <<config, operator, donated, granted>>

ClaimPartnerPoolCreationFee_AnyConfig(p, c, signer) == \* mutant
    LET partner_fee == split_pool_creation_fee(c).partner
    IN  /\ p \in DOMAIN pool
        /\ config[c].fee_claimer = signer
        /\ partner_fee > 0
        /\ eligible_to_claim(p, "partner")
        /\ PayFromPool(p, Flip(pool[p].creation_fee_bits, "partner"),
                       pool[p].legacy_creation_fee_bits, signer, partner_fee)
        /\ UNCHANGED <<config, operator, donated, granted, acted>>

\* The caller passes the config: is_partner_fee_claimer reads it, and the
\* handler then asks that it is the pool's.
ClaimPartnerPoolCreationFee(p, c, signer) ==
    LET partner_fee == split_pool_creation_fee(c).partner
    IN  /\ p \in DOMAIN pool
        /\ config[c].fee_claimer = signer
        /\ partner_fee > 0
        /\ pool[p].config = c
        /\ eligible_to_claim(p, "partner")
        /\ PayFromPool(p, Flip(pool[p].creation_fee_bits, "partner"),
                       pool[p].legacy_creation_fee_bits, signer, partner_fee)
        /\ UNCHANGED <<config, operator, donated, granted, acted>>

-----------------------------------------------------------------------------

\* A pool an older version of the program left: it charged the fixed fee on top
\* of the config's, and the fixed fee may have been claimed already.
LegacyPool(c, bits) ==
    [config |-> c, creation_fee_bits |-> {}, legacy_creation_fee_bits |-> bits,
     lamports |-> RentMinimum + config[c].pool_creation_fee
                  + (IF "claimed" \in bits THEN 0 ELSE LegacyFee)]

CreationInit ==
    /\ config \in [ConfigKeys -> [pool_creation_fee : {f \in PoolCreationFees : valid_pool_creation_fee(f)},
                                  fee_claimer : Addresses]]
    /\ \E old \in SUBSET Pools :
         \E key \in [old -> ConfigKeys], bits \in [old -> {{"charged"}, {"charged", "claimed"}}] :
            /\ pool = [p \in old |-> LegacyPool(key[p], bits[p])]
            /\ paid = [p \in Pools |->
                         [a \in Addresses \cup {Treasury} |->
                            IF a = Treasury /\ p \in old /\ "claimed" \in bits[p] THEN LegacyFee ELSE 0]]
    /\ operator = [a \in Addresses |-> 0]
    /\ donated = [p \in Pools |-> 0]
    /\ granted = [a \in Addresses |-> {}]
    /\ acted = {}

CreationNext ==
    \/ \E a \in Addresses : CloseOperatorAccount(a)
    \/ \E a \in Addresses, permissions \in SUBSET OperatorPermission : CreateOperatorAccount(a, permissions)
    \/ \E o, signer \in Addresses, permission \in OperatorPermission : UseOperator(o, signer, permission)
    \/ \E p \in Pools, c \in ConfigKeys : InitializePool(p, c)
    \/ \E p \in Pools : Donate(p)
    \/ \E p \in Pools, c \in ConfigKeys, o, signer \in Addresses :
          ClaimProtocolPoolCreationFee(p, c, o, signer)
    \/ \E p \in Pools, c \in ConfigKeys, signer \in Addresses : ClaimPartnerPoolCreationFee(p, c, signer)

CreationSpec == CreationInit /\ [][CreationNext]_creationVars

-----------------------------------------------------------------------------
(* Properties.                                                             *)

\* What the flags of a pool say is still to be claimed.
OwedToPartner(p) == IF eligible_to_claim(p, "partner") THEN split_pool_creation_fee(pool[p].config).partner ELSE 0

OwedToProtocol(p) ==
      (IF eligible_to_claim(p, "protocol") THEN split_pool_creation_fee(pool[p].config).protocol ELSE 0)
    + (IF has_legacy_creation_fee(p) /\ eligible_to_claim_legacy_creation_fee(p) THEN LegacyFee ELSE 0)

CreationFeesTypeOK ==
    /\ config \in [ConfigKeys -> [pool_creation_fee : Nat, fee_claimer : Addresses]]
    /\ DOMAIN pool \subseteq Pools
    /\ pool \in [DOMAIN pool -> [config : ConfigKeys, creation_fee_bits : SUBSET {"partner", "protocol"},
                                 legacy_creation_fee_bits : SUBSET {"charged", "claimed"}, lamports : Nat]]
    /\ operator \in [Addresses -> 0 .. 3]
    /\ donated \in [Pools -> 0 .. MaxDonated]
    /\ paid \in [Pools -> [Addresses \cup {Treasury} -> Nat]]
    /\ granted \in [Addresses -> SUBSET OperatorPermission]
    /\ acted \subseteq Addresses \X OperatorPermission

\* Whatever the order of the claims, of the partner, of the protocol, of a
\* config's fee and of an old pool's fixed fee, every lamport charged for a
\* pool is paid out once, to the one it belongs to: the partner of the pool's
\* own config and the treasury each got, or may still claim, exactly their
\* share (creation_fee_bits and legacy_creation_fee_bits, flipped with xor).
ChargedFeesPaidOnce ==
    \A p \in DOMAIN pool :
        LET c == pool[p].config
            shares == split_pool_creation_fee(c)
        IN  /\ paid[p][config[c].fee_claimer] + OwedToPartner(p) = shares.partner
            /\ paid[p][Treasury] + OwedToProtocol(p)
                  = shares.protocol + (IF has_legacy_creation_fee(p) THEN LegacyFee ELSE 0)
            /\ \A a \in Addresses \ {config[c].fee_claimer} : paid[p][a] = 0

\* A pool account always holds its rent minimum and everything its flags still
\* owe, so the rent check of transfer_lamports_from_pool_account never refuses
\* a claim that is due, whoever claims first.
CreationFeesCovered ==
    \A p \in DOMAIN pool : pool[p].lamports >= RentMinimum + OwedToPartner(p) + OwedToProtocol(p)

\* An address uses a permission only while the admin's last word on it grants
\* that permission: after a close, and after an account is created again with
\* other permissions, the old ones are gone (is_valid_operator_role).
OperatorsActWithinGrants ==
    \A act \in acted : act[2] \in granted[act[1]]

=============================================================================
