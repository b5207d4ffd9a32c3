------------------------------ MODULE VaultShares ------------------------------
(***************************************************************************)
(* The share-price conversions of the vault (src/balance/shares.rs) and    *)
(* the basis-point arithmetic that fees, penalties and retentions share.   *)
(* Every operator is total; i128 overflow in the code reverts the whole    *)
(* call, so it never appears as a value.                                   *)
(***************************************************************************)
EXTENDS Integers

\* crate::constants::BPS_DENOMINATOR, BOOST_BPS_BASE: 100% in basis points.
BPS_DENOMINATOR == 10000

\* floor(value * rate / 10_000), the form every fee and penalty takes.
bps(value, rate) == (value * rate) \div BPS_DENOMINATOR

\* scale_amount: token base units in the seven-decimal share precision.  A
\* token of d < 7 decimals has up = 10^(7-d) and down = 1, one of d > 7
\* decimals has up = 1 and down = 10^(d-7).
scale_amount(amount, up, down) == (amount * up) \div down

\* The first deposit fixes the precision; later ones are pro rata, rounded
\* down.  A pool with shares but no principal also takes the first branch.
amount_to_shares_with_decimals(total_shares, total_deposited, amount, up, down) ==
    IF total_shares = 0 \/ total_deposited = 0
    THEN scale_amount(amount, up, down)
    ELSE (amount * total_shares) \div total_deposited

\* The conversion at the default precision, used by every path but stake.
amount_to_shares(total_shares, total_deposited, amount) ==
    amount_to_shares_with_decimals(total_shares, total_deposited, amount, 1, 1)

\* Mutant: the payout is rounded up.
shares_to_amount_up(total_shares, total_deposited, shares) ==
    IF total_shares = 0 THEN 0
    ELSE (shares * total_deposited + total_shares - 1) \div total_shares

\* Shares back to tokens at the current ratio, rounded down.
shares_to_amount(total_shares, total_deposited, shares) ==
    IF total_shares = 0 THEN 0
    ELSE (shares * total_deposited) \div total_shares

===============================================================================
