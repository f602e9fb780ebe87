------------------------- MODULE SecurityStateProofs -------------------------
(***************************************************************************)
(* What the security-state store promises, proved for every number of      *)
(* installations, credentials, tickets, sessions and grants, every quota   *)
(* and every clock within the tolerance.                                   *)
(***************************************************************************)
EXTENDS SecurityState, FiniteSetTheorems, TLAPS

\* A row in use names the installation it belongs to.
RowsRefer ==
  /\ \A c \in Credentials : credential[c].status \notin {"absent", "deleted"} =>
       credential[c].installation \in Installations
  /\ \A t \in Tickets : ticket[t].status \notin {"absent", "deleted"} =>
       ticket[t].installation \in Installations
  /\ \A s \in Sessions : session[s].status \notin {"absent", "deleted"} =>
       session[s].installation \in Installations

\* The keys and the session that an installation names have rows.
PointersRefer ==
  \A i \in Installations :
    /\ \A c \in Credentials : c \in Keys(i) => credential[c].status # "absent"
    /\ \A s \in Sessions : s = installation[i].activeSession =>
         session[s].status # "absent"

TypeInv == TypeOK /\ RowsRefer /\ PointersRefer

LEMMA PointersKept ==
  ASSUME PointersRefer,
         \A i \in Installations :
           /\ \A c \in Credentials : c \in Keys(i)' =>
                c \in Keys(i) \/ credential'[c].status # "absent"
           /\ \A s \in Sessions : s = installation'[i].activeSession =>
                s = installation[i].activeSession \/ session'[s].status # "absent",
         \A c \in Credentials :
           credential[c].status # "absent" => credential'[c].status # "absent",
         \A s \in Sessions :
           session[s].status # "absent" => session'[s].status # "absent"
  PROVE  PointersRefer'
BY DEF PointersRefer

\* The rate windows, whose updates are typed by the two lemmas below.
RatesTyped ==
  /\ issueTimes \in [Times -> Nat] /\ attemptTimes \in [Times -> Nat]
  /\ ticketTimes \in [Installations -> [Times -> Nat]]
  /\ reconnectTimes \in [Installations -> [Times -> Nat]]
  /\ audioLog \in
       [Installations -> [Sessions \X Times -> [grants : Nat, samples : Nat]]]

LEMMA AddEventTyped ==
  ASSUME NEW log \in [Times -> Nat], NEW now \in Times, NEW quotas
  PROVE  AddEvent(log, now, quotas) \in [Times -> Nat]
BY DEF AddEvent

LEMMA AddAudioTyped ==
  ASSUME NEW log \in [Sessions \X Times -> [grants : Nat, samples : Nat]],
         NEW now \in Times, NEW s \in Sessions, NEW samples \in Nat
  PROVE  AddAudio(log, now, s, samples)
           \in [Sessions \X Times -> [grants : Nat, samples : Nat]]
BY DEF AddAudio

LEMMA TimesNat == Times \subseteq Nat
BY ConstantsAssumption DEF Times

LEMMA ContextTyped ==
  ASSUME NEW now \in Times, Context(now)
  PROVE  latest' \in Nat
BY TimesNat DEF Context

LEMMA NoInstallationTyped == NoInstallation \in InstallationRow
BY DEF NoInstallation, InstallationRow, Expiry

LEMMA RedeemedTyped ==
  ASSUME NEW c \in Credentials, NEW absolute \in Nat
  PROVE  [NoInstallation EXCEPT
            !.status = "active", !.absoluteExpiresAt = absolute,
            !.tombstoneVersion = 1, !.current = c,
            !.currentVersion = 1] \in InstallationRow
BY NoInstallationTyped DEF InstallationRow, Expiry

LEMMA IssuePairingTyped ==
  ASSUME TypeInv, NEW now \in Times, NEW p \in Pairings, IssuePairing(now, p)
  PROVE  TypeInv'
<1>1. PairingTtl \in Nat /\ now \in Nat
  BY ConstantsAssumption, TimesNat
<1>2. latest' \in Nat
  BY ContextTyped DEF IssuePairing
<1>3. pairing' \in [Pairings -> PairingRow]
  BY <1>1 DEF IssuePairing, TypeInv, TypeOK, PairingRow, Expiry
<1>4. issueTimes' \in [Times -> Nat]
  BY AddEventTyped DEF IssuePairing, TypeInv, TypeOK
<1>5. QED
  BY <1>2, <1>3, <1>4 DEF IssuePairing, TypeInv, TypeOK, RowsRefer, PointersRefer, Keys

LEMMA RedeemPairingTyped ==
  ASSUME TypeInv, NEW now \in Times, NEW p \in Pairings, NEW i \in Installations,
         NEW c \in Credentials, RedeemPairing(now, p, i, c)
  PROVE  TypeInv'
<1>1. CredentialAbsoluteTtl \in Nat /\ CredentialIdleTtl \in Nat /\ now \in Nat
  BY ConstantsAssumption, TimesNat
<1>2. latest' \in Nat
  BY ContextTyped DEF RedeemPairing
<1>3. pairing' \in [Pairings -> PairingRow]
  BY <1>1 DEF RedeemPairing, TypeInv, TypeOK, PairingRow, Expiry
<1>4. attemptTimes' \in [Times -> Nat]
  BY AddEventTyped DEF RedeemPairing, TypeInv, TypeOK
<1>5. credential' \in [Credentials -> CredentialRow]
  BY <1>1 DEF RedeemPairing, TypeInv, TypeOK, CredentialRow, Expiry, MinOf
<1> DEFINE row == [NoInstallation EXCEPT
                     !.status = "active",
                     !.absoluteExpiresAt = now + CredentialAbsoluteTtl,
                     !.tombstoneVersion = 1, !.current = c,
                     !.currentVersion = 1]
<1>6. installation' \in [Installations -> InstallationRow]
  <2>1. now + CredentialAbsoluteTtl \in Nat
    BY <1>1
  <2>2. row \in InstallationRow
    BY ONLY <2>1, c \in Credentials, RedeemedTyped
  <2>3. installation' = [installation EXCEPT ![i] = row]
    BY DEF RedeemPairing
  <2> HIDE DEF row
  <2>4. QED
    BY <2>2, <2>3 DEF TypeInv, TypeOK
<1>7. RowsRefer'
  BY <1>1 DEF RedeemPairing, TypeInv, TypeOK, RowsRefer
<1>8. PointersRefer'
  <2>1. \A j \in Installations : j # i => installation'[j] = installation[j]
    BY DEF RedeemPairing, TypeInv, TypeOK
  <2>2. installation'[i].current = c /\ installation'[i].pending = None
        /\ installation'[i].activeSession = None
    BY DEF RedeemPairing, TypeInv, TypeOK, NoInstallation
  <2>3. UNCHANGED session /\ credential'[c].status = "current"
    BY DEF RedeemPairing, TypeInv, TypeOK
  <2>4. \A x \in Credentials :
          credential[x].status # "absent" => credential'[x].status # "absent"
    BY DEF RedeemPairing, TypeInv, TypeOK
  <2>5. None \notin Credentials \cup Sessions
    BY ConstantsAssumption
  <2>6. QED
    BY <2>1, <2>2, <2>3, <2>4, <2>5, PointersKept DEF TypeInv, Keys
<1>9. QED
  BY <1>2, <1>3, <1>4, <1>5, <1>6, <1>7, <1>8 DEF RedeemPairing, TypeInv, TypeOK

LEMMA QuietTyped ==
  ASSUME TypeInv, latest' \in Nat, UNCHANGED rows, UNCHANGED rates
  PROVE  TypeInv'
BY DEF TypeInv, TypeOK, RowsRefer, PointersRefer, Keys, rows, rates

LEMMA ObserveTyped ==
  ASSUME TypeInv, NEW now \in Times, Observe(now)
  PROVE  TypeInv'
BY ContextTyped, QuietTyped DEF Observe

LEMMA RevokePairingTyped ==
  ASSUME TypeInv, NEW now \in Times, NEW p \in Pairings, RevokePairing(now, p)
  PROVE  TypeInv'
<1>1. latest' \in Nat
  BY ContextTyped DEF RevokePairing
<1>2. pairing' \in [Pairings -> PairingRow]
  BY DEF RevokePairing, TypeInv, TypeOK, PairingRow
<1>3. QED
  BY <1>1, <1>2 DEF RevokePairing, TypeInv, TypeOK, RowsRefer, PointersRefer, Keys, rates

LEMMA RefuseRedemptionTyped ==
  ASSUME TypeInv, NEW now \in Times, RefuseRedemption(now)
  PROVE  TypeInv'
<1>1. latest' \in Nat
  BY ContextTyped DEF RefuseRedemption
<1>2. attemptTimes' \in [Times -> Nat]
  BY AddEventTyped DEF RefuseRedemption, TypeInv, TypeOK
<1>3. QED
  BY <1>1, <1>2 DEF RefuseRedemption, TypeInv, TypeOK, RowsRefer, PointersRefer, Keys, rows

\* The credentials that act belong to an installation.
LEMMA AuthenticatedRefers ==
  ASSUME TypeInv, NEW now, NEW c \in Credentials,
         AuthenticatesCurrent(c, now) \/ AuthenticatesPending(c, now)
  PROVE  /\ credential[c].installation \in Installations
         /\ installation[credential[c].installation].status = "active"
BY DEF TypeInv, RowsRefer, AuthenticatesCurrent, AuthenticatesPending,
       CredentialActive, InstallationActive

LEMMA IdleExpiryTyped ==
  ASSUME TypeInv, NEW now \in Times, NEW i \in Installations
  PROVE  IdleExpiry(i, now) \in Nat
BY TimesNat, ConstantsAssumption
   DEF IdleExpiry, MinOf, TypeInv, TypeOK, InstallationRow, Expiry

LEMMA AuthenticateCredentialTyped ==
  ASSUME TypeInv, NEW now \in Times, NEW c \in Credentials,
         AuthenticateCredential(now, c)
  PROVE  TypeInv'
<1>1. latest' \in Nat
  BY ContextTyped DEF AuthenticateCredential
<1>2. IdleExpiry(credential[c].installation, now) \in Nat
  BY AuthenticatedRefers, IdleExpiryTyped DEF AuthenticateCredential
<1>3. credential' \in [Credentials -> CredentialRow]
  BY <1>2 DEF AuthenticateCredential, TypeInv, TypeOK, CredentialRow, Expiry
<1>4. \A x \in Credentials :
        /\ credential'[x].installation = credential[x].installation
        /\ credential'[x].status = credential[x].status
  BY DEF AuthenticateCredential, TypeInv, TypeOK, CredentialRow
<1>5. QED
  BY <1>1, <1>3, <1>4
     DEF AuthenticateCredential, TypeInv, TypeOK, RowsRefer, PointersRefer, Keys, rates

\* Updates of an installation row keep its type.
LEMMA PendingSetTyped ==
  ASSUME NEW row \in InstallationRow, NEW n \in Credentials \cup {None},
         NEW version \in Nat, NEW expires \in Nat
  PROVE  [row EXCEPT !.pending = n, !.pendingVersion = version,
                     !.pendingExpiresAt = expires] \in InstallationRow
BY DEF InstallationRow, Expiry

LEMMA NoPendingTyped ==
  ASSUME NEW row \in InstallationRow
  PROVE  /\ NoPending(row) \in InstallationRow
         /\ NoPending(row).activeSession = row.activeSession
         /\ NoPending(row).current = row.current
         /\ NoPending(row).pending = None
BY DEF NoPending, InstallationRow, Expiry

LEMMA PromotedTyped ==
  ASSUME NEW row \in InstallationRow, NEW c \in Credentials, NEW version \in Nat,
         NEW remaining \in Sessions \cup {None}
  PROVE  [row EXCEPT !.current = c, !.currentVersion = version,
                     !.activeSession = remaining] \in InstallationRow
BY DEF InstallationRow

LEMMA BeginCredentialRotationTyped ==
  ASSUME TypeInv, NEW now \in Times, NEW c \in Credentials,
         NEW n \in Credentials, BeginCredentialRotation(now, c, n)
  PROVE  TypeInv'
<1> DEFINE i       == credential[c].installation
           version == installation[i].currentVersion + 1
           expires == MinOf(now + PendingCredentialTtl,
                            installation[i].absoluteExpiresAt)
           fresh   == [status |-> "pending", installation |-> i,
                       version |-> version,
                       absoluteExpiresAt |-> installation[i].absoluteExpiresAt,
                       idleExpiresAt |-> expires]
<1>1. latest' \in Nat
  BY ContextTyped DEF BeginCredentialRotation
<1>2. i \in Installations
  BY AuthenticatedRefers DEF BeginCredentialRotation
<1>3. version \in Nat /\ expires \in Nat /\ installation[i].absoluteExpiresAt \in Nat
  BY <1>2, TimesNat, ConstantsAssumption
     DEF MinOf, TypeInv, TypeOK, InstallationRow, Expiry
<1>4. installation' = [installation EXCEPT
        ![i] = [@ EXCEPT !.pending = n, !.pendingVersion = version,
                         !.pendingExpiresAt = expires]]
  BY DEF BeginCredentialRotation
<1>5. credential' = [x \in Credentials |->
        IF x = n THEN fresh
        ELSE IF x \in ReplacedPending(i)
        THEN [credential[x] EXCEPT !.status = "expired"] ELSE credential[x]]
  BY DEF BeginCredentialRotation
<1>6. fresh \in CredentialRow
  BY <1>2, <1>3 DEF CredentialRow, Expiry
<1>7. fresh.installation \in Installations
  BY <1>2
<1>8. UNCHANGED <<pairing, ticket, session, grants, rates>>
  BY DEF BeginCredentialRotation
<1> HIDE DEF fresh, version, expires
<1>9. installation' \in [Installations -> InstallationRow]
  <2>1. installation[i] \in InstallationRow
    BY <1>2 DEF TypeInv, TypeOK
  <2>2. [installation[i] EXCEPT !.pending = n, !.pendingVersion = version,
           !.pendingExpiresAt = expires] \in InstallationRow
    BY <1>3, <2>1, PendingSetTyped
  <2>3. QED
    BY <1>2, <1>4, <2>2 DEF TypeInv, TypeOK
<1>10. credential' \in [Credentials -> CredentialRow]
  BY <1>5, <1>6 DEF TypeInv, TypeOK, CredentialRow
<1>11. ASSUME NEW x \in Credentials,
              credential'[x].status \notin {"absent", "deleted"}
       PROVE  credential'[x].installation \in Installations
  <2>1. CASE x = n
    BY <2>1, <1>5, <1>7
  <2>2. CASE x # n /\ x \in ReplacedPending(i)
    BY <2>2, <1>5 DEF TypeInv, TypeOK, RowsRefer, CredentialRow, ReplacedPending
  <2>3. CASE x # n /\ x \notin ReplacedPending(i)
    BY <2>3, <1>5, <1>11 DEF TypeInv, RowsRefer
  <2>4. QED
    BY <2>1, <2>2, <2>3
<1>12. PointersRefer'
  <2>1. \A j \in Installations :
          /\ installation'[j].activeSession = installation[j].activeSession
          /\ installation'[j].current = installation[j].current
          /\ installation'[j].pending \in {installation[j].pending, n}
    BY <1>2, <1>4 DEF TypeInv, TypeOK, InstallationRow
  <2>2. credential'[n].status # "absent"
    BY <1>5 DEF fresh
  <2>3. ASSUME NEW x \in Credentials, credential[x].status # "absent"
        PROVE  credential'[x].status # "absent"
    BY <1>5, <2>2, <2>3 DEF TypeInv, TypeOK, CredentialRow
  <2>4. QED
    BY <1>8, <2>1, <2>2, <2>3, PointersKept DEF TypeInv, Keys
<1>13. QED
  BY <1>1, <1>8, <1>9, <1>10, <1>11, <1>12 DEF TypeInv, TypeOK, RowsRefer, rates

LEMMA EndedSessionsTyped ==
  ASSUME TypeInv, NEW S, NEW now \in Nat,
         \A s \in S : s \in Sessions => session[s].status \in {"opening", "active"}
  PROVE  /\ EndedSessions(S, now) \in [Sessions -> SessionRow]
         /\ \A s \in Sessions :
              EndedSessions(S, now)[s].status \notin {"absent", "deleted"} =>
                EndedSessions(S, now)[s].installation \in Installations
         /\ \A s \in Sessions : session[s].status # "absent" =>
              EndedSessions(S, now)[s].status # "absent"
<1>1. ASSUME NEW s \in Sessions
      PROVE  /\ EndedSessions(S, now)[s] \in SessionRow
             /\ EndedSessions(S, now)[s].installation = session[s].installation
             /\ EndedSessions(S, now)[s].status \notin {"absent", "deleted"} =>
                  session[s].status \notin {"absent", "deleted"}
             /\ session[s].status # "absent" =>
                  EndedSessions(S, now)[s].status # "absent"
  BY DEF EndedSessions, TypeInv, TypeOK, SessionRow, Expiry
<1>2. QED
  BY <1>1 DEF EndedSessions, TypeInv, RowsRefer

LEMMA PromoteCredentialTyped ==
  ASSUME TypeInv, NEW now \in Times, NEW c \in Credentials,
         PromoteCredential(now, c)
  PROVE  TypeInv'
<1> DEFINE i     == credential[c].installation
           old   == installation[i].current
           prior == PriorSessions(i, c)
           remaining == IF prior = {} THEN installation[i].activeSession ELSE None
           idle  == IdleExpiry(i, now)
<1>1. latest' \in Nat /\ now \in Nat
  BY ContextTyped, TimesNat DEF PromoteCredential
<1>2. i \in Installations
  BY AuthenticatedRefers DEF PromoteCredential
<1>3. idle \in Nat /\ credential[c].version \in Nat
  BY <1>2, IdleExpiryTyped DEF TypeInv, TypeOK, CredentialRow
<1>4. credential' = [credential EXCEPT
        ![old].status = "retired",
        ![c] = [@ EXCEPT !.status = "current", !.idleExpiresAt = idle]]
  BY DEF PromoteCredential
<1>5. installation' = [installation EXCEPT
        ![i] = [NoPending(@) EXCEPT
                  !.current = c, !.currentVersion = credential[c].version,
                  !.activeSession = remaining]]
  BY DEF PromoteCredential
<1>6. /\ session' = EndedSessions(prior, now)
      /\ grants' = WithoutGrantsOf(prior)
      /\ UNCHANGED <<pairing, ticket, rates>>
  BY DEF PromoteCredential
<1>7. credential[old].status = "current" /\ credential[c].status = "pending"
  BY DEF PromoteCredential, AuthenticatesPending
<1>8. \A s \in prior : s \in Sessions => session[s].status \in {"opening", "active"}
  BY DEF PriorSessions
<1>15. remaining \in Sessions \cup {None}
  BY <1>2 DEF TypeInv, TypeOK, InstallationRow
<1> HIDE DEF idle, old, prior, remaining
<1>9. installation' \in [Installations -> InstallationRow]
  <2>1. NoPending(installation[i]) \in InstallationRow
    BY <1>2, NoPendingTyped DEF TypeInv, TypeOK
  <2>2. [NoPending(installation[i]) EXCEPT
           !.current = c, !.currentVersion = credential[c].version,
           !.activeSession = remaining] \in InstallationRow
    BY <1>3, <1>15, <2>1, PromotedTyped
  <2>3. QED
    BY <1>2, <1>5, <2>2 DEF TypeInv, TypeOK
<1>10. credential' \in [Credentials -> CredentialRow]
  <2> DEFINE middle == [credential EXCEPT ![old].status = "retired"]
  <2>1. middle \in [Credentials -> CredentialRow]
    BY DEF TypeInv, TypeOK, CredentialRow
  <2>2. credential' = [middle EXCEPT
          ![c] = [@ EXCEPT !.status = "current", !.idleExpiresAt = idle]]
    BY <1>4
  <2> HIDE DEF middle
  <2>3. [middle[c] EXCEPT !.status = "current", !.idleExpiresAt = idle]
          \in CredentialRow
    BY <1>3, <2>1 DEF CredentialRow, Expiry
  <2>4. QED
    BY <2>1, <2>2, <2>3
<1>11. ASSUME NEW x \in Credentials,
              credential'[x].status \notin {"absent", "deleted"}
       PROVE  credential'[x].installation \in Installations
  <2>1. credential'[x].installation = credential[x].installation
    BY <1>4 DEF TypeInv, TypeOK, CredentialRow
  <2>2. x = old \/ x = c \/ credential'[x] = credential[x]
    BY <1>4 DEF TypeInv, TypeOK
  <2>3. QED
    BY <1>7, <1>11, <2>1, <2>2 DEF TypeInv, RowsRefer
<1>12. /\ session' \in [Sessions -> SessionRow]
       /\ \A s \in Sessions : session'[s].status \notin {"absent", "deleted"} =>
            session'[s].installation \in Installations
       /\ \A s \in Sessions : session[s].status # "absent" =>
            session'[s].status # "absent"
  BY <1>1, <1>6, <1>8, EndedSessionsTyped
<1>13. grants' \subseteq Grant
  BY <1>6 DEF WithoutGrantsOf, TypeInv, TypeOK
<1>14. PointersRefer'
  <2>1. \A j \in Installations :
          /\ installation'[j].activeSession \in {installation[j].activeSession, None}
          /\ installation'[j].current \in {installation[j].current, c}
          /\ installation'[j].pending \in {installation[j].pending, None}
    BY <1>2, <1>5 DEF TypeInv, TypeOK, InstallationRow, NoPending, remaining
  <2>2. \A x \in Credentials : credential[x].status # "absent" =>
                                credential'[x].status # "absent"
    BY <1>4 DEF TypeInv, TypeOK, CredentialRow
  <2>3. credential'[c].status # "absent" /\ None \notin Credentials \cup Sessions
    BY <1>7, <2>2, ConstantsAssumption
  <2>4. QED
    BY <1>12, <2>1, <2>2, <2>3, PointersKept DEF TypeInv, Keys
<1>16. QED
  BY <1>1, <1>6, <1>9, <1>10, <1>11, <1>12, <1>13, <1>14
     DEF TypeInv, TypeOK, RowsRefer, rates

LEMMA RevokedRowTyped ==
  ASSUME NEW row \in InstallationRow, NEW now \in Nat, NEW tombstone \in Nat
  PROVE  [row EXCEPT !.status = "revoked", !.endedAt = now,
                     !.tombstoneVersion = tombstone, !.activeSession = None]
           \in InstallationRow
BY DEF InstallationRow

LEMMA RevokedTyped ==
  ASSUME TypeInv, NEW now \in Times, NEW i \in Installations,
         latest' \in Nat, Revoked(now, i)
  PROVE  TypeInv'
<1> DEFINE closed == {s \in Sessions : s = installation[i].activeSession}
           tombstone == installation[i].tombstoneVersion + 1
           ended  == [installation[i] EXCEPT
                        !.status = "revoked", !.endedAt = now,
                        !.tombstoneVersion = tombstone, !.activeSession = None]
<1>1. ended \in InstallationRow
  <2>1. installation[i] \in InstallationRow
    BY DEF TypeInv, TypeOK
  <2>2. tombstone \in Nat /\ now \in Nat
    BY <2>1, TimesNat DEF InstallationRow
  <2> HIDE DEF tombstone
  <2>3. QED
    BY <2>1, <2>2, RevokedRowTyped
<1>2. installation' = [installation EXCEPT ![i] = ended]
  BY DEF Revoked
<1>3. /\ credential' = [c \in Credentials |->
            IF c \in Keys(i) /\ credential[c].status # "deleted"
            THEN [credential[c] EXCEPT !.status = "revoked"] ELSE credential[c]]
      /\ session' = [s \in Sessions |->
            IF s \in closed /\ session[s].status # "deleted"
            THEN [session[s] EXCEPT !.status = "revoked"] ELSE session[s]]
      /\ grants' = WithoutGrantsOf(closed)
      /\ UNCHANGED <<pairing, ticket, rates>>
  BY DEF Revoked
<1> HIDE DEF closed, ended
<1>4. installation' \in [Installations -> InstallationRow]
  BY <1>1, <1>2 DEF TypeInv, TypeOK
<1>5. credential' \in [Credentials -> CredentialRow]
  BY <1>3 DEF TypeInv, TypeOK, CredentialRow
<1>6. session' \in [Sessions -> SessionRow]
  <2>1. ASSUME NEW s \in Sessions
        PROVE  session'[s] \in SessionRow
    BY <1>3 DEF TypeInv, TypeOK, SessionRow
  <2>2. QED
    BY <1>3, <2>1
<1>7. grants' \subseteq Grant
  BY <1>3 DEF TypeInv, TypeOK, WithoutGrantsOf
<1>8. RowsRefer'
  <2>1. ASSUME NEW c \in Credentials,
               credential'[c].status \notin {"absent", "deleted"}
        PROVE  credential'[c].installation \in Installations
    <3>1. credential[c].status \notin {"absent", "deleted"}
      BY <1>3, <2>1 DEF TypeInv, TypeOK, CredentialRow, PointersRefer
    <3>2. QED
      BY <1>3, <3>1 DEF TypeInv, TypeOK, CredentialRow, RowsRefer
  <2>2. ASSUME NEW s \in Sessions, session'[s].status \notin {"absent", "deleted"}
        PROVE  session'[s].installation \in Installations
    <3>1. session[s].status \notin {"absent", "deleted"}
      BY <1>3, <2>2 DEF TypeInv, TypeOK, SessionRow, PointersRefer, closed
    <3>2. QED
      BY <1>3, <3>1 DEF TypeInv, TypeOK, SessionRow, RowsRefer
  <2>3. QED
    BY <1>3, <2>1, <2>2 DEF TypeInv, RowsRefer
<1>9. PointersRefer'
  <2>1. \A j \in Installations :
          /\ installation'[j].activeSession \in {installation[j].activeSession, None}
          /\ installation'[j].current = installation[j].current
          /\ installation'[j].pending = installation[j].pending
    BY <1>2 DEF ended, TypeInv, TypeOK, InstallationRow
  <2>2. \A x \in Credentials : credential[x].status # "absent" =>
                                credential'[x].status # "absent"
    BY <1>3 DEF TypeInv, TypeOK, CredentialRow
  <2>3. \A s \in Sessions : session[s].status # "absent" =>
                             session'[s].status # "absent"
    BY <1>3 DEF TypeInv, TypeOK, SessionRow
  <2>4. None \notin Sessions
    BY ConstantsAssumption
  <2>5. QED
    BY <2>1, <2>2, <2>3, <2>4, PointersKept DEF TypeInv, Keys
<1>10. QED
  BY <1>3, <1>4, <1>5, <1>6, <1>7, <1>8, <1>9 DEF TypeInv, TypeOK, rates

LEMMA IssueSessionTicketTyped ==
  ASSUME TypeInv, NEW now \in Times, NEW c \in Credentials, NEW t \in Tickets,
         IssueSessionTicket(now, c, t)
  PROVE  TypeInv'
<1> DEFINE i     == credential[c].installation
           idle  == IdleExpiry(i, now)
           fresh == [status |-> "issued", installation |-> i,
                     tombstoneVersion |-> installation[i].tombstoneVersion,
                     credentialVersion |-> credential[c].version,
                     expiresAt |-> now + TicketTtl]
<1>1. latest' \in Nat /\ now + TicketTtl \in Nat
  BY ContextTyped, TimesNat, ConstantsAssumption DEF IssueSessionTicket
<1>2. i \in Installations
  BY AuthenticatedRefers DEF IssueSessionTicket
<1>3. idle \in Nat
  BY <1>2, IdleExpiryTyped
<1>4. fresh \in TicketRow /\ fresh.installation \in Installations
  BY <1>1, <1>2
     DEF TicketRow, Expiry, TypeInv, TypeOK, InstallationRow, CredentialRow
<1>5. /\ credential' = [credential EXCEPT ![c].idleExpiresAt = idle]
      /\ ticketTimes' = [ticketTimes EXCEPT ![i] = AddEvent(@, now, TicketQuota)]
      /\ ticket' = [ticket EXCEPT ![t] = fresh]
      /\ UNCHANGED <<pairing, installation, session, grants, issueTimes,
                     attemptTimes, reconnectTimes, audioLog>>
  BY DEF IssueSessionTicket
<1> HIDE DEF idle, fresh
<1>6. credential' \in [Credentials -> CredentialRow]
  BY <1>3, <1>5 DEF TypeInv, TypeOK, CredentialRow, Expiry
<1>7. ticket' \in [Tickets -> TicketRow]
  BY <1>4, <1>5 DEF TypeInv, TypeOK
<1>8. ticketTimes' \in [Installations -> [Times -> Nat]]
  BY <1>2, <1>5, AddEventTyped DEF TypeInv, TypeOK
<1>9. RowsRefer'
  <2>1. \A x \in Credentials :
          /\ credential'[x].installation = credential[x].installation
          /\ credential'[x].status = credential[x].status
    BY <1>5 DEF TypeInv, TypeOK, CredentialRow
  <2>2. QED
    BY <1>4, <1>5, <2>1 DEF TypeInv, TypeOK, RowsRefer
<1>10. PointersRefer'
  BY <1>5, PointersKept DEF TypeInv, TypeOK, CredentialRow, Keys
<1>11. QED
  BY <1>1, <1>5, <1>6, <1>7, <1>8, <1>9, <1>10 DEF TypeInv, TypeOK

LEMMA OpenedRowTyped ==
  ASSUME NEW row \in InstallationRow, NEW n \in Sessions, NEW epoch \in Nat
  PROVE  [row EXCEPT !.sessionEpoch = epoch, !.activeSession = n]
           \in InstallationRow
BY DEF InstallationRow

LEMMA ConsumeSessionTicketTyped ==
  ASSUME TypeInv, NEW now \in Times, NEW t \in Tickets, NEW n \in Sessions,
         ConsumeSessionTicket(now, t, n)
  PROVE  TypeInv'
<1> DEFINE i         == ticket[t].installation
           old       == OldSessions(i)
           reconnect == \E s \in old : Reconnects(s, now)
           epoch     == installation[i].sessionEpoch + 1
           row       == [installation[i] EXCEPT !.sessionEpoch = epoch,
                                                !.activeSession = n]
           opened    == [status |-> "opening", installation |-> i,
                         epoch |-> epoch,
                         credentialVersion |-> ticket[t].credentialVersion,
                         tombstoneVersion |-> installation[i].tombstoneVersion,
                         leaseExpiresAt |-> now + OpeningLease, ticket |-> t]
<1>1. latest' \in Nat /\ now + OpeningLease \in Nat
  BY ContextTyped, TimesNat, ConstantsAssumption DEF ConsumeSessionTicket
<1>2. i \in Installations
  BY DEF ConsumeSessionTicket, TicketConsumable, TypeInv, RowsRefer
<1>3. row \in InstallationRow
  <2>1. installation[i] \in InstallationRow
    BY <1>2 DEF TypeInv, TypeOK
  <2>2. epoch \in Nat
    BY <2>1 DEF InstallationRow
  <2> HIDE DEF epoch
  <2>3. QED
    BY <2>1, <2>2, OpenedRowTyped
<1>4. opened \in SessionRow /\ opened.installation \in Installations
  BY <1>1, <1>2
     DEF SessionRow, Expiry, TypeInv, TypeOK, InstallationRow, TicketRow
<1>5. /\ installation' = [installation EXCEPT ![i] = row]
      /\ ticket' = [ticket EXCEPT ![t].status = "consumed"]
      /\ reconnectTimes' =
           IF reconnect
           THEN [reconnectTimes EXCEPT ![i] = AddEvent(@, now, ReconnectQuota)]
           ELSE reconnectTimes
      /\ session' = [s \in Sessions |->
           IF s = n THEN opened
           ELSE IF s \in old THEN [session[s] EXCEPT !.status = "expired"]
           ELSE session[s]]
      /\ UNCHANGED <<pairing, credential, grants, issueTimes, attemptTimes,
                     ticketTimes, audioLog>>
      /\ ticket[t].status = "issued"
      /\ \A s \in old : OldExpired(s, now)
  BY DEF ConsumeSessionTicket, TicketConsumable
<1> HIDE DEF reconnect, row, opened
<1>6. installation' \in [Installations -> InstallationRow]
  BY <1>3, <1>5 DEF TypeInv, TypeOK
<1>7. ticket' \in [Tickets -> TicketRow]
  BY <1>5 DEF TypeInv, TypeOK, TicketRow
<1>8. reconnectTimes' \in [Installations -> [Times -> Nat]]
  BY <1>2, <1>5, AddEventTyped DEF TypeInv, TypeOK
<1>9. session' \in [Sessions -> SessionRow]
  BY <1>4, <1>5 DEF TypeInv, TypeOK, SessionRow
<1>10. \A s \in old : session[s].status \notin {"absent", "deleted"}
  BY <1>2 DEF OldSessions, TypeInv, PointersRefer
<1>11. RowsRefer'
  <2>1. ASSUME NEW s \in Sessions, session'[s].status \notin {"absent", "deleted"}
        PROVE  session'[s].installation \in Installations
    <3>1. CASE s = n
      BY <3>1, <1>4, <1>5
    <3>2. CASE s # n
      <4>1. session'[s].installation = session[s].installation
        BY <3>2, <1>5 DEF TypeInv, TypeOK, SessionRow
      <4>2. session[s].status \notin {"absent", "deleted"}
        BY <3>2, <1>5, <1>10, <2>1
      <4>3. QED
        BY <4>1, <4>2 DEF TypeInv, RowsRefer
    <3>3. QED
      BY <3>1, <3>2
  <2>2. \A x \in Tickets :
          /\ ticket'[x].installation = ticket[x].installation
          /\ ticket'[x].status \notin {"absent", "deleted"} =>
               ticket[x].status \notin {"absent", "deleted"}
    BY <1>5 DEF TypeInv, TypeOK, TicketRow
  <2>3. QED
    BY <1>5, <2>1, <2>2 DEF TypeInv, RowsRefer
<1>12. PointersRefer'
  <2>1. session'[n].status # "absent"
    BY <1>5 DEF opened
  <2>2. \A j \in Installations :
          /\ installation'[j].activeSession \in {installation[j].activeSession, n}
          /\ installation'[j].current = installation[j].current
          /\ installation'[j].pending = installation[j].pending
    BY <1>5 DEF row, TypeInv, TypeOK, InstallationRow
  <2>3. ASSUME NEW s \in Sessions, session[s].status # "absent"
        PROVE  session'[s].status # "absent"
    BY <1>5, <2>1, <2>3 DEF TypeInv, TypeOK, SessionRow
  <2>4. QED
    BY <1>5, <2>1, <2>2, <2>3, PointersKept DEF TypeInv, Keys
<1>13. QED
  BY <1>1, <1>5, <1>6, <1>7, <1>8, <1>9, <1>11, <1>12 DEF TypeInv, TypeOK

LEMMA RenewedRowTyped ==
  ASSUME NEW row \in SessionRow, NEW lease \in Nat
  PROVE  [row EXCEPT !.status = "active", !.leaseExpiresAt = lease] \in SessionRow
BY DEF SessionRow, Expiry

LEMMA DetachedRowTyped ==
  ASSUME NEW row \in InstallationRow
  PROVE  LET detached == [row EXCEPT !.activeSession = None] IN
         /\ detached \in InstallationRow
         /\ detached.activeSession = None
         /\ detached.current = row.current /\ detached.pending = row.pending
BY DEF InstallationRow

LEMMA RenewTyped ==
  ASSUME TypeInv, NEW now \in Times, NEW s \in Sessions, latest' \in Nat,
         session[s].status \in {"opening", "active"}, Renew(now, s)
  PROVE  TypeInv'
<1>1. now + ActiveLease \in Nat
  BY TimesNat, ConstantsAssumption
<1>2. /\ session' = [session EXCEPT
           ![s] = [@ EXCEPT !.status = "active", !.leaseExpiresAt = now + ActiveLease]]
      /\ UNCHANGED <<pairing, installation, credential, ticket, grants, rates>>
  BY DEF Renew
<1>3. session' \in [Sessions -> SessionRow]
  <2> DEFINE lease == now + ActiveLease
  <2>1. [session[s] EXCEPT !.status = "active", !.leaseExpiresAt = lease]
          \in SessionRow
    <3> HIDE DEF lease
    <3>1. lease \in Nat
      BY <1>1 DEF lease
    <3>2. QED
      BY <3>1, RenewedRowTyped DEF TypeInv, TypeOK
  <2>2. QED
    BY <1>2, <2>1 DEF TypeInv, TypeOK
<1>4. \A r \in Sessions : session'[r].installation = session[r].installation
  BY <1>2 DEF TypeInv, TypeOK, SessionRow
<1>5. \A r \in Sessions : session'[r].status # session[r].status => r = s
  BY <1>2 DEF TypeInv, TypeOK
<1>6. session'[s].status = "active"
  BY <1>2 DEF TypeInv, TypeOK, SessionRow
<1>7. RowsRefer'
  BY <1>2, <1>4, <1>5 DEF TypeInv, RowsRefer
<1>8. PointersRefer'
  BY <1>2, <1>5, <1>6 DEF TypeInv, PointersRefer, Keys
<1>9. QED
  BY <1>2, <1>3, <1>7, <1>8 DEF TypeInv, TypeOK, rates

LEMMA EndSessionTyped ==
  ASSUME TypeInv, NEW now \in Times, NEW s \in Sessions, EndSession(now, s)
  PROVE  TypeInv'
<1>1. latest' \in Nat /\ now \in Nat
  BY ContextTyped, TimesNat DEF EndSession
<1>2. /\ session' = EndedSessions({s}, now)
      /\ grants' = WithoutGrantsOf({s})
      /\ installation' = [installation EXCEPT
           ![session[s].installation].activeSession = None]
      /\ UNCHANGED <<pairing, credential, ticket, rates>>
      /\ session[s].status \in {"opening", "active"}
  BY DEF EndSession
<1>3. /\ session' \in [Sessions -> SessionRow]
      /\ \A r \in Sessions : session'[r].status \notin {"absent", "deleted"} =>
           session'[r].installation \in Installations
      /\ \A r \in Sessions : session[r].status # "absent" =>
           session'[r].status # "absent"
  BY <1>1, <1>2, EndedSessionsTyped
<1>4. installation' \in [Installations -> InstallationRow]
  <2> DEFINE i == session[s].installation
  <2>1. i \in Installations
    BY <1>2 DEF TypeInv, RowsRefer
  <2>2. [installation[i] EXCEPT !.activeSession = None] \in InstallationRow
    BY <2>1, DetachedRowTyped DEF TypeInv, TypeOK
  <2>3. installation' = [installation EXCEPT ![i] = [@ EXCEPT !.activeSession = None]]
    BY <1>2
  <2>4. QED
    BY <2>1, <2>2, <2>3 DEF TypeInv, TypeOK
<1>5. grants' \subseteq Grant
  BY <1>2 DEF TypeInv, TypeOK, WithoutGrantsOf
<1>6. PointersRefer'
  <2>1. \A j \in Installations :
          /\ installation'[j].activeSession \in {installation[j].activeSession, None}
          /\ installation'[j].current = installation[j].current
          /\ installation'[j].pending = installation[j].pending
    BY <1>2 DEF TypeInv, TypeOK, InstallationRow
  <2>2. QED
    BY <1>2, <1>3, <2>1, PointersKept, ConstantsAssumption DEF TypeInv, Keys
<1>7. QED
  BY <1>1, <1>2, <1>3, <1>4, <1>5, <1>6 DEF TypeInv, TypeOK, RowsRefer, rates

LEMMA ReservationTyped ==
  ASSUME TypeInv, NEW now \in Times, NEW id \in GrantIds, NEW s \in Sessions,
         NEW samples \in 1..MaxAudioGrantSamples, latest' \in Nat,
         ReservationCommitted(now, id, s, samples)
  PROVE  TypeInv'
<1> DEFINE i == session[s].installation
<1>1. i \in Installations
  BY DEF ReservationCommitted, GrantAdmitted, SessionActive, TypeInv, RowsRefer
<1>2. now \in Nat /\ now + AudioGrantTtl \in Nat /\ samples \in Nat
  BY TimesNat, ConstantsAssumption
<1>3. NewGrant(now, id, s, samples) \in Grant
  BY <1>2 DEF NewGrant, Grant, Expiry
<1>4. grants' \subseteq Grant
  BY <1>3 DEF ReservationCommitted, TypeInv, TypeOK
<1>5. AddAudio(audioLog[i], now, s, samples)
        \in [Sessions \X Times -> [grants : Nat, samples : Nat]]
  BY <1>1, <1>2, AddAudioTyped DEF TypeInv, TypeOK
<1>6. audioLog' = [audioLog EXCEPT ![i] = AddAudio(@, now, s, samples)]
  BY DEF ReservationCommitted
<1>7. audioLog' \in
        [Installations -> [Sessions \X Times -> [grants : Nat, samples : Nat]]]
  BY <1>1, <1>5, <1>6 DEF TypeInv, TypeOK
<1>8. QED
  BY <1>4, <1>7
     DEF ReservationCommitted, TypeInv, TypeOK, RowsRefer, PointersRefer, Keys

LEMMA RollBackAudioTyped ==
  ASSUME TypeInv, NEW now \in Times, NEW s \in Sessions,
         NEW samples \in 1..MaxAudioGrantSamples, NEW handoff \in Times,
         RollBackAudio(now, s, samples, handoff)
  PROVE  TypeInv'
BY TimesNat
   DEF RollBackAudio, TypeInv, TypeOK, RowsRefer, PointersRefer, Keys, rates

LEMMA RefuseAudioTyped ==
  ASSUME TypeInv, NEW now \in Times, NEW s, NEW samples, RefuseAudio(now, s, samples)
  PROVE  TypeInv'
BY ContextTyped
   DEF RefuseAudio, TypeInv, TypeOK, RowsRefer, PointersRefer, Keys, rates

LEMMA AudioTyped ==
  ASSUME TypeInv, NEW now \in Times, NEW id \in GrantIds, NEW s \in Sessions,
         NEW samples \in 1..MaxAudioGrantSamples, NEW handoff \in Times,
         ReserveAudio(now, id, s, samples, handoff)
           \/ StrandAudio(now, id, s, samples, handoff)
  PROVE  TypeInv'
BY TimesNat, ReservationTyped DEF ReserveAudio, StrandAudio

LEMMA CleanupPairingTyped ==
  ASSUME TypeInv, NEW now \in Times, NEW p \in Pairings, CleanupPairing(now, p)
  PROVE  TypeInv'
<1>1. latest' \in Nat
  BY ContextTyped DEF CleanupPairing
<1>2. pairing' \in [Pairings -> PairingRow]
  BY DEF CleanupPairing, TypeInv, TypeOK, PairingRow, NoPairing, Expiry
<1>3. QED
  BY <1>1, <1>2
     DEF CleanupPairing, TypeInv, TypeOK, RowsRefer, PointersRefer, Keys, rates

LEMMA CleanupTicketTyped ==
  ASSUME TypeInv, NEW now \in Times, NEW t \in Tickets, CleanupTicket(now, t)
  PROVE  TypeInv'
<1>1. latest' \in Nat
  BY ContextTyped DEF CleanupTicket
<1>2. ticket' \in [Tickets -> TicketRow]
  BY DEF CleanupTicket, TypeInv, TypeOK, TicketRow, NoTicket, Expiry
<1>3. \A x \in Tickets : ticket'[x].status \notin {"absent", "deleted"} =>
        ticket'[x] = ticket[x]
  BY DEF CleanupTicket, TypeInv, TypeOK, NoTicket
<1>4. QED
  BY <1>1, <1>2, <1>3
     DEF CleanupTicket, TypeInv, TypeOK, RowsRefer, PointersRefer, Keys, rates

LEMMA CleanupGrantTyped ==
  ASSUME TypeInv, NEW now \in Times, NEW g \in grants, CleanupGrant(now, g)
  PROVE  TypeInv'
<1>1. latest' \in Nat
  BY ContextTyped DEF CleanupGrant
<1>2. QED
  BY <1>1
     DEF CleanupGrant, TypeInv, TypeOK, RowsRefer, PointersRefer, Keys, rates

LEMMA CleanupCredentialTyped ==
  ASSUME TypeInv, NEW now \in Times, NEW c \in Credentials,
         CleanupCredential(now, c)
  PROVE  TypeInv'
<1>1. latest' \in Nat
  BY ContextTyped DEF CleanupCredential
<1>2. credential' \in [Credentials -> CredentialRow]
  BY DEF CleanupCredential, TypeInv, TypeOK, CredentialRow, NoCredential, Expiry
<1>3. \A i \in Installations : installation'[i] \in
        {installation[i], NoPending(installation[i])}
  BY DEF CleanupCredential
<1>4. installation' \in [Installations -> InstallationRow]
  <2>1. \A i \in Installations : installation'[i] \in InstallationRow
    BY <1>3, NoPendingTyped DEF TypeInv, TypeOK
  <2>2. QED
    BY <2>1 DEF CleanupCredential
<1>5. \A x \in Credentials : x # c => credential'[x] = credential[x]
  BY DEF CleanupCredential, TypeInv, TypeOK
<1>6. credential'[c].status = "deleted"
  BY DEF CleanupCredential, TypeInv, TypeOK, NoCredential
<1>7. PointersRefer'
  <2>1. \A j \in Installations :
          /\ installation'[j].activeSession = installation[j].activeSession
          /\ installation'[j].current = installation[j].current
          /\ installation'[j].pending \in {installation[j].pending, None}
    <3>1. \A j \in Installations : installation[j] \in InstallationRow
      BY DEF TypeInv, TypeOK
    <3>2. QED
      BY <1>3, <3>1, NoPendingTyped
  <2>2. UNCHANGED session
    BY DEF CleanupCredential
  <2>3. QED
    BY <1>5, <1>6, <2>1, <2>2, PointersKept, ConstantsAssumption DEF TypeInv, Keys
<1>8. QED
  BY <1>1, <1>2, <1>4, <1>5, <1>6, <1>7
     DEF CleanupCredential, TypeInv, TypeOK, RowsRefer, rates

LEMMA ExpiredRowTyped ==
  ASSUME NEW row \in InstallationRow, NEW endedAt \in Nat
  PROVE  [row EXCEPT !.status = "expired", !.endedAt = endedAt,
                     !.activeSession = None] \in InstallationRow
BY DEF InstallationRow

LEMMA DeletedInstallationTyped ==
  [NoInstallation EXCEPT !.status = "deleted"] \in InstallationRow
BY NoInstallationTyped DEF InstallationRow

LEMMA LapsedTyped ==
  ASSUME TypeInv, NEW i \in Installations, LapsedInstallation(i)
  PROVE  /\ credential' \in [Credentials -> CredentialRow]
         /\ session' \in [Sessions -> SessionRow]
         /\ grants' \subseteq Grant
         /\ \A c \in Credentials :
              /\ credential'[c].installation = credential[c].installation
              /\ credential'[c].status # credential[c].status =>
                   credential'[c].status = "expired" /\ credential[c].status \in {"current", "pending"}
         /\ \A s \in Sessions :
              /\ session'[s].installation = session[s].installation
              /\ session'[s].status # session[s].status =>
                   session'[s].status = "expired" /\ session[s].status \in {"opening", "active"}
<1> DEFINE held == {s \in Sessions : /\ s = installation[i].activeSession
                                     /\ session[s].status \in {"opening", "active"}}
<1>1. /\ credential' = [c \in Credentials |->
           IF c \in Keys(i) /\ credential[c].status \in {"current", "pending"}
           THEN [credential[c] EXCEPT !.status = "expired"] ELSE credential[c]]
      /\ session' = [s \in Sessions |->
           IF s \in held THEN [session[s] EXCEPT !.status = "expired"]
           ELSE session[s]]
      /\ grants' = WithoutGrantsOf(held)
  BY DEF LapsedInstallation
<1>2. \A s \in held : session[s].status \in {"opening", "active"}
  OBVIOUS
<1> HIDE DEF held
<1>3. ASSUME NEW c \in Credentials
      PROVE  /\ credential'[c] \in CredentialRow
             /\ credential'[c].installation = credential[c].installation
             /\ credential'[c].status # credential[c].status =>
                  credential'[c].status = "expired" /\ credential[c].status \in {"current", "pending"}
  BY <1>1 DEF TypeInv, TypeOK, CredentialRow
<1>4. ASSUME NEW s \in Sessions
      PROVE  /\ session'[s] \in SessionRow
             /\ session'[s].installation = session[s].installation
             /\ session'[s].status # session[s].status =>
                  session'[s].status = "expired" /\ session[s].status \in {"opening", "active"}
  BY <1>1, <1>2 DEF TypeInv, TypeOK, SessionRow
<1>5. grants' \subseteq Grant
  BY <1>1 DEF TypeInv, TypeOK, WithoutGrantsOf
<1>6. QED
  BY <1>1, <1>3, <1>4, <1>5

LEMMA CleanupInstallationTyped ==
  ASSUME TypeInv, NEW now \in Times, NEW i \in Installations,
         CleanupInstallation(now, i)
  PROVE  TypeInv'
<1> DEFINE lapses  == InstallationLapses(i, now)
           endedAt == IF lapses THEN installation[i].absoluteExpiresAt
                      ELSE installation[i].endedAt
           buried  == now - endedAt >= TombstoneTtl
           expired == [installation[i] EXCEPT
                         !.status = "expired", !.endedAt = endedAt,
                         !.activeSession = None]
           deleted == [NoInstallation EXCEPT !.status = "deleted"]
<1>1. latest' \in Nat
  BY ContextTyped DEF CleanupInstallation
<1>2. installation[i] \in InstallationRow
  BY DEF TypeInv, TypeOK
<1>3. expired \in InstallationRow
  <2>1. endedAt \in Nat
    BY <1>2 DEF InstallationRow, Expiry
  <2> HIDE DEF endedAt
  <2>2. QED
    BY <1>2, <2>1, ExpiredRowTyped
<1>4. deleted \in InstallationRow
  BY DeletedInstallationTyped
<1>5. /\ installation' = [installation EXCEPT
           ![i] = IF buried THEN deleted ELSE expired]
      /\ LapsedInstallation(i) \/ UNCHANGED <<credential, session, grants>>
      /\ UNCHANGED <<pairing, ticket, rates>>
  BY DEF CleanupInstallation
<1>6. /\ expired.current = installation[i].current
      /\ expired.pending = installation[i].pending
      /\ expired.activeSession = None
      /\ deleted.current = None /\ deleted.pending = None
      /\ deleted.activeSession = None
  BY <1>2 DEF InstallationRow, NoInstallation
<1> HIDE DEF expired, deleted, buried
<1>7. installation' \in [Installations -> InstallationRow]
  BY <1>3, <1>4, <1>5 DEF TypeInv, TypeOK
<1>8. /\ credential' \in [Credentials -> CredentialRow]
      /\ session' \in [Sessions -> SessionRow]
      /\ grants' \subseteq Grant
      /\ RowsRefer'
  BY <1>5, LapsedTyped DEF TypeInv, TypeOK, RowsRefer
<1>9. PointersRefer'
  <2>1. \A j \in Installations :
          /\ installation'[j].activeSession \in {installation[j].activeSession, None}
          /\ installation'[j].current \in {installation[j].current, None}
          /\ installation'[j].pending \in {installation[j].pending, None}
    <3>1. installation'[i] \in {deleted, expired}
      BY <1>5 DEF TypeInv, TypeOK
    <3>2. \A j \in Installations : j # i => installation'[j] = installation[j]
      BY <1>5 DEF TypeInv, TypeOK
    <3>3. QED
      BY <1>6, <3>1, <3>2
  <2>2. /\ \A x \in Credentials : credential[x].status # "absent" =>
                                    credential'[x].status # "absent"
        /\ \A s \in Sessions : session[s].status # "absent" =>
                                 session'[s].status # "absent"
    BY <1>5, LapsedTyped
  <2>3. QED
    BY <2>1, <2>2, PointersKept, ConstantsAssumption DEF TypeInv, Keys
<1>10. QED
  BY <1>1, <1>5, <1>7, <1>8, <1>9 DEF TypeInv, TypeOK, rates

LEMMA DeletedSessionTyped ==
  ASSUME NEW t \in Tickets \cup {None}
  PROVE  [NoSession EXCEPT !.status = "deleted", !.ticket = t] \in SessionRow
BY DEF SessionRow, NoSession, Expiry

LEMMA CleanupSessionTyped ==
  ASSUME TypeInv, NEW now \in Times, NEW s \in Sessions, CleanupSession(now, s)
  PROVE  TypeInv'
<1> DEFINE i       == session[s].installation
           deleted == [NoSession EXCEPT !.status = "deleted",
                                        !.ticket = session[s].ticket]
<1>1. latest' \in Nat
  BY ContextTyped DEF CleanupSession
<1>2. i \in Installations
  BY DEF CleanupSession, SessionLapses, TypeInv, RowsRefer
<1>3. deleted \in SessionRow
  BY DeletedSessionTyped DEF TypeInv, TypeOK, SessionRow
<1>4. deleted.status = "deleted"
  BY DEF NoSession
<1>5. /\ session' = [session EXCEPT ![s] = deleted]
      /\ grants' = WithoutGrantsOf({s})
      /\ \/ installation' = [installation EXCEPT ![i] = [@ EXCEPT !.activeSession = None]]
         \/ installation' = installation
      /\ UNCHANGED <<pairing, credential, ticket, rates>>
  BY DEF CleanupSession
<1> HIDE DEF deleted
<1>6. session' \in [Sessions -> SessionRow]
  BY <1>3, <1>5 DEF TypeInv, TypeOK
<1>7. [installation[i] EXCEPT !.activeSession = None] \in InstallationRow
  BY <1>2, DetachedRowTyped DEF TypeInv, TypeOK
<1>8. installation' \in [Installations -> InstallationRow]
  BY <1>5, <1>7 DEF TypeInv, TypeOK
<1>9. \A r \in Sessions : r # s => session'[r] = session[r]
  BY <1>5 DEF TypeInv, TypeOK
<1>10. session'[s].status = "deleted"
  BY <1>4, <1>5 DEF TypeInv, TypeOK
<1>11. PointersRefer'
  <2>1. \A j \in Installations :
          /\ installation'[j].activeSession \in {installation[j].activeSession, None}
          /\ installation'[j].current = installation[j].current
          /\ installation'[j].pending = installation[j].pending
    <3>1. \A j \in Installations : installation[j] \in InstallationRow
      BY DEF TypeInv, TypeOK
    <3>2. ASSUME NEW j \in Installations
          PROVE  \/ installation'[j] = installation[j]
                 \/ installation'[j] = [installation[j] EXCEPT !.activeSession = None]
      BY <1>5 DEF TypeInv, TypeOK
    <3>3. ASSUME NEW j \in Installations
          PROVE  LET detached == [installation[j] EXCEPT !.activeSession = None] IN
                 /\ detached.activeSession = None
                 /\ detached.current = installation[j].current
                 /\ detached.pending = installation[j].pending
      BY <3>1, DetachedRowTyped
    <3>4. QED
      BY <3>2, <3>3
  <2>2. QED
    BY <1>5, <1>9, <1>10, <2>1, PointersKept, ConstantsAssumption DEF TypeInv, Keys
<1>12. grants' \subseteq Grant
  BY <1>5 DEF TypeInv, TypeOK, WithoutGrantsOf
<1>13. QED
  BY <1>1, <1>5, <1>6, <1>8, <1>9, <1>10, <1>11, <1>12
     DEF TypeInv, TypeOK, RowsRefer, rates

LEMMA RefreshedTyped ==
  ASSUME TypeInv, NEW now \in Times, NEW i \in Installations
  PROVE  /\ RefreshedInstallation(i, now) \in InstallationRow
         /\ RefreshedInstallation(i, now).current = installation[i].current
         /\ RefreshedInstallation(i, now).pending \in {installation[i].pending, None}
         /\ RefreshedInstallation(i, now).activeSession
              = IF DetachedSessions(i, now) = {} THEN installation[i].activeSession
                ELSE None
         /\ RefreshedInstallation(i, now).status = RefreshedStatus(i, now)
<1> DEFINE row     == installation[i]
           dropped == row.pending # None /\ now >= row.pendingExpiresAt
           base    == IF dropped THEN NoPending(row) ELSE row
           endedAt == IF InstallationLapses(i, now) THEN row.absoluteExpiresAt
                      ELSE base.endedAt
           active  == IF DetachedSessions(i, now) = {} THEN base.activeSession
                      ELSE None
           status  == RefreshedStatus(i, now)
<1>1. row \in InstallationRow
  BY DEF TypeInv, TypeOK
<1>2. base \in InstallationRow
  BY <1>1, NoPendingTyped
<1>3. /\ base.current = row.current
      /\ base.pending \in {row.pending, None}
      /\ base.activeSession = row.activeSession
  BY <1>1 DEF NoPending, InstallationRow
<1>4. RefreshedInstallation(i, now) =
        [base EXCEPT !.status = status, !.endedAt = endedAt, !.activeSession = active]
  BY DEF RefreshedInstallation
<1>5. endedAt \in Nat
  BY <1>1, <1>2 DEF InstallationRow, Expiry
<1>6. active \in Sessions \cup {None}
  BY <1>2 DEF InstallationRow
<1>7. status \in {"absent", "active", "revoked", "expired", "deleted"}
  BY <1>1 DEF RefreshedStatus, InstallationRow
<1>8. active = IF DetachedSessions(i, now) = {} THEN row.activeSession ELSE None
  BY <1>3
<1> HIDE DEF row, base, endedAt, active, status
<1>9. ASSUME NEW r \in InstallationRow
      PROVE  LET n == [r EXCEPT !.status = status, !.endedAt = endedAt,
                                !.activeSession = active] IN
             /\ n \in InstallationRow
             /\ n.current = r.current /\ n.pending = r.pending
             /\ n.activeSession = active /\ n.status = status
  BY <1>5, <1>6, <1>7 DEF InstallationRow
<1>10. QED
  BY <1>2, <1>3, <1>4, <1>8, <1>9 DEF row, status

LEMMA SnapshotTyped ==
  ASSUME TypeInv, NEW now \in Times, Snapshot(now)
  PROVE  TypeInv'
<1> DEFINE detached == UNION {DetachedSessions(i, now) : i \in Installations}
           lapsed   == {s \in detached :
                          session[s].status \notin {"ended", "revoked", "deleted"}}
<1>1. latest' \in Nat
  BY ContextTyped DEF Snapshot
<1>2. /\ pairing' = [p \in Pairings |->
           [pairing[p] EXCEPT !.status = PairingAfterExpiry(p, now)]]
      /\ installation' = [i \in Installations |-> RefreshedInstallation(i, now)]
      /\ credential' = [c \in Credentials |->
           [credential[c] EXCEPT !.status = CredentialAfterExpiry(c, now)]]
      /\ ticket' = [t \in Tickets |->
           [ticket[t] EXCEPT !.status = TicketAfterExpiry(t, now)]]
      /\ session' = [s \in Sessions |->
           IF s \in lapsed THEN [session[s] EXCEPT !.status = "expired"]
           ELSE session[s]]
      /\ grants' = {g \in WithoutGrantsOf(lapsed) : now < g.expiresAt}
      /\ UNCHANGED rates
  BY DEF Snapshot
<1>3. \A s \in lapsed : s \in Sessions /\ session[s].status \notin {"absent", "deleted"}
  <2>1. ASSUME NEW i \in Installations, NEW s \in DetachedSessions(i, now)
        PROVE  s \in Sessions /\ session[s].status # "absent"
    BY <2>1 DEF DetachedSessions, TypeInv, PointersRefer
  <2>2. QED
    BY <2>1
<1> HIDE DEF lapsed
<1>4. pairing' \in [Pairings -> PairingRow]
  BY <1>2 DEF PairingAfterExpiry, TypeInv, TypeOK, PairingRow
<1>5. ASSUME NEW c \in Credentials
      PROVE  /\ credential'[c] \in CredentialRow
             /\ credential'[c].installation = credential[c].installation
             /\ credential'[c].status \in {credential[c].status, "expired"}
             /\ credential[c].status \in {"absent", "deleted"} =>
                  credential'[c].status = credential[c].status
  BY <1>2 DEF CredentialAfterExpiry, TypeInv, TypeOK, CredentialRow
<1>6. ASSUME NEW t \in Tickets
      PROVE  /\ ticket'[t] \in TicketRow
             /\ ticket'[t].installation = ticket[t].installation
             /\ ticket[t].status \in {"absent", "deleted"} =>
                  ticket'[t].status = ticket[t].status
  BY <1>2 DEF TicketAfterExpiry, TypeInv, TypeOK, TicketRow
<1>7. ASSUME NEW s \in Sessions
      PROVE  /\ session'[s] \in SessionRow
             /\ session'[s].installation = session[s].installation
             /\ session'[s].status \in {session[s].status, "expired"}
             /\ session[s].status \in {"absent", "deleted"} =>
                  session'[s].status = session[s].status
  BY <1>2, <1>3 DEF TypeInv, TypeOK, SessionRow
<1>8. installation' \in [Installations -> InstallationRow]
  BY <1>2, RefreshedTyped
<1>9. grants' \subseteq Grant
  BY <1>2 DEF WithoutGrantsOf, TypeInv, TypeOK
<1>10. PointersRefer'
  <2>1. \A j \in Installations :
          /\ installation'[j].activeSession \in {installation[j].activeSession, None}
          /\ installation'[j].current = installation[j].current
          /\ installation'[j].pending \in {installation[j].pending, None}
    BY <1>2, RefreshedTyped
  <2>2. QED
    BY <1>5, <1>7, <2>1, PointersKept, ConstantsAssumption DEF TypeInv, Keys
<1>11. QED
  BY <1>1, <1>2, <1>4, <1>5, <1>6, <1>7, <1>8, <1>9, <1>10
     DEF TypeInv, TypeOK, RowsRefer, rates

LEMMA InitTyped == Init => TypeInv
<1> SUFFICES ASSUME Init PROVE TypeInv
  OBVIOUS
<1>1. pairing \in [Pairings -> PairingRow]
  BY DEF Init, PairingRow, NoPairing, Expiry
<1>2. installation \in [Installations -> InstallationRow]
  BY NoInstallationTyped DEF Init
<1>3. credential \in [Credentials -> CredentialRow]
  BY DEF Init, CredentialRow, NoCredential, Expiry
<1>4. ticket \in [Tickets -> TicketRow]
  BY DEF Init, TicketRow, NoTicket, Expiry
<1>5. session \in [Sessions -> SessionRow]
  BY DEF Init, SessionRow, NoSession, Expiry
<1>6. /\ issueTimes \in [Times -> Nat] /\ attemptTimes \in [Times -> Nat]
      /\ ticketTimes \in [Installations -> [Times -> Nat]]
      /\ reconnectTimes \in [Installations -> [Times -> Nat]]
      /\ audioLog \in
           [Installations -> [Sessions \X Times -> [grants : Nat, samples : Nat]]]
  BY DEF Init, NoEvents, NoAudio
<1>7. latest \in Nat /\ grants = {}
  BY DEF Init
<1>8. RowsRefer
  BY DEF Init, RowsRefer, NoCredential, NoTicket, NoSession
<1>9. PointersRefer
  BY ConstantsAssumption DEF Init, PointersRefer, Keys, NoInstallation
<1>10. QED
  BY <1>1, <1>2, <1>3, <1>4, <1>5, <1>6, <1>7, <1>8, <1>9 DEF TypeInv, TypeOK

LEMMA StepTyped ==
  ASSUME TypeInv, NEW now \in Times, StoreStep(now) \/ Snapshot(now)
  PROVE  TypeInv'
<1>1. CASE Observe(now)
  BY <1>1, ObserveTyped
<1>2. CASE PairingStep(now)
  BY <1>2, IssuePairingTyped, RevokePairingTyped, CleanupPairingTyped,
     RedeemPairingTyped DEF PairingStep
<1>3. CASE RefuseRedemption(now)
  BY <1>3, RefuseRedemptionTyped
<1>4. CASE CredentialStep(now)
  <2>1. ASSUME NEW c \in Credentials, RevokeCurrentInstallation(now, c)
        PROVE  TypeInv'
    BY <2>1, ContextTyped, AuthenticatedRefers, RevokedTyped
       DEF RevokeCurrentInstallation
  <2>2. QED
    BY <1>4, <2>1, AuthenticateCredentialTyped, PromoteCredentialTyped,
       CleanupCredentialTyped, BeginCredentialRotationTyped,
       IssueSessionTicketTyped DEF CredentialStep
<1>5. CASE InstallationStep(now)
  BY <1>5, ContextTyped, RevokedTyped, CleanupInstallationTyped
     DEF InstallationStep, RevokeInstallation
<1>6. CASE SessionStep(now)
  <2>1. ASSUME NEW s \in Sessions, ActivateSession(now, s) \/ HeartbeatSession(now, s)
        PROVE  TypeInv'
    BY <2>1, ContextTyped, RenewTyped
       DEF ActivateSession, HeartbeatSession, SessionActive
  <2>2. QED
    BY <1>6, <2>1, CleanupTicketTyped, ConsumeSessionTicketTyped,
       EndSessionTyped, CleanupSessionTyped DEF SessionStep
<1>7. CASE AudioStep(now)
  BY <1>7, CleanupGrantTyped, RefuseAudioTyped, RollBackAudioTyped, AudioTyped
     DEF AudioStep
<1>8. CASE Snapshot(now)
  BY <1>8, SnapshotTyped
<1>9. QED
  BY <1>1, <1>2, <1>3, <1>4, <1>5, <1>6, <1>7, <1>8 DEF StoreStep

LEMMA StutterTyped == TypeInv /\ UNCHANGED storeVars => TypeInv'
BY DEF storeVars, rows, rates, TypeInv, TypeOK, RowsRefer, PointersRefer, Keys

\* Every call leaves rows of their shape, and no row in use refers to an
\* installation, a credential or a session that never existed.
THEOREM TypeInvariant == Spec => []TypeInv
<1>1. TypeInv /\ [StoreNext]_storeVars => TypeInv'
  BY StepTyped, StutterTyped DEF StoreNext
<1>2. QED
  BY <1>1, InitTyped, PTL DEF Spec

\* Type correctness of the store, for every instance: each table keeps rows of
\* its own shape through every call, cleanup and snapshot.
THEOREM TypeCorrect == Spec => []TypeOK
BY TypeInvariant, PTL DEF TypeInv

(***************************************************************************)
(* Open sessions.  Fenced(s) is what OneLiveSession and                    *)
(* LiveSessionAuthorised ask of a live session.  It is inductive for the   *)
(* sessions whose row is open, whether or not the lease has run out: such  *)
(* a session belongs to an active installation that points at it, in the   *)
(* same credential and tombstone versions and with the newest epoch.       *)
(***************************************************************************)
Fenced(s) ==
  LET i == session[s].installation IN
  /\ installation[i].status = "active"
  /\ SessionFenced(s)
  /\ installation[i].sessionEpoch = session[s].epoch

Open(s) == session[s].status \in {"opening", "active"}

OpenFenced == \A s \in Sessions : Open(s) => Fenced(s)

\* A step does not prolong a lease that has run out.
LeaseKept(s) == Live(s)' => Live(s)

\* A step leaves everything as it was that Fenced(s) reads, and starts no lease.
KeepsStanding(s) ==
  LET i == session[s].installation IN
  /\ Open(s) /\ LeaseKept(s)
  /\ session'[s].installation = i
  /\ session'[s].epoch = session[s].epoch
  /\ session'[s].credentialVersion = session[s].credentialVersion
  /\ session'[s].tombstoneVersion = session[s].tombstoneVersion
  /\ installation'[i].status = installation[i].status
  /\ installation'[i].tombstoneVersion = installation[i].tombstoneVersion
  /\ installation'[i].activeSession = installation[i].activeSession
  /\ installation'[i].currentVersion = installation[i].currentVersion
  /\ installation'[i].sessionEpoch = installation[i].sessionEpoch

\* What every step is shown to do to a session that is open after it.
Continues(s) ==
  \/ KeepsStanding(s)
  \/ session[s].status = "absent" /\ Fenced(s)'

LEMMA ClockAdvances ==
  ASSUME TypeInv, NEW now \in Times, Accepts(now)
  PROVE  now \in Nat /\ latest \in Nat /\ latest <= now
BY TimesNat DEF Accepts, Observed, TypeInv, TypeOK

LEMMA OpenRefers ==
  ASSUME TypeInv, OpenFenced, NEW s \in Sessions, Open(s)
  PROVE  /\ session[s].installation \in Installations
         /\ installation[session[s].installation].status = "active"
         /\ s = installation[session[s].installation].activeSession
BY DEF TypeInv, RowsRefer, OpenFenced, Open, Fenced, SessionFenced

\* Time alone ends leases and starts none.
LEMMA ClockContinues ==
  ASSUME TypeInv, NEW s \in Sessions, latest' \in Nat, latest <= latest',
         session'[s] = session[s], Open(s)'
  PROVE  Open(s) /\ LeaseKept(s)
BY DEF Open, LeaseKept, Live, TypeInv, TypeOK, SessionRow, Expiry

LEMMA QuietContinues ==
  ASSUME TypeInv, NEW s \in Sessions, latest' \in Nat, latest <= latest',
         UNCHANGED <<session, installation>>, Open(s)'
  PROVE  Continues(s)
BY ClockContinues DEF Continues, KeepsStanding

LEMMA RedeemPairingContinues ==
  ASSUME TypeInv, OpenFenced, NEW now \in Times, NEW p \in Pairings,
         NEW i \in Installations, NEW c \in Credentials,
         RedeemPairing(now, p, i, c), NEW s \in Sessions, Open(s)'
  PROVE  Continues(s)
<1>1. latest' \in Nat /\ latest <= latest' /\ UNCHANGED session
  BY ClockAdvances DEF RedeemPairing, Context
<1>2. Open(s) /\ LeaseKept(s)
  BY <1>1, ClockContinues
<1>3. session[s].installation # i
  BY <1>2, OpenRefers DEF RedeemPairing
<1>4. \A j \in Installations : j # i => installation'[j] = installation[j]
  BY DEF RedeemPairing, TypeInv, TypeOK
<1>5. QED
  BY <1>1, <1>2, <1>3, <1>4, OpenRefers DEF Continues, KeepsStanding

LEMMA BeginCredentialRotationContinues ==
  ASSUME TypeInv, OpenFenced, NEW now \in Times, NEW c \in Credentials,
         NEW n \in Credentials, BeginCredentialRotation(now, c, n),
         NEW s \in Sessions, Open(s)'
  PROVE  Continues(s)
<1>1. latest' \in Nat /\ latest <= latest' /\ UNCHANGED session
  BY ClockAdvances DEF BeginCredentialRotation, Context
<1>2. Open(s) /\ LeaseKept(s)
  BY <1>1, ClockContinues
<1>3. \A j \in Installations :
        /\ installation'[j].status = installation[j].status
        /\ installation'[j].tombstoneVersion = installation[j].tombstoneVersion
        /\ installation'[j].activeSession = installation[j].activeSession
        /\ installation'[j].currentVersion = installation[j].currentVersion
        /\ installation'[j].sessionEpoch = installation[j].sessionEpoch
  BY DEF BeginCredentialRotation, TypeInv, TypeOK, InstallationRow
<1>4. QED
  BY <1>1, <1>2, <1>3, OpenRefers DEF Continues, KeepsStanding

LEMMA EndedNotOpen ==
  ASSUME TypeInv, NEW S, NEW now, NEW s \in Sessions,
         session' = EndedSessions(S, now), Open(s)'
  PROVE  s \notin S /\ session'[s] = session[s]
<1>1. s \in S => session'[s].status = "ended"
  BY DEF EndedSessions, TypeInv, TypeOK, SessionRow
<1>2. s \notin S
  BY <1>1 DEF Open
<1>3. QED
  BY <1>2 DEF EndedSessions

LEMMA PromoteCredentialContinues ==
  ASSUME TypeInv, OpenFenced, NEW now \in Times, NEW c \in Credentials,
         PromoteCredential(now, c), NEW s \in Sessions, Open(s)'
  PROVE  Continues(s)
<1> DEFINE i         == credential[c].installation
           prior     == PriorSessions(i, c)
           remaining == IF prior = {} THEN installation[i].activeSession ELSE None
<1>1. latest' \in Nat /\ latest <= latest'
  BY ClockAdvances DEF PromoteCredential, Context
<1>2. session' = EndedSessions(prior, now)
  BY DEF PromoteCredential
<1>3. s \notin prior /\ session'[s] = session[s]
  BY <1>2, EndedNotOpen
<1>4. Open(s) /\ LeaseKept(s)
  BY <1>1, <1>3, ClockContinues
<1>5. i \in Installations
  BY AuthenticatedRefers DEF PromoteCredential
<1>6. installation' = [installation EXCEPT
        ![i] = [NoPending(@) EXCEPT
                  !.current = c, !.currentVersion = credential[c].version,
                  !.activeSession = remaining]]
  BY DEF PromoteCredential
<1>7. /\ \A j \in Installations : j # i => installation'[j] = installation[j]
      /\ installation'[i].status = installation[i].status
      /\ installation'[i].tombstoneVersion = installation[i].tombstoneVersion
      /\ installation'[i].activeSession = remaining
      /\ installation'[i].currentVersion = credential[c].version
      /\ installation'[i].sessionEpoch = installation[i].sessionEpoch
  <2> HIDE DEF remaining
  <2>1. installation[i] \in InstallationRow
    BY <1>5 DEF TypeInv, TypeOK
  <2>2. QED
    BY <1>5, <1>6, <2>1 DEF TypeInv, TypeOK, NoPending, InstallationRow
<1>8. CASE session[s].installation = i
  <2>1. /\ s = installation[i].activeSession
        /\ session[s].credentialVersion = installation[i].currentVersion
    BY <1>4, <1>8 DEF OpenFenced, Fenced, SessionFenced
  <2>2. credential[c].version = session[s].credentialVersion
    BY <1>3, <1>4, <2>1 DEF PriorSessions, Open
  <2>3. prior = {}
    BY <1>3, <2>1 DEF PriorSessions
  <2>4. QED
    BY <1>3, <1>4, <1>7, <1>8, <2>1, <2>2, <2>3 DEF Continues, KeepsStanding
<1>9. CASE session[s].installation # i
  BY <1>3, <1>4, <1>7, <1>9, OpenRefers DEF Continues, KeepsStanding
<1>10. QED
  BY <1>8, <1>9

LEMMA RevokedContinues ==
  ASSUME TypeInv, OpenFenced, NEW now \in Times, NEW i \in Installations,
         Context(now), Revoked(now, i), NEW s \in Sessions, Open(s)'
  PROVE  Continues(s)
<1>1. latest' \in Nat /\ latest <= latest'
  BY ClockAdvances DEF Context
<1>2. s # installation[i].activeSession /\ session'[s] = session[s]
  <2>1. s = installation[i].activeSession =>
          session'[s].status \in {"revoked", "deleted"}
    BY DEF Revoked, TypeInv, TypeOK, SessionRow
  <2>2. s # installation[i].activeSession
    BY <2>1 DEF Open
  <2>3. QED
    BY <2>2 DEF Revoked
<1>3. Open(s) /\ LeaseKept(s)
  BY <1>1, <1>2, ClockContinues
<1>4. session[s].installation # i
  BY <1>2, <1>3, OpenRefers
<1>5. \A j \in Installations : j # i => installation'[j] = installation[j]
  BY DEF Revoked, TypeInv, TypeOK
<1>6. QED
  BY <1>2, <1>3, <1>4, <1>5, OpenRefers DEF Continues, KeepsStanding

LEMMA ConsumeSessionTicketContinues ==
  ASSUME TypeInv, OpenFenced, NEW now \in Times, NEW t \in Tickets,
         NEW n \in Sessions, ConsumeSessionTicket(now, t, n),
         NEW s \in Sessions, Open(s)'
  PROVE  Continues(s)
<1> DEFINE i      == ticket[t].installation
           epoch  == installation[i].sessionEpoch + 1
           opened == [status |-> "opening", installation |-> i, epoch |-> epoch,
                      credentialVersion |-> ticket[t].credentialVersion,
                      tombstoneVersion |-> installation[i].tombstoneVersion,
                      leaseExpiresAt |-> now + OpeningLease, ticket |-> t]
<1>1. latest' \in Nat /\ latest <= latest'
  BY ClockAdvances DEF ConsumeSessionTicket, Context
<1>2. i \in Installations
  BY DEF ConsumeSessionTicket, TicketConsumable, TypeInv, RowsRefer
<1>3. /\ session' = [r \in Sessions |->
           IF r = n THEN opened
           ELSE IF r \in OldSessions(i) THEN [session[r] EXCEPT !.status = "expired"]
           ELSE session[r]]
      /\ installation' = [installation EXCEPT
           ![i] = [@ EXCEPT !.sessionEpoch = epoch, !.activeSession = n]]
      /\ session[n].status = "absent"
      /\ installation[i].status = "active"
      /\ installation[i].currentVersion = ticket[t].credentialVersion
  BY DEF ConsumeSessionTicket, TicketConsumable, InstallationActive
<1> HIDE DEF epoch
<1>4. /\ \A j \in Installations : j # i => installation'[j] = installation[j]
      /\ installation'[i].status = installation[i].status
      /\ installation'[i].tombstoneVersion = installation[i].tombstoneVersion
      /\ installation'[i].activeSession = n
      /\ installation'[i].currentVersion = installation[i].currentVersion
      /\ installation'[i].sessionEpoch = epoch
  BY <1>2, <1>3 DEF TypeInv, TypeOK, InstallationRow
<1>5. CASE s = n
  <2>1. session'[s] = opened
    BY <1>3, <1>5
  <2>2. Fenced(s)'
    BY <1>3, <1>4, <1>5, <2>1 DEF Fenced, SessionFenced
  <2>3. QED
    BY <1>3, <1>5, <2>2 DEF Continues
<1>6. CASE s # n
  <2>1. s \notin OldSessions(i) /\ session'[s] = session[s]
    BY <1>3, <1>6 DEF Open, TypeInv, TypeOK, SessionRow
  <2>2. Open(s) /\ LeaseKept(s)
    BY <1>1, <2>1, ClockContinues
  <2>3. session[s].installation # i
    BY <2>1, <2>2, OpenRefers DEF OldSessions, Open
  <2>4. QED
    BY <1>4, <2>1, <2>2, <2>3, OpenRefers DEF Continues, KeepsStanding
<1>7. QED
  BY <1>5, <1>6

LEMMA RenewContinues ==
  ASSUME TypeInv, OpenFenced, NEW now \in Times, NEW r \in Sessions,
         ActivateSession(now, r) \/ HeartbeatSession(now, r),
         NEW s \in Sessions, Open(s)'
  PROVE  Continues(s)
<1>1. latest' \in Nat /\ latest <= now /\ now \in Nat /\ latest' = now
  BY ClockAdvances DEF ActivateSession, HeartbeatSession, Context
<1>2. /\ session[r].status \in {"opening", "active"}
      /\ now < session[r].leaseExpiresAt
      /\ session' = [session EXCEPT
           ![r] = [@ EXCEPT !.status = "active", !.leaseExpiresAt = now + ActiveLease]]
      /\ UNCHANGED installation
  BY DEF ActivateSession, HeartbeatSession, SessionActive, Renew
<1>3. Open(s) /\ LeaseKept(s)
  <2>1. CASE s = r
    BY <1>1, <1>2, <2>1 DEF LeaseKept, Live, Open, TypeInv, TypeOK, SessionRow, Expiry
  <2>2. CASE s # r
    BY <1>1, <1>2, <2>2, ClockContinues DEF TypeInv, TypeOK
  <2>3. QED
    BY <2>1, <2>2
<1>4. /\ session'[s].installation = session[s].installation
      /\ session'[s].epoch = session[s].epoch
      /\ session'[s].credentialVersion = session[s].credentialVersion
      /\ session'[s].tombstoneVersion = session[s].tombstoneVersion
  BY <1>2 DEF TypeInv, TypeOK, SessionRow
<1>5. QED
  BY <1>2, <1>3, <1>4 DEF Continues, KeepsStanding

LEMMA EndSessionContinues ==
  ASSUME TypeInv, OpenFenced, NEW now \in Times, NEW r \in Sessions,
         EndSession(now, r), NEW s \in Sessions, Open(s)'
  PROVE  Continues(s)
<1>1. latest' \in Nat /\ latest <= latest'
  BY ClockAdvances DEF EndSession, Context
<1>2. /\ session' = EndedSessions({r}, now)
      /\ installation' = [installation EXCEPT
           ![session[r].installation].activeSession = None]
      /\ installation[session[r].installation].activeSession = r
  BY DEF EndSession, SessionFenced
<1>3. s # r /\ session'[s] = session[s]
  BY <1>2, EndedNotOpen
<1>4. Open(s) /\ LeaseKept(s)
  BY <1>1, <1>3, ClockContinues
<1>5. session[s].installation # session[r].installation
  BY <1>2, <1>3, <1>4, OpenRefers
<1>6. installation'[session[s].installation] = installation[session[s].installation]
  BY <1>2, <1>4, <1>5, OpenRefers DEF TypeInv, TypeOK
<1>7. QED
  BY <1>3, <1>4, <1>6 DEF Continues, KeepsStanding

\* Two rows of an installation that a session of it reads alike.
SameFence(a, b) ==
  /\ a.status = b.status
  /\ a.tombstoneVersion = b.tombstoneVersion
  /\ a.activeSession = b.activeSession
  /\ a.currentVersion = b.currentVersion
  /\ a.sessionEpoch = b.sessionEpoch

LEMMA SameFenceContinues ==
  ASSUME TypeInv, OpenFenced, latest' \in Nat, latest <= latest',
         NEW s \in Sessions, Open(s)', session'[s] = session[s],
         SameFence(installation'[session[s].installation],
                   installation[session[s].installation])
  PROVE  Continues(s)
BY ClockContinues DEF SameFence, Continues, KeepsStanding

LEMMA NoPendingSameFence ==
  ASSUME NEW row \in InstallationRow
  PROVE  SameFence(NoPending(row), row)
BY DEF SameFence, NoPending, InstallationRow

LEMMA CleanupCredentialContinues ==
  ASSUME TypeInv, OpenFenced, NEW now \in Times, NEW c \in Credentials,
         CleanupCredential(now, c), NEW s \in Sessions, Open(s)'
  PROVE  Continues(s)
<1> DEFINE i == session[s].installation
<1>1. latest' \in Nat /\ latest <= latest' /\ UNCHANGED session
  BY ClockAdvances DEF CleanupCredential, Context
<1>2. i \in Installations
  BY <1>1, ClockContinues, OpenRefers
<1>3. installation'[i] = installation[i] \/ installation'[i] = NoPending(installation[i])
  BY <1>2 DEF CleanupCredential
<1>4. SameFence(NoPending(installation[i]), installation[i])
  BY <1>2, NoPendingSameFence DEF TypeInv, TypeOK
<1>5. SameFence(installation[i], installation[i])
  BY DEF SameFence
<1>6. QED
  BY <1>1, <1>3, <1>4, <1>5, SameFenceContinues

LEMMA CleanupInstallationContinues ==
  ASSUME TypeInv, OpenFenced, NEW now \in Times, NEW i \in Installations,
         CleanupInstallation(now, i), NEW s \in Sessions, Open(s)'
  PROVE  Continues(s)
<1>1. latest' \in Nat /\ latest <= latest'
  BY ClockAdvances DEF CleanupInstallation, Context
<1>2. session'[s] = session[s]
  <2>1. CASE InstallationLapses(i, now)
    <3>1. LapsedInstallation(i)
      BY <2>1 DEF CleanupInstallation
    <3>2. session'[s].status # "expired"
      BY DEF Open
    <3>3. QED
      BY <3>1, <3>2 DEF LapsedInstallation, TypeInv, TypeOK, SessionRow
  <2>2. CASE ~InstallationLapses(i, now)
    BY <2>2 DEF CleanupInstallation
  <2>3. QED
    BY <2>1, <2>2
<1>3. Open(s) /\ LeaseKept(s)
  BY <1>1, <1>2, ClockContinues
<1>4. session[s].installation # i
  <2>1. SUFFICES ASSUME session[s].installation = i PROVE FALSE
    OBVIOUS
  <2>2. installation[i].status = "active" /\ s = installation[i].activeSession
    BY <1>3, <2>1, OpenRefers
  <2>3. InstallationLapses(i, now)
    BY <2>2 DEF CleanupInstallation
  <2>4. session'[s].status = "expired"
    BY <1>3, <2>2, <2>3
       DEF CleanupInstallation, LapsedInstallation, Open, TypeInv, TypeOK, SessionRow
  <2>5. QED
    BY <2>4 DEF Open
<1>5. \A j \in Installations : j # i => installation'[j] = installation[j]
  BY DEF CleanupInstallation, TypeInv, TypeOK
<1>6. QED
  BY <1>1, <1>2, <1>3, <1>4, <1>5, OpenRefers, SameFenceContinues DEF SameFence

LEMMA CleanupSessionContinues ==
  ASSUME TypeInv, OpenFenced, NEW now \in Times, NEW r \in Sessions,
         CleanupSession(now, r), NEW s \in Sessions, Open(s)'
  PROVE  Continues(s)
<1> DEFINE i == session[r].installation
<1>1. latest' \in Nat /\ latest <= latest'
  BY ClockAdvances DEF CleanupSession, Context
<1>2. session'[r].status = "deleted"
  BY DEF CleanupSession, NoSession, TypeInv, TypeOK
<1>3. s # r
  BY <1>2 DEF Open
<1>4. session'[s] = session[s]
  BY <1>3 DEF CleanupSession, TypeInv, TypeOK
<1>5. Open(s) /\ LeaseKept(s)
  BY <1>1, <1>4, ClockContinues
<1>6. installation[session[s].installation].activeSession # r
  BY <1>3, <1>5, OpenRefers
<1>7. installation'[session[s].installation] = installation[session[s].installation]
  BY <1>5, <1>6, OpenRefers DEF CleanupSession, TypeInv, TypeOK
<1>8. QED
  BY <1>1, <1>4, <1>7, SameFenceContinues DEF SameFence

LEMMA SnapshotContinues ==
  ASSUME TypeInv, OpenFenced, NEW now \in Times, Snapshot(now),
         NEW s \in Sessions, Open(s)'
  PROVE  Continues(s)
<1> DEFINE i        == session[s].installation
           detached == UNION {DetachedSessions(j, now) : j \in Installations}
           lapsed   == {r \in detached :
                          session[r].status \notin {"ended", "revoked", "deleted"}}
<1>1. latest' \in Nat /\ latest <= latest'
  BY ClockAdvances DEF Snapshot, Context
<1>2. session'[s] = IF s \in lapsed THEN [session[s] EXCEPT !.status = "expired"]
                    ELSE session[s]
  BY DEF Snapshot
<1>3. s \notin lapsed
  <2> HIDE DEF lapsed
  <2>1. s \in lapsed => session'[s].status = "expired"
    BY <1>2 DEF TypeInv, TypeOK, SessionRow
  <2>2. QED
    BY <2>1 DEF Open
<1>4. session'[s] = session[s]
  BY <1>2, <1>3
<1>5. Open(s) /\ LeaseKept(s)
  BY <1>1, <1>4, ClockContinues
<1>6. i \in Installations /\ s = installation[i].activeSession
        /\ installation[i].status = "active"
  BY <1>5, OpenRefers
<1>7. s \notin DetachedSessions(i, now)
  BY <1>3, <1>5, <1>6 DEF Open
<1>8. DetachedSessions(i, now) = {}
  BY <1>6, <1>7 DEF DetachedSessions
<1>9. RefreshedStatus(i, now) = "active"
  BY <1>6, <1>7 DEF DetachedSessions
<1>10. installation'[i] = RefreshedInstallation(i, now)
  BY <1>6 DEF Snapshot
<1>11. SameFence(RefreshedInstallation(i, now), installation[i])
  <2> DEFINE row     == installation[i]
             dropped == row.pending # None /\ now >= row.pendingExpiresAt
             base    == IF dropped THEN NoPending(row) ELSE row
  <2>1. row \in InstallationRow
    BY <1>6 DEF TypeInv, TypeOK
  <2>2. base \in InstallationRow /\ SameFence(base, row)
    BY <2>1, NoPendingTyped, NoPendingSameFence DEF SameFence
  <2>3. RefreshedInstallation(i, now) = [base EXCEPT
          !.status = RefreshedStatus(i, now),
          !.endedAt = IF InstallationLapses(i, now) THEN row.absoluteExpiresAt ELSE @,
          !.activeSession = IF DetachedSessions(i, now) = {} THEN @ ELSE None]
    BY DEF RefreshedInstallation
  <2> HIDE DEF base, row
  <2>4. /\ RefreshedInstallation(i, now).status = RefreshedStatus(i, now)
        /\ RefreshedInstallation(i, now).activeSession = base.activeSession
        /\ RefreshedInstallation(i, now).tombstoneVersion = base.tombstoneVersion
        /\ RefreshedInstallation(i, now).currentVersion = base.currentVersion
        /\ RefreshedInstallation(i, now).sessionEpoch = base.sessionEpoch
    BY <1>8, <2>2, <2>3 DEF InstallationRow
  <2>5. QED
    BY <1>6, <1>9, <2>2, <2>4 DEF SameFence, row
<1>12. QED
  BY <1>1, <1>4, <1>10, <1>11, SameFenceContinues

LEMMA StepContinues ==
  ASSUME TypeInv, OpenFenced, NEW now \in Times, StoreStep(now) \/ Snapshot(now),
         NEW s \in Sessions, Open(s)'
  PROVE  Continues(s)
<1>1. ASSUME Context(now) PROVE latest' \in Nat /\ latest <= latest'
  BY <1>1, ClockAdvances DEF Context
<1>2. CASE Observe(now) \/ RefuseRedemption(now)
  BY <1>1, <1>2, QuietContinues DEF Observe, RefuseRedemption, rows
<1>3. CASE PairingStep(now)
  <2>1. PICK p \in Pairings :
          \/ IssuePairing(now, p) \/ RevokePairing(now, p) \/ CleanupPairing(now, p)
          \/ \E i \in Installations, c \in Credentials : RedeemPairing(now, p, i, c)
    BY <1>3 DEF PairingStep
  <2>2. CASE IssuePairing(now, p)
    BY <1>1, <2>2, QuietContinues DEF IssuePairing
  <2>3. CASE RevokePairing(now, p)
    BY <1>1, <2>3, QuietContinues DEF RevokePairing
  <2>4. CASE CleanupPairing(now, p)
    BY <1>1, <2>4, QuietContinues DEF CleanupPairing
  <2>5. QED
    BY <2>1, <2>2, <2>3, <2>4, RedeemPairingContinues
<1>4. CASE CredentialStep(now)
  <2>1. PICK c \in Credentials :
          \/ AuthenticateCredential(now, c) \/ PromoteCredential(now, c)
          \/ RevokeCurrentInstallation(now, c) \/ CleanupCredential(now, c)
          \/ \E n \in Credentials : BeginCredentialRotation(now, c, n)
          \/ \E t \in Tickets : IssueSessionTicket(now, c, t)
    BY <1>4 DEF CredentialStep
  <2>2. CASE AuthenticateCredential(now, c)
    BY <1>1, <2>2, QuietContinues DEF AuthenticateCredential
  <2>3. CASE RevokeCurrentInstallation(now, c)
    BY <2>3, AuthenticatedRefers, RevokedContinues DEF RevokeCurrentInstallation
  <2>4. ASSUME NEW t \in Tickets, IssueSessionTicket(now, c, t) PROVE Continues(s)
    BY <1>1, <2>4, QuietContinues DEF IssueSessionTicket
  <2>5. QED
    BY <2>1, <2>2, <2>3, <2>4, PromoteCredentialContinues,
       CleanupCredentialContinues, BeginCredentialRotationContinues
<1>5. CASE InstallationStep(now)
  BY <1>5, RevokedContinues, CleanupInstallationContinues
     DEF InstallationStep, RevokeInstallation
<1>6. CASE SessionStep(now)
  <2>1. ASSUME NEW t \in Tickets, CleanupTicket(now, t) PROVE Continues(s)
    BY <1>1, <2>1, QuietContinues DEF CleanupTicket
  <2>2. QED
    BY <1>6, <2>1, ConsumeSessionTicketContinues, RenewContinues,
       EndSessionContinues, CleanupSessionContinues DEF SessionStep
<1>7. CASE AudioStep(now)
  <2>1. ASSUME NEW g, CleanupGrant(now, g) PROVE Continues(s)
    BY <1>1, <2>1, QuietContinues DEF CleanupGrant
  <2>2. ASSUME NEW r, NEW samples, RefuseAudio(now, r, samples) PROVE Continues(s)
    BY <1>1, <2>2, QuietContinues DEF RefuseAudio
  <2>3. ASSUME NEW r \in Sessions, NEW samples, NEW handoff \in Times,
               RollBackAudio(now, r, samples, handoff)
        PROVE  Continues(s)
    <3>1. latest' \in Nat /\ latest <= latest'
      BY <2>3, TimesNat, ClockAdvances DEF RollBackAudio
    <3>2. QED
      BY <2>3, <3>1, QuietContinues DEF RollBackAudio
  <2>4. ASSUME NEW id, NEW r \in Sessions, NEW samples, NEW handoff \in Times,
               \/ ReserveAudio(now, id, r, samples, handoff)
               \/ StrandAudio(now, id, r, samples, handoff)
        PROVE  Continues(s)
    <3>1. latest' = handoff /\ now <= handoff /\ ReservationCommitted(now, id, r, samples)
      BY <2>4, TimesNat DEF ReserveAudio, StrandAudio
    <3>2. latest' \in Nat /\ latest <= latest'
      BY <3>1, TimesNat, ClockAdvances DEF ReservationCommitted
    <3>3. QED
      BY <3>1, <3>2, QuietContinues DEF ReservationCommitted
  <2>5. QED
    BY <1>7, <2>1, <2>2, <2>3, <2>4 DEF AudioStep
<1>8. QED
  BY <1>2, <1>3, <1>4, <1>5, <1>6, <1>7, SnapshotContinues DEF StoreStep

LEMMA ContinuesFenced ==
  ASSUME OpenFenced, NEW s \in Sessions, Continues(s)
  PROVE  Fenced(s)'
BY DEF Continues, KeepsStanding, OpenFenced, Fenced, SessionFenced

LEMMA InitFenced == Init => OpenFenced
BY DEF Init, OpenFenced, Open, NoSession

LEMMA NextFenced ==
  ASSUME TypeInv, OpenFenced, [StoreNext]_storeVars
  PROVE  OpenFenced'
<1>1. CASE StoreNext
  BY <1>1, StepContinues, ContinuesFenced DEF StoreNext, OpenFenced
<1>2. CASE UNCHANGED storeVars
  BY <1>2 DEF storeVars, rows, OpenFenced, Open, Fenced, SessionFenced
<1>3. QED
  BY <1>1, <1>2

\* Every session row that is open, its lease running or lapsed, is the one its
\* active installation points at, under the installation's current credential
\* version, tombstone version and epoch.
THEOREM OpenSessionsFenced == Spec => []OpenFenced
<1>1. TypeInv /\ OpenFenced /\ [StoreNext]_storeVars => OpenFenced'
  BY NextFenced
<1>2. QED
  BY <1>1, InitFenced, TypeInvariant, PTL DEF Spec

\* However tickets, rotations, revocations, expiries and cleanups interleave,
\* an installation has one live session at most, the one of its newest epoch.
THEOREM LiveSessionUnique == Spec => []OneLiveSession
<1>1. OpenFenced => OneLiveSession
  BY DEF OpenFenced, OneLiveSession, Open, Live, Fenced, SessionFenced
<1>2. QED
  BY <1>1, OpenSessionsFenced, PTL

\* A live session never outlives the credential, the tombstone version or the
\* installation it was opened under.
THEOREM LiveSessionStaysAuthorised == Spec => []LiveSessionAuthorised
<1>1. OpenFenced => LiveSessionAuthorised
  BY DEF OpenFenced, LiveSessionAuthorised, Open, Live, Fenced
<1>2. QED
  BY <1>1, OpenSessionsFenced, PTL

\* Both at once, as the runs check them: the one running session of an
\* installation is authorised by what the installation holds now.
THEOREM OneSessionAuthorised == Spec => []OneAuthorisedSession
BY LiveSessionUnique, LiveSessionStaysAuthorised, PTL DEF OneAuthorisedSession

\* A session that was seen dead, by status or by lease, stays dead: renewals,
\* reconnections and clock readings within the tolerance revive none.
THEOREM DeadSessionStaysDead == Spec => SessionNeverRevives
<1> DEFINE Kept == \A s \in Sessions :
                     session[s].status # "absent" /\ ~Live(s) => ~Live(s)'
<1>1. ASSUME TypeInv, OpenFenced, [StoreNext]_storeVars PROVE Kept \/ UNCHANGED storeVars
  <2>1. CASE StoreNext
    BY <1>1, <2>1, StepContinues DEF StoreNext, Continues, KeepsStanding, LeaseKept, Open, Live
  <2>2. QED
    BY <1>1, <2>1
<1>2. TypeInv /\ OpenFenced /\ [StoreNext]_storeVars => [Kept]_storeVars
  BY <1>1
<1>3. QED
  BY <1>2, TypeInvariant, OpenSessionsFenced, PTL DEF Spec, SessionNeverRevives

(***************************************************************************)
(* The rolling quotas.  Admission looks back from its own instant only,    *)
(* and yet no window of a quota's period, wherever it ends, holds more     *)
(* than the quota's limit.                                                 *)
(***************************************************************************)

(***************************************************************************)
(* Totals                                                                  *)
(***************************************************************************)
LEMMA PlacesGrow ==
  ASSUME NEW f, NEW g, NEW A, NEW B, A \subseteq B,
         \A x \in A : f[x] \in Nat /\ g[x] \in Nat /\ f[x] <= g[x]
  PROVE  Places(f, A) \subseteq Places(g, B)
<1>1. SUFFICES ASSUME NEW p \in Places(f, A) PROVE p \in Places(g, B)
  OBVIOUS
<1>2. PICK x \in A : p \in {x} \X (1..f[x])
  BY DEF Places
<1>3. 1..f[x] \subseteq 1..g[x]
  OBVIOUS
<1>4. p \in {x} \X (1..g[x])
  BY <1>2, <1>3
<1>5. QED
  BY <1>4 DEF Places

\* Fewer instants and smaller amounts have a smaller total.
LEMMA TotalGrows ==
  ASSUME NEW f, NEW g, NEW A, NEW B, A \subseteq B, IsFiniteSet(Places(g, B)),
         \A x \in A : f[x] \in Nat /\ g[x] \in Nat /\ f[x] <= g[x]
  PROVE  /\ IsFiniteSet(Places(f, A))
         /\ Total(f, A) \in Nat /\ Total(g, B) \in Nat
         /\ Total(f, A) <= Total(g, B)
<1>1. Places(f, A) \subseteq Places(g, B)
  BY PlacesGrow
<1>2. IsFiniteSet(Places(f, A))
  BY <1>1, FS_Subset
<1>3. QED
  BY <1>1, <1>2, FS_Subset, FS_CardinalityType DEF Total

\* g is f with n more at x, and what else of it is in S is in R.
Adds(f, R, g, S, x, n) ==
  /\ n \in Nat /\ f[x] \in Nat /\ g[x] = f[x] + n
  /\ x \in S => x \in R
  /\ \A y \in S : y # x => g[y] \in Nat /\ (g[y] # 0 => y \in R /\ g[y] = f[y])

\* n more at one place make the total larger by n at most.
LEMMA TotalAdded ==
  ASSUME NEW f, NEW g, NEW S, NEW R, NEW x, NEW n,
         IsFiniteSet(Places(f, R)), Adds(f, R, g, S, x, n)
  PROVE  /\ IsFiniteSet(Places(g, S))
         /\ Total(f, R) \in Nat /\ Total(g, S) \in Nat
         /\ Total(g, S) <= Total(f, R) + n
<1>a. /\ n \in Nat /\ f[x] \in Nat /\ g[x] = f[x] + n
      /\ x \in S => x \in R
      /\ \A y \in S : y # x => g[y] \in Nat /\ (g[y] # 0 => y \in R /\ g[y] = f[y])
  BY DEF Adds
<1> DEFINE new == {x} \X ((f[x] + 1)..(f[x] + n))
<1>1. IsFiniteSet(new) /\ Cardinality(new) = n
  <2> DEFINE a == f[x] + 1
             b == f[x] + n
             I == a..b
  <2>1. /\ a \in Int /\ b \in Int /\ b - a + 1 = n /\ (a > b => n = 0)
    BY <1>a
  <2>2. IsFiniteSet(I) /\ Cardinality(I) = n
    <3> HIDE DEF a, b
    <3>1. IsFiniteSet(a..b) /\ Cardinality(a..b) = IF a > b THEN 0 ELSE b - a + 1
      BY <2>1, FS_Interval
    <3>2. QED
      BY <2>1, <3>1
  <2>3. IsFiniteSet({x}) /\ Cardinality({x}) = 1
    BY FS_Singleton
  <2>4. IsFiniteSet({x} \X I) /\ Cardinality({x} \X I) = Cardinality({x}) * Cardinality(I)
    <3> HIDE DEF I
    <3>1. QED
      BY <2>2, <2>3, FS_Product
  <2>5. QED
    BY <1>a, <2>2, <2>3, <2>4
<1>2. Places(g, S) \subseteq Places(f, R) \cup new
  <2>1. SUFFICES ASSUME NEW p \in Places(g, S) PROVE p \in Places(f, R) \cup new
    OBVIOUS
  <2>2. PICK y \in S : p \in {y} \X (1..g[y])
    BY DEF Places
  <2>3. CASE y = x
    <3>1. 1..g[x] \subseteq (1..f[x]) \cup ((f[x] + 1)..(f[x] + n))
      BY <1>a
    <3>2. p \in {x} \X (1..f[x]) \/ p \in new
      BY <2>2, <2>3, <3>1
    <3>3. QED
      BY <1>a, <2>2, <2>3, <3>2 DEF Places
  <2>4. CASE y # x
    <3>1. g[y] # 0 /\ g[y] \in Nat
      BY <1>a, <2>2, <2>4
    <3>2. y \in R /\ p \in {y} \X (1..f[y])
      BY <1>a, <2>2, <2>4, <3>1
    <3>3. QED
      BY <3>2 DEF Places
  <2>5. QED
    BY <2>3, <2>4
<1> HIDE DEF new
<1>3. /\ IsFiniteSet(Places(f, R) \cup new)
      /\ Cardinality(Places(f, R) \cup new) <= Cardinality(Places(f, R)) + n
  <2>1. IsFiniteSet(Places(f, R) \cap new)
    BY FS_Intersection
  <2>2. /\ Cardinality(Places(f, R) \cap new) \in Nat
        /\ Cardinality(Places(f, R)) \in Nat
    BY <2>1, FS_CardinalityType
  <2>3. QED
    BY <1>1, <1>a, <2>2, FS_Union
<1>4. /\ IsFiniteSet(Places(g, S))
      /\ Cardinality(Places(g, S)) <= Cardinality(Places(f, R) \cup new)
  BY <1>2, <1>3, FS_Subset
<1>5. /\ Cardinality(Places(g, S)) \in Nat /\ Cardinality(Places(f, R)) \in Nat
      /\ Cardinality(Places(f, R) \cup new) \in Nat
  BY <1>3, <1>4, FS_CardinalityType
<1>6. QED
  BY <1>3, <1>4, <1>5, <1>a DEF Total

\* Nothing has no place.
LEMMA NoPlaces ==
  ASSUME NEW f, NEW S, \A x \in S : f[x] = 0
  PROVE  Places(f, S) = {} /\ IsFiniteSet(Places(f, S)) /\ Total(f, S) = 0
<1>1. Places(f, S) = {}
  BY DEF Places
<1>2. QED
  BY <1>1, FS_EmptySet DEF Total

(***************************************************************************)
(* Rolling windows.  That no event is later than the clock is what makes a *)
(* window that looks back from the clock bound every other one.            *)
(***************************************************************************)
Window(t, period) == {u \in Times : t - period < u /\ u <= t}
Recent(now, period) == {t \in Times : t > now - period}

Rolling(log, quotas, at) ==
  /\ IsFiniteSet(Places(log, Times))
  /\ \A t \in Times : t > at => log[t] = 0
  /\ \A q \in quotas : Spread(log, q)

LEMMA RollingEmpty ==
  ASSUME NEW quotas \in SUBSET Quota, NEW at
  PROVE  Rolling(NoEvents, quotas, at)
<1>1. ASSUME NEW S, S \subseteq Times
      PROVE  IsFiniteSet(Places(NoEvents, S)) /\ Total(NoEvents, S) = 0
  <2>1. \A t \in S : NoEvents[t] = 0
    BY <1>1 DEF NoEvents
  <2>2. QED
    BY <2>1, NoPlaces
<1>2. ASSUME NEW q \in quotas PROVE Spread(NoEvents, q)
  BY <1>1 DEF Spread, Quota
<1>3. QED
  BY <1>1, <1>2 DEF Rolling, NoEvents

LEMMA RollingLater ==
  ASSUME NEW log, NEW quotas, NEW at \in Int, NEW later \in Int, at <= later,
         Rolling(log, quotas, at)
  PROVE  Rolling(log, quotas, later)
BY TimesNat DEF Rolling

\* An admitted event leaves every window within its quota.
LEMMA EventAdmitted ==
  ASSUME NEW log \in [Times -> Nat], NEW quotas \in SUBSET Quota,
         NEW at \in Nat, NEW now \in Times, at <= now,
         Rolling(log, quotas, at), Admits(log, now, quotas)
  PROVE  Rolling(AddEvent(log, now, quotas), quotas, now)
<1> DEFINE new == AddEvent(log, now, quotas)
<1>1. /\ new \in [Times -> Nat] /\ new[now] = log[now] + 1
      /\ \A t \in Times : t # now =>
           /\ new[t] \in Nat /\ new[t] <= log[t]
           /\ new[t] # 0 => new[t] = log[t] /\ t <= at
  <2>1. new \in [Times -> Nat] /\ new[now] = log[now] + 1
    BY AddEventTyped DEF AddEvent
  <2>2. ASSUME NEW t \in Times, t # now
        PROVE  /\ new[t] \in Nat /\ new[t] <= log[t]
               /\ new[t] # 0 => new[t] = log[t] /\ t <= at
    <3>1. new[t] = log[t] \/ new[t] = 0
      BY <2>2 DEF AddEvent
    <3>2. log[t] \in Nat /\ t \in Nat /\ (log[t] # 0 => t <= at)
      BY TimesNat DEF Rolling
    <3> HIDE DEF new
    <3>3. QED
      BY <3>1, <3>2
  <2>3. QED
    BY <2>1, <2>2
<1> HIDE DEF new
<1>2. IsFiniteSet(Places(new, Times))
  <2>1. Adds(log, Times, new, Times, now, 1)
    BY <1>1 DEF Adds
  <2>2. QED
    BY <2>1, TotalAdded DEF Rolling
<1>3. \A t \in Times : t > now => new[t] = 0
  BY <1>1, TimesNat
<1>4. ASSUME NEW q \in quotas PROVE Spread(new, q)
  <2>1. /\ q.limit \in Nat /\ q.period \in Nat /\ q.period > 0
        /\ Spread(log, q) /\ CountSince(log, now, q.period) < q.limit
    BY DEF Quota, Rolling, Admits
  <2>2. SUFFICES ASSUME NEW t \in Times
                 PROVE  Total(new, Window(t, q.period)) <= q.limit
    BY DEF Spread, Window
  <2> DEFINE W == Window(t, q.period)
             R == Recent(now, q.period)
  <2>3. W \subseteq Times /\ R \subseteq Times /\ now \in Nat /\ t \in Nat
    BY TimesNat DEF Window, Recent
  <2>4. \A S : S \subseteq Times => IsFiniteSet(Places(log, S))
    BY TotalGrows DEF Rolling
  <2>5. CASE t < now
    <3>1. \A u \in W : u # now
      BY <2>5, TimesNat DEF Window
    <3>2. \A u \in W : log[u] \in Nat /\ new[u] \in Nat /\ new[u] <= log[u]
      BY <1>1, <2>3, <3>1
    <3> HIDE DEF W
    <3>3. Total(new, W) <= Total(log, W) /\ Total(new, W) \in Nat /\ Total(log, W) \in Nat
      BY <2>3, <2>4, <3>2, TotalGrows
    <3>4. Total(log, W) <= q.limit
      BY <2>1 DEF W, Window, Spread
    <3>5. QED
      BY <2>1, <3>3, <3>4 DEF W
  <2>6. CASE t >= now
    <3>1. now \in R
      BY <2>1, <2>3 DEF Recent
    <3>2. \A u \in W : u # now =>
            /\ new[u] \in Nat
            /\ new[u] # 0 => u \in R /\ new[u] = log[u]
      <4>1. SUFFICES ASSUME NEW u \in W, u # now, new[u] # 0 PROVE u \in R
        BY <1>1, <2>3
      <4>2. u > t - q.period /\ u \in Times /\ u \in Nat
        BY TimesNat DEF Window
      <4>3. QED
        BY <2>1, <2>3, <2>6, <4>2 DEF Recent
    <3> HIDE DEF W, R
    <3>3. IsFiniteSet(Places(log, R)) /\ Adds(log, R, new, W, now, 1)
      BY <1>1, <2>3, <2>4, <3>1, <3>2 DEF Adds
    <3>4. /\ Total(log, R) \in Nat /\ Total(new, W) \in Nat
          /\ Total(new, W) <= Total(log, R) + 1
      BY <3>3, TotalAdded
    <3>5. Total(log, R) < q.limit
      BY <2>1 DEF CountSince, R, Recent
    <3>6. QED
      BY <2>1, <3>4, <3>5 DEF W
  <2>7. QED
    BY <2>3, <2>5, <2>6
<1>5. QED
  BY <1>2, <1>3, <1>4 DEF new, Rolling

(***************************************************************************)
(* The audio windows: the same for amounts by session and instant.         *)
(***************************************************************************)
Slots == Sessions \X Times
AudioWindow(t) == Sessions \X Window(t, AudioPeriod)
AudioRecent(now) == Sessions \X Recent(now, AudioPeriod)

\* an amount by session and instant, no window of which exceeds the limit
Bounded(f, limit, at) ==
  /\ IsFiniteSet(Places(f, Slots))
  /\ \A e \in Slots : e[2] > at => f[e] = 0
  /\ \A t \in Times : Total(f, AudioWindow(t)) <= limit

\* g is f with n more for one session now, and with nothing else added
Reserves(f, g, s, now, n) ==
  /\ f \in [Slots -> Nat] /\ g \in [Slots -> Nat] /\ n \in Nat
  /\ g[<<s, now>>] = f[<<s, now>>] + n
  /\ \A e \in Slots : e # <<s, now>> => g[e] = f[e] \/ g[e] = 0

LEMMA SlotsAre ==
  /\ \A e \in Slots : e[2] \in Times /\ e[2] \in Nat
  /\ \A t : AudioWindow(t) \subseteq Slots
  /\ \A now : AudioRecent(now) \subseteq Slots
  /\ \A t, e : e \in AudioWindow(t) <=>
       e \in Slots /\ t - AudioPeriod < e[2] /\ e[2] <= t
  /\ \A now, e : e \in AudioRecent(now) <=> e \in Slots /\ e[2] > now - AudioPeriod
BY TimesNat DEF Slots, AudioWindow, AudioRecent, Window, Recent

LEMMA AmountAdmitted ==
  ASSUME NEW f, NEW g, NEW s \in Sessions, NEW now \in Times, NEW n,
         NEW at \in Nat, at <= now, NEW limit \in Nat,
         Reserves(f, g, s, now, n), Bounded(f, limit, at),
         Total(f, AudioRecent(now)) + n <= limit
  PROVE  Bounded(g, limit, now)
<1> DEFINE x == <<s, now>>
<1>1. x \in Slots /\ x[2] = now /\ now \in Nat
  BY TimesNat DEF Slots
<1>2. /\ f \in [Slots -> Nat] /\ g \in [Slots -> Nat] /\ n \in Nat
      /\ f[x] \in Nat /\ g[x] = f[x] + n
      /\ \A e \in Slots : e # x =>
           g[e] \in Nat /\ f[e] \in Nat /\ g[e] <= f[e] /\ (g[e] # 0 => g[e] = f[e])
  BY <1>1 DEF Reserves
<1> HIDE DEF x
<1>3. IsFiniteSet(Places(g, Slots))
  <2>1. Adds(f, Slots, g, Slots, x, n)
    BY <1>2 DEF Adds
  <2>2. QED
    BY <2>1, TotalAdded DEF Bounded
<1>4. ASSUME NEW e \in Slots, e[2] > now PROVE g[e] = 0
  <2>1. f[e] = 0 /\ e # x
    BY <1>1, <1>4, SlotsAre DEF Bounded
  <2>2. QED
    BY <1>2, <2>1
<1>5. ASSUME NEW S, S \subseteq Slots PROVE IsFiniteSet(Places(f, S))
  <2>1. \A e \in S : f[e] \in Nat /\ f[e] <= f[e]
    BY <1>2, <1>5
  <2>2. IsFiniteSet(Places(f, Slots))
    BY DEF Bounded
  <2>3. QED
    BY <1>5, <2>1, <2>2, TotalGrows
<1>6. ASSUME NEW t \in Times PROVE Total(g, AudioWindow(t)) <= limit
  <2> DEFINE W == AudioWindow(t)
             R == AudioRecent(now)
  <2>1. W \subseteq Slots /\ R \subseteq Slots /\ t \in Nat /\ AudioPeriod \in Nat
    BY SlotsAre, TimesNat, ConstantsAssumption
  <2>2. CASE t < now \/ AudioPeriod = 0
    <3>1. \A e \in W : e # x
      BY <1>1, <2>1, <2>2, SlotsAre
    <3>2. \A e \in W : f[e] \in Nat /\ g[e] \in Nat /\ g[e] <= f[e]
      BY <1>2, <2>1, <3>1
    <3>3. Total(f, W) <= limit
      BY DEF Bounded
    <3> HIDE DEF W
    <3>4. Total(g, W) <= Total(f, W) /\ Total(g, W) \in Nat /\ Total(f, W) \in Nat
      BY <1>5, <2>1, <3>2, TotalGrows
    <3>5. QED
      BY <3>3, <3>4 DEF W
  <2>3. CASE t >= now /\ AudioPeriod > 0
    <3>1. x \in R
      BY <1>1, <2>1, <2>3, SlotsAre
    <3>2. ASSUME NEW e \in W, e # x, g[e] # 0 PROVE e \in R /\ g[e] = f[e]
      <4>1. e \in Slots /\ e[2] \in Nat /\ t - AudioPeriod < e[2]
        BY SlotsAre
      <4>2. QED
        BY <1>1, <1>2, <2>1, <2>3, <3>2, <4>1, SlotsAre
    <3>3. Adds(f, R, g, W, x, n)
      BY <1>2, <2>1, <3>1, <3>2 DEF Adds
    <3> HIDE DEF W, R
    <3>4. /\ Total(f, R) \in Nat /\ Total(g, W) \in Nat
          /\ Total(g, W) <= Total(f, R) + n
      BY <1>5, <2>1, <3>3, TotalAdded
    <3>5. QED
      BY <1>2, <3>4 DEF W, R
  <2>4. QED
    BY <1>1, <2>1, <2>2, <2>3
<1>7. QED
  BY <1>3, <1>4, <1>6 DEF Bounded

GrantsOf(log) == [e \in Slots |-> log[e].grants]
SamplesOf(log) == [e \in Slots |-> log[e].samples]
AudioBounded(log, at) ==
  /\ Bounded(GrantsOf(log), MaxAudioGrantsPerWindow, at)
  /\ Bounded(SamplesOf(log), MaxAudioSamplesPerWindow, at)

LEMMA AudioTotals ==
  ASSUME NEW log, NEW E, E \subseteq Slots
  PROVE  /\ GrantsIn(log, E) = Total(GrantsOf(log), E)
         /\ SamplesIn(log, E) = Total(SamplesOf(log), E)
<1>1. /\ \A e \in E : [d \in E |-> log[d].grants][e] = GrantsOf(log)[e]
      /\ \A e \in E : [d \in E |-> log[d].samples][e] = SamplesOf(log)[e]
  BY DEF GrantsOf, SamplesOf
<1>2. /\ Places([d \in E |-> log[d].grants], E) = Places(GrantsOf(log), E)
      /\ Places([d \in E |-> log[d].samples], E) = Places(SamplesOf(log), E)
  BY <1>1 DEF Places
<1>3. QED
  BY <1>2 DEF GrantsIn, SamplesIn, Total

LEMMA AudioWithin ==
  ASSUME NEW log, NEW at, AudioBounded(log, at), NEW t \in Times
  PROVE  AudioSpread(log, t)
<1>1. AudioWindow(t) \subseteq Slots
  BY SlotsAre
<1>2. /\ Total(GrantsOf(log), AudioWindow(t)) <= MaxAudioGrantsPerWindow
      /\ Total(SamplesOf(log), AudioWindow(t)) <= MaxAudioSamplesPerWindow
  BY DEF AudioBounded, Bounded
<1>3. QED
  BY <1>1, <1>2, AudioTotals DEF AudioSpread, AudioWindow, Window

LEMMA AudioEmpty == ASSUME NEW at PROVE AudioBounded(NoAudio, at)
<1>1. /\ \A e \in Slots : GrantsOf(NoAudio)[e] = 0
      /\ \A e \in Slots : SamplesOf(NoAudio)[e] = 0
  BY DEF GrantsOf, SamplesOf, NoAudio, Slots
<1>2. ASSUME NEW S, S \subseteq Slots
      PROVE  /\ IsFiniteSet(Places(GrantsOf(NoAudio), S)) /\ Total(GrantsOf(NoAudio), S) = 0
             /\ IsFiniteSet(Places(SamplesOf(NoAudio), S)) /\ Total(SamplesOf(NoAudio), S) = 0
  BY <1>1, <1>2, NoPlaces
<1>3. MaxAudioGrantsPerWindow \in Nat /\ MaxAudioSamplesPerWindow \in Nat
  BY ConstantsAssumption
<1>4. QED
  BY <1>1, <1>2, <1>3, SlotsAre DEF AudioBounded, Bounded

LEMMA AudioLater ==
  ASSUME NEW log, NEW at \in Int, NEW later \in Int, at <= later, AudioBounded(log, at)
  PROVE  AudioBounded(log, later)
<1>1. \A e \in Slots : e[2] > later => e[2] > at
  BY SlotsAre
<1>2. QED
  BY <1>1 DEF AudioBounded, Bounded

\* An admitted reservation leaves every window within its grants and samples.
LEMMA AudioAdmitted ==
  ASSUME NEW log \in [Sessions \X Times -> [grants : Nat, samples : Nat]],
         NEW s \in Sessions, NEW now \in Times, NEW samples \in Nat,
         NEW at \in Nat, at <= now, AudioBounded(log, at),
         AdmitsAudio(log, Sessions, now, samples)
  PROVE  AudioBounded(AddAudio(log, now, s, samples), now)
<1> DEFINE new == AddAudio(log, now, s, samples)
<1>1. MaxAudioGrantsPerWindow \in Nat /\ MaxAudioSamplesPerWindow \in Nat
  BY ConstantsAssumption
<1>2. <<s, now>> \in Slots /\ AudioRecent(now) \subseteq Slots
  BY SlotsAre DEF Slots
<1>3. new \in [Slots -> [grants : Nat, samples : Nat]]
  BY AddAudioTyped DEF Slots
<1>4. /\ new[<<s, now>>].grants = log[<<s, now>>].grants + 1
      /\ new[<<s, now>>].samples = log[<<s, now>>].samples + samples
  BY <1>2 DEF AddAudio, Slots
<1>5. \A e \in Slots : e # <<s, now>> =>
        \/ new[e] = log[e]
        \/ new[e] = [grants |-> 0, samples |-> 0]
  BY DEF AddAudio, Slots
<1> HIDE DEF new
<1>6. log \in [Slots -> [grants : Nat, samples : Nat]]
  BY DEF Slots
<1>7. Reserves(GrantsOf(log), GrantsOf(new), s, now, 1)
  BY <1>2, <1>3, <1>4, <1>5, <1>6 DEF Reserves, GrantsOf
<1>8. Reserves(SamplesOf(log), SamplesOf(new), s, now, samples)
  BY <1>2, <1>3, <1>4, <1>5, <1>6 DEF Reserves, SamplesOf
<1>9. /\ Total(GrantsOf(log), AudioRecent(now)) < MaxAudioGrantsPerWindow
      /\ Total(SamplesOf(log), AudioRecent(now)) + samples <= MaxAudioSamplesPerWindow
  BY <1>2, AudioTotals DEF AdmitsAudio, AudioRecent, Recent
<1>10. Total(GrantsOf(log), AudioRecent(now)) \in Nat
  <2>1. \A e \in AudioRecent(now) :
          GrantsOf(log)[e] \in Nat /\ GrantsOf(log)[e] <= GrantsOf(log)[e]
    BY <1>2, <1>6 DEF GrantsOf
  <2>2. IsFiniteSet(Places(GrantsOf(log), Slots))
    BY DEF AudioBounded, Bounded
  <2>3. QED
    BY <1>2, <2>1, <2>2, TotalGrows
<1>11. Total(GrantsOf(log), AudioRecent(now)) + 1 <= MaxAudioGrantsPerWindow
  BY <1>1, <1>9, <1>10
<1>12. Bounded(GrantsOf(new), MaxAudioGrantsPerWindow, now)
  BY <1>1, <1>7, <1>11, AmountAdmitted DEF AudioBounded
<1>13. Bounded(SamplesOf(new), MaxAudioSamplesPerWindow, now)
  BY <1>1, <1>8, <1>9, AmountAdmitted DEF AudioBounded
<1>14. QED
  BY <1>12, <1>13 DEF AudioBounded, new

(***************************************************************************)
(* The inductive invariant: every window of the store is bounded, and no   *)
(* event of it is later than the accepted clock.                           *)
(***************************************************************************)
PairingWindows(at) ==
  /\ Rolling(issueTimes, PairIssueQuota, at)
  /\ Rolling(attemptTimes, PairAttemptQuota, at)
TicketWindows(at) == \A i \in Installations : Rolling(ticketTimes[i], TicketQuota, at)
ReconnectWindows(at) ==
  \A i \in Installations : Rolling(reconnectTimes[i], ReconnectQuota, at)
AudioWindows(at) == \A i \in Installations : AudioBounded(audioLog[i], at)

WindowsBounded ==
  PairingWindows(latest) /\ TicketWindows(latest) /\ ReconnectWindows(latest)
    /\ AudioWindows(latest)

LEMMA ClockForward ==
  ASSUME TypeInv, NEW now \in Times, Accepts(now)
  PROVE  latest \in Nat /\ now \in Nat /\ latest <= now
BY TimesNat DEF Accepts, Observed, TypeInv, TypeOK

\* A window nobody writes stays bounded as the clock goes on.
LEMMA WindowsLater ==
  ASSUME WindowsBounded, NEW later \in Nat, latest \in Nat, latest <= later
  PROVE  PairingWindows(later) /\ TicketWindows(later) /\ ReconnectWindows(later)
           /\ AudioWindows(later)
<1>1. PairingWindows(later)
  BY RollingLater DEF WindowsBounded, PairingWindows
<1>2. TicketWindows(later)
  BY RollingLater DEF WindowsBounded, TicketWindows
<1>3. ReconnectWindows(later)
  BY RollingLater DEF WindowsBounded, ReconnectWindows
<1>4. AudioWindows(later)
  BY AudioLater DEF WindowsBounded, AudioWindows
<1>5. QED
  BY <1>1, <1>2, <1>3, <1>4

LEMMA QuietWindows ==
  ASSUME WindowsBounded, UNCHANGED rates, latest \in Nat, latest' \in Nat, latest <= latest'
  PROVE  WindowsBounded'
<1>1. PairingWindows(latest') /\ TicketWindows(latest') /\ ReconnectWindows(latest')
        /\ AudioWindows(latest')
  BY WindowsLater
<1>2. QED
  BY <1>1 DEF WindowsBounded, PairingWindows, TicketWindows, ReconnectWindows,
              AudioWindows, rates

LEMMA QuotasTyped ==
  /\ PairIssueQuota \in SUBSET Quota /\ PairAttemptQuota \in SUBSET Quota
  /\ TicketQuota \in SUBSET Quota /\ ReconnectQuota \in SUBSET Quota
BY ConstantsAssumption

LEMMA PairingWindowsKept ==
  ASSUME TypeInv, WindowsBounded, NEW now \in Times, Context(now),
         \/ /\ Admits(issueTimes, now, PairIssueQuota)
            /\ issueTimes' = AddEvent(issueTimes, now, PairIssueQuota)
            /\ attemptTimes' = attemptTimes
         \/ /\ Admits(attemptTimes, now, PairAttemptQuota)
            /\ attemptTimes' = AddEvent(attemptTimes, now, PairAttemptQuota)
            /\ issueTimes' = issueTimes,
         UNCHANGED <<ticketTimes, reconnectTimes, audioLog>>
  PROVE  WindowsBounded'
<1>1. latest \in Nat /\ now \in Nat /\ latest <= now /\ latest' = now
  BY ClockForward DEF Context
<1>2. /\ issueTimes \in [Times -> Nat] /\ attemptTimes \in [Times -> Nat]
      /\ Rolling(issueTimes, PairIssueQuota, latest)
      /\ Rolling(attemptTimes, PairAttemptQuota, latest)
  BY DEF TypeInv, TypeOK, WindowsBounded, PairingWindows
<1>3. PairingWindows(now) /\ TicketWindows(now) /\ ReconnectWindows(now) /\ AudioWindows(now)
  BY <1>1, WindowsLater
<1>4. Admits(issueTimes, now, PairIssueQuota) =>
        Rolling(AddEvent(issueTimes, now, PairIssueQuota), PairIssueQuota, now)
  BY <1>1, <1>2, QuotasTyped, EventAdmitted
<1>5. Admits(attemptTimes, now, PairAttemptQuota) =>
        Rolling(AddEvent(attemptTimes, now, PairAttemptQuota), PairAttemptQuota, now)
  BY <1>1, <1>2, QuotasTyped, EventAdmitted
<1>6. Rolling(issueTimes', PairIssueQuota, now) /\ Rolling(attemptTimes', PairAttemptQuota, now)
  BY <1>3, <1>4, <1>5 DEF PairingWindows
<1>7. QED
  BY <1>1, <1>3, <1>6
     DEF WindowsBounded, PairingWindows, TicketWindows, ReconnectWindows, AudioWindows

LEMMA IssueSessionTicketWindows ==
  ASSUME TypeInv, WindowsBounded, NEW now \in Times, NEW c \in Credentials,
         NEW t \in Tickets, IssueSessionTicket(now, c, t)
  PROVE  WindowsBounded'
<1> DEFINE i == credential[c].installation
<1>1. latest \in Nat /\ now \in Nat /\ latest <= now /\ latest' = now
  BY ClockForward DEF IssueSessionTicket, Context
<1>2. i \in Installations
  BY AuthenticatedRefers DEF IssueSessionTicket
<1>3. /\ Admits(ticketTimes[i], now, TicketQuota)
      /\ ticketTimes' = [ticketTimes EXCEPT ![i] = AddEvent(@, now, TicketQuota)]
      /\ UNCHANGED <<issueTimes, attemptTimes, reconnectTimes, audioLog>>
  BY DEF IssueSessionTicket
<1> HIDE DEF i
<1>4. ticketTimes \in [Installations -> [Times -> Nat]]
  BY DEF TypeInv, TypeOK
<1>5. PairingWindows(now) /\ TicketWindows(now) /\ ReconnectWindows(now) /\ AudioWindows(now)
  BY <1>1, WindowsLater
<1>6. Rolling(ticketTimes[i], TicketQuota, latest) /\ ticketTimes[i] \in [Times -> Nat]
  BY <1>2, <1>4 DEF WindowsBounded, TicketWindows
<1>7. Rolling(AddEvent(ticketTimes[i], now, TicketQuota), TicketQuota, now)
  BY <1>1, <1>3, <1>6, QuotasTyped, EventAdmitted
<1>8. \A j \in Installations : Rolling(ticketTimes'[j], TicketQuota, now)
  BY <1>2, <1>3, <1>4, <1>5, <1>7 DEF TicketWindows
<1>9. QED
  BY <1>1, <1>3, <1>5, <1>8
     DEF WindowsBounded, PairingWindows, TicketWindows, ReconnectWindows, AudioWindows

LEMMA ConsumeSessionTicketWindows ==
  ASSUME TypeInv, WindowsBounded, NEW now \in Times, NEW t \in Tickets,
         NEW n \in Sessions, ConsumeSessionTicket(now, t, n)
  PROVE  WindowsBounded'
<1> DEFINE i == ticket[t].installation
<1>1. latest \in Nat /\ now \in Nat /\ latest <= now /\ latest' = now
  BY ClockForward DEF ConsumeSessionTicket, Context
<1>2. i \in Installations
  BY DEF ConsumeSessionTicket, TicketConsumable, TypeInv, RowsRefer
<1>3. /\ \/ /\ Admits(reconnectTimes[i], now, ReconnectQuota)
            /\ reconnectTimes' = [reconnectTimes EXCEPT
                                    ![i] = AddEvent(@, now, ReconnectQuota)]
         \/ reconnectTimes' = reconnectTimes
      /\ UNCHANGED <<issueTimes, attemptTimes, ticketTimes, audioLog>>
  BY DEF ConsumeSessionTicket
<1> HIDE DEF i
<1>4. reconnectTimes \in [Installations -> [Times -> Nat]]
  BY DEF TypeInv, TypeOK
<1>5. PairingWindows(now) /\ TicketWindows(now) /\ ReconnectWindows(now) /\ AudioWindows(now)
  BY <1>1, WindowsLater
<1>6. Rolling(reconnectTimes[i], ReconnectQuota, latest) /\ reconnectTimes[i] \in [Times -> Nat]
  BY <1>2, <1>4 DEF WindowsBounded, ReconnectWindows
<1>7. Admits(reconnectTimes[i], now, ReconnectQuota) =>
        Rolling(AddEvent(reconnectTimes[i], now, ReconnectQuota), ReconnectQuota, now)
  BY <1>1, <1>6, QuotasTyped, EventAdmitted
<1>8. \A j \in Installations : Rolling(reconnectTimes'[j], ReconnectQuota, now)
  BY <1>2, <1>3, <1>4, <1>5, <1>7 DEF ReconnectWindows
<1>9. QED
  BY <1>1, <1>3, <1>5, <1>8
     DEF WindowsBounded, PairingWindows, TicketWindows, ReconnectWindows, AudioWindows

\* A reservation that is handed off or stranded; one rolled back leaves no trace.
LEMMA ReservationWindows ==
  ASSUME TypeInv, WindowsBounded, NEW now \in Times, NEW id, NEW s \in Sessions,
         NEW samples \in 1..MaxAudioGrantSamples, NEW handoff \in Times,
         handoff >= now, latest' = handoff, ReservationCommitted(now, id, s, samples)
  PROVE  WindowsBounded'
<1> DEFINE i == session[s].installation
<1>1. latest \in Nat /\ now \in Nat /\ latest <= now /\ handoff \in Nat /\ latest <= handoff
  BY ClockForward, TimesNat DEF ReservationCommitted
<1>2. i \in Installations /\ samples \in Nat
  BY ConstantsAssumption DEF ReservationCommitted, GrantAdmitted, SessionActive,
                             TypeInv, RowsRefer
<1>3. /\ AdmitsAudio(audioLog[i], Sessions, now, samples)
      /\ audioLog' = [audioLog EXCEPT ![i] = AddAudio(@, now, s, samples)]
      /\ UNCHANGED <<issueTimes, attemptTimes, ticketTimes, reconnectTimes>>
  BY DEF ReservationCommitted, GrantAdmitted
<1> HIDE DEF i
<1>4. audioLog \in [Installations -> [Sessions \X Times -> [grants : Nat, samples : Nat]]]
  BY DEF TypeInv, TypeOK
<1>5. PairingWindows(handoff) /\ TicketWindows(handoff) /\ ReconnectWindows(handoff)
        /\ AudioWindows(handoff)
  BY <1>1, WindowsLater
<1>6. /\ AudioBounded(audioLog[i], latest)
      /\ audioLog[i] \in [Sessions \X Times -> [grants : Nat, samples : Nat]]
  BY <1>2, <1>4 DEF WindowsBounded, AudioWindows
<1>7. AudioBounded(AddAudio(audioLog[i], now, s, samples), now)
  BY <1>1, <1>2, <1>3, <1>6, AudioAdmitted
<1>8. AudioBounded(AddAudio(audioLog[i], now, s, samples), handoff)
  BY <1>1, <1>7, AudioLater
<1>9. \A j \in Installations : AudioBounded(audioLog'[j], handoff)
  BY <1>2, <1>3, <1>4, <1>5, <1>8 DEF AudioWindows
<1>10. QED
  BY <1>3, <1>5, <1>9
     DEF WindowsBounded, PairingWindows, TicketWindows, ReconnectWindows, AudioWindows

LEMMA CalmWindows ==
  ASSUME TypeInv, WindowsBounded, NEW now \in Times, Context(now), UNCHANGED rates
  PROVE  WindowsBounded'
BY ClockForward, QuietWindows DEF Context

LEMMA AudioStepWindows ==
  ASSUME TypeInv, WindowsBounded, NEW now \in Times, AudioStep(now)
  PROVE  WindowsBounded'
<1>1. ASSUME NEW g \in grants, CleanupGrant(now, g) PROVE WindowsBounded'
  BY <1>1, CalmWindows DEF CleanupGrant
<1>2. ASSUME NEW s \in Sessions, NEW samples \in 1..MaxAudioGrantSamples,
             RefuseAudio(now, s, samples)
      PROVE  WindowsBounded'
  BY <1>2, CalmWindows DEF RefuseAudio
<1>3. ASSUME NEW s \in Sessions, NEW samples \in 1..MaxAudioGrantSamples,
             NEW handoff \in Times, RollBackAudio(now, s, samples, handoff)
      PROVE  WindowsBounded'
  <2>1. Accepts(now) /\ handoff >= now /\ latest' = handoff /\ UNCHANGED rates
    BY <1>3, TimesNat DEF RollBackAudio
  <2>2. latest \in Nat /\ handoff \in Nat /\ latest <= handoff
    BY <2>1, ClockForward, TimesNat
  <2>3. QED
    BY <2>1, <2>2, QuietWindows
<1>4. ASSUME NEW s \in Sessions, NEW samples \in 1..MaxAudioGrantSamples,
             NEW handoff \in Times, NEW id \in GrantIds,
             \/ ReserveAudio(now, id, s, samples, handoff)
             \/ StrandAudio(now, id, s, samples, handoff)
      PROVE  WindowsBounded'
  <2>1. handoff >= now /\ latest' = handoff /\ ReservationCommitted(now, id, s, samples)
    BY <1>4, TimesNat DEF ReserveAudio, StrandAudio
  <2>2. QED
    BY <2>1, ReservationWindows
<1>5. QED
  BY <1>1, <1>2, <1>3, <1>4 DEF AudioStep

LEMMA StepWindows ==
  ASSUME TypeInv, WindowsBounded, NEW now \in Times, StoreStep(now) \/ Snapshot(now)
  PROVE  WindowsBounded'
<1>1. CASE Observe(now) \/ Snapshot(now)
  BY <1>1, CalmWindows DEF Observe, Snapshot
<1>2. CASE PairingStep(now)
  <2>1. PICK p \in Pairings :
          \/ IssuePairing(now, p) \/ RevokePairing(now, p) \/ CleanupPairing(now, p)
          \/ \E i \in Installations, c \in Credentials : RedeemPairing(now, p, i, c)
    BY <1>2 DEF PairingStep
  <2>2. CASE IssuePairing(now, p)
    BY <2>2, PairingWindowsKept DEF IssuePairing
  <2>3. CASE RevokePairing(now, p) \/ CleanupPairing(now, p)
    BY <2>3, CalmWindows DEF RevokePairing, CleanupPairing
  <2>4. ASSUME NEW i \in Installations, NEW c \in Credentials, RedeemPairing(now, p, i, c)
        PROVE  WindowsBounded'
    BY <2>4, PairingWindowsKept DEF RedeemPairing
  <2>5. QED
    BY <2>1, <2>2, <2>3, <2>4
<1>3. CASE RefuseRedemption(now)
  BY <1>3, PairingWindowsKept DEF RefuseRedemption
<1>4. CASE CredentialStep(now)
  <2>1. PICK c \in Credentials :
          \/ AuthenticateCredential(now, c) \/ PromoteCredential(now, c)
          \/ RevokeCurrentInstallation(now, c) \/ CleanupCredential(now, c)
          \/ \E n \in Credentials : BeginCredentialRotation(now, c, n)
          \/ \E t \in Tickets : IssueSessionTicket(now, c, t)
    BY <1>4 DEF CredentialStep
  <2>2. ASSUME NEW t \in Tickets, IssueSessionTicket(now, c, t) PROVE WindowsBounded'
    BY <2>2, IssueSessionTicketWindows
  <2>3. ASSUME NEW n \in Credentials, BeginCredentialRotation(now, c, n)
        PROVE  WindowsBounded'
    BY <2>3, CalmWindows DEF BeginCredentialRotation
  <2>4. CASE AuthenticateCredential(now, c) \/ PromoteCredential(now, c)
               \/ RevokeCurrentInstallation(now, c) \/ CleanupCredential(now, c)
    BY <2>4, CalmWindows
       DEF AuthenticateCredential, PromoteCredential, RevokeCurrentInstallation, Revoked,
           CleanupCredential
  <2>5. QED
    BY <2>1, <2>2, <2>3, <2>4
<1>5. CASE InstallationStep(now)
  BY <1>5, CalmWindows DEF InstallationStep, RevokeInstallation, Revoked, CleanupInstallation
<1>6. CASE SessionStep(now)
  <2>1. ASSUME NEW t \in Tickets, NEW s \in Sessions, ConsumeSessionTicket(now, t, s)
        PROVE  WindowsBounded'
    BY <2>1, ConsumeSessionTicketWindows
  <2>2. ASSUME NEW t \in Tickets, CleanupTicket(now, t) PROVE WindowsBounded'
    BY <2>2, CalmWindows DEF CleanupTicket
  <2>3. ASSUME NEW s \in Sessions,
               \/ ActivateSession(now, s) \/ HeartbeatSession(now, s)
               \/ EndSession(now, s) \/ CleanupSession(now, s)
        PROVE  WindowsBounded'
    BY <2>3, CalmWindows
       DEF ActivateSession, HeartbeatSession, Renew, EndSession, CleanupSession
  <2>4. QED
    BY <1>6, <2>1, <2>2, <2>3 DEF SessionStep
<1>7. CASE AudioStep(now)
  BY <1>7, AudioStepWindows
<1>8. QED
  BY <1>1, <1>2, <1>3, <1>4, <1>5, <1>6, <1>7 DEF StoreStep

LEMMA InitWindows == Init => WindowsBounded
<1>1. ASSUME Init PROVE WindowsBounded
  <2>1. PairingWindows(latest)
    BY <1>1, RollingEmpty, QuotasTyped DEF Init, PairingWindows
  <2>2. TicketWindows(latest) /\ ReconnectWindows(latest)
    BY <1>1, RollingEmpty, QuotasTyped DEF Init, TicketWindows, ReconnectWindows
  <2>3. AudioWindows(latest)
    BY <1>1, AudioEmpty DEF Init, AudioWindows
  <2>4. QED
    BY <2>1, <2>2, <2>3 DEF WindowsBounded
<1>2. QED
  BY <1>1

\* Every rolling window of the store, for events and for audio amounts alike, is
\* bounded at every instant it could end at, and holds nothing that is later than
\* the clock.
THEOREM WindowsStayBounded == Spec => []WindowsBounded
<1>1. TypeInv /\ WindowsBounded /\ [StoreNext]_storeVars => WindowsBounded'
  <2>1. ASSUME TypeInv, WindowsBounded, StoreNext PROVE WindowsBounded'
    BY <2>1, StepWindows DEF StoreNext
  <2>2. ASSUME TypeInv, WindowsBounded, UNCHANGED storeVars PROVE WindowsBounded'
    BY <2>2, QuietWindows DEF storeVars, TypeInv, TypeOK
  <2>3. QED
    BY <2>1, <2>2
<1>2. QED
  BY <1>1, InitWindows, TypeInvariant, PTL DEF Spec

\* The quotas of pairing, redemption, tickets, reconnection and audio hold of every
\* window, not only of those that end when a call is admitted: for every quota,
\* however the clock steps within its tolerance and whatever is rolled back.
THEOREM QuotasAreKept == Spec => []QuotasHold
<1>1. WindowsBounded => QuotasHold
  <2>1. ASSUME WindowsBounded, NEW i \in Installations, NEW t \in Times
        PROVE  AudioSpread(audioLog[i], t)
    BY <2>1, AudioWithin DEF WindowsBounded, AudioWindows
  <2>2. QED
    BY <2>1 DEF WindowsBounded, PairingWindows, TicketWindows, ReconnectWindows,
                Rolling, QuotasHold
<1>2. QED
  BY <1>1, WindowsStayBounded, PTL

(***************************************************************************)
(* Spent credentials.  No invariant is needed: whatever the rest of the    *)
(* store holds, no call gives a spent row another use.                     *)
(***************************************************************************)
StaysSpent(c) == credential[c].status \in Spent => credential'[c].status \in Spent

LEMMA RevokedStaysSpent ==
  ASSUME TypeInv, NEW now, NEW i, Revoked(now, i), NEW c \in Credentials
  PROVE  StaysSpent(c)
BY DEF Revoked, StaysSpent, Spent, TypeInv, TypeOK, CredentialRow

LEMMA RedeemStaysSpent ==
  ASSUME TypeInv, NEW now, NEW p, NEW i, NEW d \in Credentials,
         RedeemPairing(now, p, i, d), NEW c \in Credentials
  PROVE  StaysSpent(c)
<1>1. c # d => credential'[c] = credential[c]
  BY DEF RedeemPairing, TypeInv, TypeOK
<1>2. QED
  BY <1>1 DEF RedeemPairing, NewCredential, StaysSpent, Spent

LEMMA BeginStaysSpent ==
  ASSUME TypeInv, NEW now, NEW d \in Credentials, NEW n \in Credentials,
         BeginCredentialRotation(now, d, n), NEW c \in Credentials
  PROVE  StaysSpent(c)
<1> DEFINE i == credential[d].installation
<1>1. c # n => credential'[c] = IF c \in ReplacedPending(i)
                                THEN [credential[c] EXCEPT !.status = "expired"]
                                ELSE credential[c]
  BY DEF BeginCredentialRotation
<1>2. c # n => credential'[c].status \in {"expired", credential[c].status}
  BY <1>1 DEF TypeInv, TypeOK, CredentialRow
<1>3. QED
  BY <1>2 DEF BeginCredentialRotation, NewCredential, StaysSpent, Spent

LEMMA PromoteStaysSpent ==
  ASSUME TypeInv, NEW now, NEW d \in Credentials, PromoteCredential(now, d),
         NEW c \in Credentials
  PROVE  StaysSpent(c)
<1> DEFINE i   == credential[d].installation
           old == installation[i].current
           idle == IdleExpiry(i, now)
<1>1. credential' = [credential EXCEPT
        ![old].status = "retired",
        ![d] = [@ EXCEPT !.status = "current", !.idleExpiresAt = idle]]
  BY DEF PromoteCredential
<1>2. credential[d].status = "pending"
  BY DEF PromoteCredential, AuthenticatesPending
<1>3. c # d => credential'[c].status \in {"retired", credential[c].status}
  <2> HIDE DEF old, idle
  <2>1. QED
    BY <1>1 DEF TypeInv, TypeOK, CredentialRow
<1>4. QED
  BY <1>2, <1>3 DEF StaysSpent, Spent

LEMMA TouchStaysSpent ==
  ASSUME TypeInv, NEW now, NEW d \in Credentials, NEW c \in Credentials,
         credential' = [credential EXCEPT ![d].idleExpiresAt = now]
  PROVE  StaysSpent(c)
BY DEF StaysSpent, TypeInv, TypeOK, CredentialRow

LEMMA CleanupCredentialStaysSpent ==
  ASSUME TypeInv, NEW now, NEW d \in Credentials, CleanupCredential(now, d),
         NEW c \in Credentials
  PROVE  StaysSpent(c)
BY DEF CleanupCredential, NoCredential, StaysSpent, Spent, TypeInv, TypeOK, CredentialRow

LEMMA CleanupInstallationStaysSpent ==
  ASSUME TypeInv, NEW now, NEW i, CleanupInstallation(now, i), NEW c \in Credentials
  PROVE  StaysSpent(c)
<1>1. CASE LapsedInstallation(i)
  BY <1>1 DEF LapsedInstallation, StaysSpent, Spent, TypeInv, TypeOK, CredentialRow
<1>2. CASE UNCHANGED credential
  BY <1>2 DEF StaysSpent
<1>3. QED
  BY <1>1, <1>2 DEF CleanupInstallation

LEMMA SnapshotStaysSpent ==
  ASSUME TypeInv, NEW now, Snapshot(now), NEW c \in Credentials
  PROVE  StaysSpent(c)
<1>1. credential'[c].status = CredentialAfterExpiry(c, now)
  BY DEF Snapshot, TypeInv, TypeOK, CredentialRow
<1>2. QED
  BY <1>1 DEF CredentialAfterExpiry, StaysSpent, Spent

\* What calls do that do not write the credential table.
LEMMA SameStaysSpent ==
  ASSUME NEW c \in Credentials, UNCHANGED credential
  PROVE  StaysSpent(c)
BY DEF StaysSpent

\* The calls that leave the credential and the installation tables alone.
LEMMA AudioKeepsTables ==
  ASSUME NEW now, AudioStep(now)
  PROVE  UNCHANGED <<installation, credential, ticket, session>>
BY DEF AudioStep, CleanupGrant, RefuseAudio, RollBackAudio, ReserveAudio,
       StrandAudio, ReservationCommitted

LEMMA StepStaysSpent ==
  ASSUME TypeInv, NEW now \in Times, StoreStep(now) \/ Snapshot(now),
         NEW c \in Credentials
  PROVE  StaysSpent(c)
<1>1. CASE Observe(now) \/ RefuseRedemption(now)
  BY <1>1, SameStaysSpent DEF Observe, RefuseRedemption, rows
<1>2. CASE PairingStep(now)
  BY <1>2, SameStaysSpent, RedeemStaysSpent
     DEF PairingStep, IssuePairing, RevokePairing, CleanupPairing
<1>3. CASE CredentialStep(now)
  <2>1. ASSUME NEW d \in Credentials,
               \/ AuthenticateCredential(now, d)
               \/ \E t \in Tickets : IssueSessionTicket(now, d, t)
        PROVE  StaysSpent(c)
    BY <2>1, TouchStaysSpent DEF AuthenticateCredential, IssueSessionTicket
  <2>2. ASSUME NEW d \in Credentials, RevokeCurrentInstallation(now, d)
        PROVE  StaysSpent(c)
    BY <2>2, RevokedStaysSpent DEF RevokeCurrentInstallation
  <2>3. QED
    BY <1>3, <2>1, <2>2, PromoteStaysSpent, CleanupCredentialStaysSpent,
       BeginStaysSpent DEF CredentialStep
<1>4. CASE InstallationStep(now)
  BY <1>4, RevokedStaysSpent, CleanupInstallationStaysSpent
     DEF InstallationStep, RevokeInstallation
<1>5. CASE SessionStep(now)
  BY <1>5, SameStaysSpent
     DEF SessionStep, CleanupTicket, ConsumeSessionTicket, ActivateSession,
         HeartbeatSession, Renew, EndSession, CleanupSession
<1>6. CASE AudioStep(now)
  BY <1>6, AudioKeepsTables, SameStaysSpent
<1>7. QED
  BY <1>1, <1>2, <1>3, <1>4, <1>5, <1>6, SnapshotStaysSpent DEF StoreStep

\* A credential that was retired, revoked, expired or deleted is never accepted
\* again, for any rotation, promotion, expiry, cleanup or clock reading.
THEOREM SpentCredentialsStaySpent == Spec => CredentialNeverRevives
<1> DEFINE Kept == \A c \in Credentials :
                     credential[c].status \in Spent => credential'[c].status \in Spent
<1>1. ASSUME TypeInv, [StoreNext]_storeVars PROVE Kept \/ UNCHANGED storeVars
  BY <1>1, StepStaysSpent DEF StoreNext, StaysSpent
<1>2. TypeInv /\ [StoreNext]_storeVars => [Kept]_storeVars
  BY <1>1
<1>3. QED
  BY <1>2, TypeInvariant, PTL DEF Spec, CredentialNeverRevives

(***************************************************************************)
(* Tickets.  A session row keeps the ticket that opened it, and a ticket   *)
(* that a session keeps is spent; so it cannot open another.               *)
(***************************************************************************)
SpentTicket == {"consumed", "deleted"}

TicketsSpent ==
  \A s \in Sessions : session[s].ticket # None =>
    ticket[session[s].ticket].status \in SpentTicket

\* What every call but ConsumeSessionTicket does to the tickets.
KeepsTickets ==
  /\ \A s \in Sessions : session'[s].ticket = session[s].ticket
  /\ \A t \in Tickets :
       ticket[t].status \in SpentTicket => ticket'[t].status \in SpentTicket

LEMMA SameTickets ==
  ASSUME UNCHANGED <<session, ticket>>
  PROVE  KeepsTickets
BY DEF KeepsTickets

LEMMA RevokedKeepsTickets ==
  ASSUME TypeInv, NEW now, NEW i, Revoked(now, i)
  PROVE  KeepsTickets
BY DEF Revoked, KeepsTickets, TypeInv, TypeOK, SessionRow

LEMMA EndedKeepsTickets ==
  ASSUME TypeInv, NEW now, NEW S, session' = EndedSessions(S, now),
         UNCHANGED ticket
  PROVE  KeepsTickets
BY DEF EndedSessions, KeepsTickets, TypeInv, TypeOK, SessionRow

LEMMA IssueKeepsTickets ==
  ASSUME TypeInv, NEW now, NEW c \in Credentials, NEW t \in Tickets,
         IssueSessionTicket(now, c, t)
  PROVE  KeepsTickets
BY DEF IssueSessionTicket, KeepsTickets, SpentTicket, TypeInv, TypeOK

LEMMA CleanupTicketKeepsTickets ==
  ASSUME TypeInv, NEW now, NEW t \in Tickets, CleanupTicket(now, t)
  PROVE  KeepsTickets
BY DEF CleanupTicket, KeepsTickets, NoTicket, SpentTicket, TypeInv, TypeOK, TicketRow

LEMMA RenewKeepsTickets ==
  ASSUME TypeInv, NEW now, NEW s \in Sessions, Renew(now, s)
  PROVE  KeepsTickets
BY DEF Renew, KeepsTickets, TypeInv, TypeOK, SessionRow

LEMMA CleanupSessionKeepsTickets ==
  ASSUME TypeInv, NEW now, NEW s \in Sessions, CleanupSession(now, s)
  PROVE  KeepsTickets
BY DEF CleanupSession, KeepsTickets, NoSession, TypeInv, TypeOK, SessionRow

LEMMA CleanupInstallationKeepsTickets ==
  ASSUME TypeInv, NEW now, NEW i \in Installations, CleanupInstallation(now, i)
  PROVE  KeepsTickets
<1>1. UNCHANGED ticket
  BY DEF CleanupInstallation
<1>2. CASE LapsedInstallation(i)
  BY <1>1, <1>2 DEF LapsedInstallation, KeepsTickets, TypeInv, TypeOK, SessionRow
<1>3. CASE UNCHANGED session
  BY <1>1, <1>3, SameTickets
<1>4. QED
  BY <1>2, <1>3 DEF CleanupInstallation

LEMMA SnapshotKeepsTickets ==
  ASSUME TypeInv, NEW now, Snapshot(now)
  PROVE  KeepsTickets
<1>1. \A s \in Sessions : session'[s].ticket = session[s].ticket
  BY DEF Snapshot, TypeInv, TypeOK, SessionRow
<1>2. ASSUME NEW t \in Tickets, ticket[t].status \in SpentTicket
      PROVE  ticket'[t].status \in SpentTicket
  BY <1>2 DEF Snapshot, TicketAfterExpiry, SpentTicket, TypeInv, TypeOK, TicketRow
<1>3. QED
  BY <1>1, <1>2 DEF KeepsTickets

LEMMA StepTickets ==
  ASSUME TypeInv, NEW now \in Times, StoreStep(now) \/ Snapshot(now)
  PROVE  \/ KeepsTickets
         \/ \E t \in Tickets, n \in Sessions : ConsumeSessionTicket(now, t, n)
<1>1. CASE Observe(now) \/ RefuseRedemption(now)
  BY <1>1, SameTickets DEF Observe, RefuseRedemption, rows
<1>2. CASE PairingStep(now)
  BY <1>2, SameTickets
     DEF PairingStep, IssuePairing, RevokePairing, CleanupPairing, RedeemPairing
<1>3. CASE CredentialStep(now)
  <2>1. ASSUME NEW c \in Credentials,
               \/ AuthenticateCredential(now, c) \/ CleanupCredential(now, c)
               \/ \E n \in Credentials : BeginCredentialRotation(now, c, n)
        PROVE  KeepsTickets
    BY <2>1, SameTickets
       DEF AuthenticateCredential, CleanupCredential, BeginCredentialRotation
  <2>2. ASSUME NEW c \in Credentials, PromoteCredential(now, c)
        PROVE  KeepsTickets
    BY <2>2, EndedKeepsTickets DEF PromoteCredential
  <2>3. ASSUME NEW c \in Credentials, RevokeCurrentInstallation(now, c)
        PROVE  KeepsTickets
    BY <2>3, RevokedKeepsTickets DEF RevokeCurrentInstallation
  <2>4. QED
    BY <1>3, <2>1, <2>2, <2>3, IssueKeepsTickets DEF CredentialStep
<1>4. CASE InstallationStep(now)
  BY <1>4, RevokedKeepsTickets, CleanupInstallationKeepsTickets
     DEF InstallationStep, RevokeInstallation
<1>5. CASE SessionStep(now)
  <2>1. ASSUME NEW s \in Sessions,
               \/ ActivateSession(now, s) \/ HeartbeatSession(now, s)
               \/ EndSession(now, s)
        PROVE  KeepsTickets
    BY <2>1, RenewKeepsTickets, EndedKeepsTickets
       DEF ActivateSession, HeartbeatSession, EndSession
  <2>2. QED
    BY <1>5, <2>1, CleanupTicketKeepsTickets, CleanupSessionKeepsTickets
       DEF SessionStep
<1>6. CASE AudioStep(now)
  BY <1>6, AudioKeepsTables, SameTickets
<1>7. QED
  BY <1>1, <1>2, <1>3, <1>4, <1>5, <1>6, SnapshotKeepsTickets DEF StoreStep

TicketInv == TicketSingleUse /\ TicketsSpent

LEMMA KeptTickets ==
  ASSUME TypeInv, TicketInv, KeepsTickets
  PROVE  TicketInv'
<1>1. \A s \in Sessions : session[s].ticket \in Tickets \cup {None}
  BY DEF TypeInv, TypeOK, SessionRow
<1>2. TicketsSpent'
  BY <1>1 DEF TicketInv, TicketsSpent, KeepsTickets
<1>3. TicketSingleUse'
  BY DEF TicketInv, TicketSingleUse, KeepsTickets
<1>4. QED
  BY <1>2, <1>3 DEF TicketInv

LEMMA ConsumedTickets ==
  ASSUME TypeInv, TicketInv, NEW now, NEW t \in Tickets, NEW n \in Sessions,
         ConsumeSessionTicket(now, t, n)
  PROVE  TicketInv'
<1>1. /\ ticket[t].status = "issued"
      /\ ticket' = [ticket EXCEPT ![t].status = "consumed"]
  BY DEF ConsumeSessionTicket, TicketConsumable
<1>2. /\ session'[n].ticket = t
      /\ \A s \in Sessions : s # n => session'[s].ticket = session[s].ticket
  BY DEF ConsumeSessionTicket, TypeInv, TypeOK, SessionRow
<1>3. \A s \in Sessions : session[s].ticket \in Tickets \cup {None}
  BY DEF TypeInv, TypeOK, SessionRow
<1>4. \A s \in Sessions : session[s].ticket # t
  BY <1>1, <1>3, ConstantsAssumption DEF TicketInv, TicketsSpent, SpentTicket
<1>5. \A u \in Tickets :
        ticket'[u].status = IF u = t THEN "consumed" ELSE ticket[u].status
  BY <1>1 DEF TypeInv, TypeOK, TicketRow
<1>6. TicketsSpent'
  BY <1>2, <1>3, <1>5 DEF TicketInv, TicketsSpent, SpentTicket
<1>7. TicketSingleUse'
  BY <1>2, <1>4 DEF TicketInv, TicketSingleUse
<1>8. QED
  BY <1>6, <1>7 DEF TicketInv

\* Whatever is retried, refused, expired or cleaned up in between, a ticket opens
\* one session at most.
THEOREM TicketsOpenOneSession == Spec => []TicketSingleUse
<1>1. Init => TicketInv
  BY DEF Init, NoSession, TicketInv, TicketSingleUse, TicketsSpent
<1>2. TypeInv /\ TicketInv /\ [StoreNext]_storeVars => TicketInv'
  <2>1. ASSUME TypeInv, TicketInv, StoreNext PROVE TicketInv'
    BY <2>1, StepTickets, KeptTickets, ConsumedTickets DEF StoreNext
  <2>2. ASSUME TypeInv, TicketInv, UNCHANGED storeVars PROVE TicketInv'
    BY <2>2 DEF storeVars, rows, TicketInv, TicketSingleUse, TicketsSpent
  <2>3. QED
    BY <2>1, <2>2
<1>3. TicketInv => TicketSingleUse
  BY DEF TicketInv
<1>4. QED
  BY <1>1, <1>2, <1>3, TypeInvariant, PTL DEF Spec

(***************************************************************************)
(* Audio grants.  A step that closes a session drops its grants, and a     *)
(* grant is only added for an active session.                              *)
(***************************************************************************)
Closed == {"absent", "ended", "revoked", "deleted"}

\* A grant kept or added is of a session that the step did not close.
GrantsFollow ==
  \A g \in grants' : session'[g.session].status \in Closed =>
    g \in grants /\ session[g.session].status \in Closed

LEMMA GrantsSession ==
  ASSUME TypeInv
  PROVE  \A g \in grants : g.session \in Sessions
BY DEF TypeInv, TypeOK, Grant

LEMMA SameGrants ==
  ASSUME grants' \subseteq grants, UNCHANGED session
  PROVE  GrantsFollow
BY DEF GrantsFollow

LEMMA RevokedGrantsFollow ==
  ASSUME TypeInv, NEW now, NEW i, Revoked(now, i)
  PROVE  GrantsFollow
<1>1. grants' = WithoutGrantsOf({s \in Sessions : s = installation[i].activeSession})
  BY DEF Revoked
<1>2. \A g \in grants' : g \in grants /\ g.session \in Sessions
                           /\ g.session # installation[i].activeSession
  BY <1>1, GrantsSession DEF WithoutGrantsOf
<1>3. \A s \in Sessions :
        s # installation[i].activeSession => session'[s] = session[s]
  BY DEF Revoked
<1>4. QED
  BY <1>2, <1>3 DEF GrantsFollow

LEMMA EndedGrantsFollow ==
  ASSUME TypeInv, NEW now, NEW S, session' = EndedSessions(S, now),
         grants' = WithoutGrantsOf(S)
  PROVE  GrantsFollow
BY GrantsSession DEF EndedSessions, WithoutGrantsOf, GrantsFollow

LEMMA RenewGrantsFollow ==
  ASSUME TypeInv, NEW now, NEW s \in Sessions, Renew(now, s)
  PROVE  GrantsFollow
<1>1. \A r \in Sessions :
        session'[r].status = IF r = s THEN "active" ELSE session[r].status
  BY DEF Renew, TypeInv, TypeOK, SessionRow
<1>2. grants' = grants
  BY DEF Renew
<1>3. QED
  BY <1>1, <1>2, GrantsSession DEF GrantsFollow, Closed

LEMMA ConsumeGrantsFollow ==
  ASSUME TypeInv, NEW now, NEW t \in Tickets, NEW n \in Sessions,
         ConsumeSessionTicket(now, t, n)
  PROVE  GrantsFollow
<1>1. \A s \in Sessions :
        session'[s].status \in {"opening", "expired", session[s].status}
  BY DEF ConsumeSessionTicket, TypeInv, TypeOK, SessionRow
<1>2. grants' = grants
  BY DEF ConsumeSessionTicket
<1>3. QED
  BY <1>1, <1>2, GrantsSession DEF GrantsFollow, Closed

LEMMA CleanupSessionGrantsFollow ==
  ASSUME TypeInv, NEW now, NEW s \in Sessions, CleanupSession(now, s)
  PROVE  GrantsFollow
<1>1. \A r \in Sessions : r # s => session'[r] = session[r]
  BY DEF CleanupSession, TypeInv, TypeOK
<1>2. grants' = WithoutGrantsOf({s})
  BY DEF CleanupSession
<1>3. QED
  BY <1>1, <1>2, GrantsSession DEF WithoutGrantsOf, GrantsFollow

LEMMA CleanupInstallationGrantsFollow ==
  ASSUME TypeInv, NEW now, NEW i \in Installations, CleanupInstallation(now, i)
  PROVE  GrantsFollow
<1>1. CASE LapsedInstallation(i)
  <2>1. \A s \in Sessions : session'[s].status \in {"expired", session[s].status}
    BY <1>1 DEF LapsedInstallation, TypeInv, TypeOK, SessionRow
  <2>2. grants' \subseteq grants
    BY <1>1 DEF LapsedInstallation, WithoutGrantsOf
  <2>3. QED
    BY <2>1, <2>2, GrantsSession DEF GrantsFollow, Closed
<1>2. CASE UNCHANGED <<session, grants>>
  BY <1>2, SameGrants
<1>3. QED
  BY <1>1, <1>2 DEF CleanupInstallation

LEMMA SnapshotGrantsFollow ==
  ASSUME TypeInv, NEW now, Snapshot(now)
  PROVE  GrantsFollow
<1>1. \A s \in Sessions : session'[s].status \in {"expired", session[s].status}
  BY DEF Snapshot, TypeInv, TypeOK, SessionRow
<1>2. grants' \subseteq grants
  BY DEF Snapshot, WithoutGrantsOf
<1>3. QED
  BY <1>1, <1>2, GrantsSession DEF GrantsFollow, Closed

LEMMA AudioGrantsFollow ==
  ASSUME TypeInv, NEW now, AudioStep(now)
  PROVE  GrantsFollow
<1>1. ASSUME NEW g, CleanupGrant(now, g) PROVE GrantsFollow
  BY <1>1, SameGrants DEF CleanupGrant
<1>2. ASSUME NEW s, NEW samples,
             \/ RefuseAudio(now, s, samples)
             \/ \E handoff \in Times : RollBackAudio(now, s, samples, handoff)
      PROVE  GrantsFollow
  BY <1>2, SameGrants DEF RefuseAudio, RollBackAudio
<1>3. ASSUME NEW id, NEW s, NEW samples, ReservationCommitted(now, id, s, samples)
      PROVE  GrantsFollow
  <2>1. session[s].status = "active" /\ UNCHANGED session
    BY <1>3 DEF ReservationCommitted, GrantAdmitted, SessionActive
  <2>2. \A g \in grants' : g \in grants \/ g.session = s
    BY <1>3 DEF ReservationCommitted, NewGrant
  <2>3. QED
    BY <2>1, <2>2 DEF GrantsFollow, Closed
<1>4. QED
  BY <1>1, <1>2, <1>3 DEF AudioStep, ReserveAudio, StrandAudio

LEMMA StepGrantsFollow ==
  ASSUME TypeInv, NEW now \in Times, StoreStep(now) \/ Snapshot(now)
  PROVE  GrantsFollow
<1>1. CASE Observe(now) \/ RefuseRedemption(now)
  BY <1>1, SameGrants DEF Observe, RefuseRedemption, rows
<1>2. CASE PairingStep(now)
  BY <1>2, SameGrants
     DEF PairingStep, IssuePairing, RevokePairing, CleanupPairing, RedeemPairing
<1>3. CASE CredentialStep(now)
  <2>1. ASSUME NEW c \in Credentials,
               \/ AuthenticateCredential(now, c) \/ CleanupCredential(now, c)
               \/ \E n \in Credentials : BeginCredentialRotation(now, c, n)
               \/ \E t \in Tickets : IssueSessionTicket(now, c, t)
        PROVE  GrantsFollow
    BY <2>1, SameGrants
       DEF AuthenticateCredential, CleanupCredential, BeginCredentialRotation,
           IssueSessionTicket
  <2>2. ASSUME NEW c \in Credentials, PromoteCredential(now, c)
        PROVE  GrantsFollow
    BY <2>2, EndedGrantsFollow DEF PromoteCredential
  <2>3. ASSUME NEW c \in Credentials, RevokeCurrentInstallation(now, c)
        PROVE  GrantsFollow
    BY <2>3, RevokedGrantsFollow DEF RevokeCurrentInstallation
  <2>4. QED
    BY <1>3, <2>1, <2>2, <2>3 DEF CredentialStep
<1>4. CASE InstallationStep(now)
  BY <1>4, RevokedGrantsFollow, CleanupInstallationGrantsFollow
     DEF InstallationStep, RevokeInstallation
<1>5. CASE SessionStep(now)
  <2>1. ASSUME NEW s \in Sessions,
               \/ ActivateSession(now, s) \/ HeartbeatSession(now, s)
               \/ EndSession(now, s)
        PROVE  GrantsFollow
    BY <2>1, RenewGrantsFollow, EndedGrantsFollow
       DEF ActivateSession, HeartbeatSession, EndSession
  <2>2. ASSUME NEW t \in Tickets, CleanupTicket(now, t)
        PROVE  GrantsFollow
    BY <2>2, SameGrants DEF CleanupTicket
  <2>3. QED
    BY <1>5, <2>1, <2>2, ConsumeGrantsFollow, CleanupSessionGrantsFollow
       DEF SessionStep
<1>6. CASE AudioStep(now)
  BY <1>6, AudioGrantsFollow
<1>7. QED
  BY <1>1, <1>2, <1>3, <1>4, <1>5, <1>6, SnapshotGrantsFollow DEF StoreStep

\* A session that ended, was revoked or was deleted holds no audio grant,
\* stranded reservations included.
THEOREM ClosedSessionsHoldNoGrants == Spec => []EndedSessionsHoldNoGrants
<1>1. Init => EndedSessionsHoldNoGrants
  BY DEF Init, EndedSessionsHoldNoGrants
<1>2. TypeInv /\ EndedSessionsHoldNoGrants /\ [StoreNext]_storeVars
        => EndedSessionsHoldNoGrants'
  <2>1. ASSUME TypeInv, EndedSessionsHoldNoGrants, StoreNext
        PROVE  EndedSessionsHoldNoGrants'
    BY <2>1, StepGrantsFollow
       DEF StoreNext, EndedSessionsHoldNoGrants, GrantsFollow, Closed
  <2>2. ASSUME EndedSessionsHoldNoGrants, UNCHANGED storeVars
        PROVE  EndedSessionsHoldNoGrants'
    BY <2>2 DEF storeVars, rows, EndedSessionsHoldNoGrants
  <2>3. QED
    BY <2>1, <2>2
<1>3. QED
  BY <1>1, <1>2, TypeInvariant, PTL DEF Spec

(***************************************************************************)
(* Credentials and their installation.  A usable credential is named by an *)
(* active installation, in the role the credential has, and expires with   *)
(* it; a pending one also with the installation's pendingExpiresAt, so a   *)
(* sweep that forgets the pending key expires its credential too.          *)
(***************************************************************************)
Usable(c) == credential[c].status \in {"current", "pending"}

Backed(c) ==
  LET i == credential[c].installation IN
  /\ installation[i].status = "active"
  /\ installation[i].absoluteExpiresAt = credential[c].absoluteExpiresAt
  /\ credential[c].status = "current" => installation[i].current = c
  /\ credential[c].status = "pending" =>
       /\ installation[i].pending = c
       /\ installation[i].pendingExpiresAt = credential[c].idleExpiresAt

CredentialsBacked == \A c \in Credentials : Usable(c) => Backed(c)

\* The step keeps what Backed(c) reads of the credential row,
SameUse(c) ==
  /\ credential'[c].status = credential[c].status
  /\ credential'[c].installation = credential[c].installation
  /\ credential'[c].absoluteExpiresAt = credential[c].absoluteExpiresAt
  /\ credential[c].status = "pending" =>
       credential'[c].idleExpiresAt = credential[c].idleExpiresAt

\* and b keeps what it reads of the installation row a.
SameKeys(a, b) ==
  /\ b.status = a.status /\ b.absoluteExpiresAt = a.absoluteExpiresAt
  /\ b.current = a.current /\ b.pending = a.pending
  /\ b.pendingExpiresAt = a.pendingExpiresAt

LEMMA KeptBacked ==
  ASSUME CredentialsBacked, NEW c \in Credentials, SameUse(c), Usable(c)',
         SameKeys(installation[credential[c].installation],
                  installation'[credential[c].installation])
  PROVE  Backed(c)'
BY DEF CredentialsBacked, Usable, Backed, SameUse, SameKeys

LEMMA UsableRefers ==
  ASSUME TypeInv, CredentialsBacked, NEW c \in Credentials, Usable(c)
  PROVE  /\ credential[c].installation \in Installations
         /\ installation[credential[c].installation].status = "active"
         /\ c \in Keys(credential[c].installation)
BY DEF TypeInv, RowsRefer, CredentialsBacked, Usable, Backed, Keys

LEMMA SameBacked ==
  ASSUME CredentialsBacked, UNCHANGED <<credential, installation>>,
         NEW c \in Credentials, Usable(c)'
  PROVE  Backed(c)'
BY DEF CredentialsBacked, Usable, Backed

\* The calls that move an installation's session pointer only.
LEMMA PointerBacked ==
  ASSUME TypeInv, CredentialsBacked, UNCHANGED credential,
         \A i \in Installations : SameKeys(installation[i], installation'[i]),
         NEW c \in Credentials, Usable(c)'
  PROVE  Backed(c)'
<1>1. Usable(c) /\ SameUse(c)
  BY DEF Usable, SameUse
<1>2. QED
  BY <1>1, UsableRefers, KeptBacked

LEMMA RedeemBacked ==
  ASSUME TypeInv, CredentialsBacked, NEW now \in Times, NEW p \in Pairings,
         NEW i \in Installations, NEW d \in Credentials,
         RedeemPairing(now, p, i, d), NEW c \in Credentials, Usable(c)'
  PROVE  Backed(c)'
<1> DEFINE absolute == now + CredentialAbsoluteTtl
<1>1. CASE c = d
  <2> DEFINE idle == MinOf(now + CredentialIdleTtl, absolute)
  <2>1. credential' = [credential EXCEPT
          ![d] = [status |-> "current", installation |-> i, version |-> 1,
                  absoluteExpiresAt |-> absolute, idleExpiresAt |-> idle]]
    BY DEF RedeemPairing
  <2>2. installation' = [installation EXCEPT
          ![i] = [NoInstallation EXCEPT
                    !.status = "active", !.absoluteExpiresAt = absolute,
                    !.tombstoneVersion = 1, !.current = d, !.currentVersion = 1]]
    BY DEF RedeemPairing
  <2> HIDE DEF absolute, idle
  <2>3. /\ credential'[c].status = "current" /\ credential'[c].installation = i
        /\ credential'[c].absoluteExpiresAt = absolute
    BY <1>1, <2>1 DEF TypeInv, TypeOK
  <2>4. /\ installation'[i].status = "active" /\ installation'[i].current = c
        /\ installation'[i].absoluteExpiresAt = absolute
    BY <1>1, <2>2 DEF TypeInv, TypeOK, NoInstallation
  <2>5. QED
    BY <2>3, <2>4 DEF Backed
<1>2. CASE c # d
  <2>1. credential'[c] = credential[c]
    BY <1>2 DEF RedeemPairing, TypeInv, TypeOK
  <2>2. Usable(c) /\ SameUse(c)
    BY <2>1 DEF Usable, SameUse
  <2>3. credential[c].installation # i
    BY <2>2, UsableRefers DEF RedeemPairing
  <2>4. \A j \in Installations : j # i => installation'[j] = installation[j]
    BY DEF RedeemPairing, TypeInv, TypeOK
  <2>5. QED
    BY <2>2, <2>3, <2>4, UsableRefers, KeptBacked DEF SameKeys
<1>3. QED
  BY <1>1, <1>2

LEMMA TouchBacked ==
  ASSUME TypeInv, CredentialsBacked, NEW idle, NEW d \in Credentials,
         credential[d].status = "current", UNCHANGED installation,
         credential' = [credential EXCEPT ![d].idleExpiresAt = idle],
         NEW c \in Credentials, Usable(c)'
  PROVE  Backed(c)'
<1>1. SameUse(c)
  BY DEF SameUse, TypeInv, TypeOK, CredentialRow
<1>2. QED
  BY <1>1, KeptBacked DEF SameKeys

LEMMA BeginBacked ==
  ASSUME TypeInv, CredentialsBacked, NEW now \in Times, NEW d \in Credentials,
         NEW n \in Credentials, BeginCredentialRotation(now, d, n),
         NEW c \in Credentials, Usable(c)'
  PROVE  Backed(c)'
<1> DEFINE i       == credential[d].installation
           version == installation[i].currentVersion + 1
           expires == MinOf(now + PendingCredentialTtl,
                            installation[i].absoluteExpiresAt)
<1>1. /\ credential' = [x \in Credentials |->
           IF x = n
           THEN [status |-> "pending", installation |-> i, version |-> version,
                 absoluteExpiresAt |-> installation[i].absoluteExpiresAt,
                 idleExpiresAt |-> expires]
           ELSE IF x \in ReplacedPending(i)
           THEN [credential[x] EXCEPT !.status = "expired"]
           ELSE credential[x]]
      /\ installation' = [installation EXCEPT
           ![i] = [@ EXCEPT !.pending = n, !.pendingVersion = version,
                            !.pendingExpiresAt = expires]]
  BY DEF BeginCredentialRotation
<1>2. i \in Installations /\ installation[i].status = "active"
  BY AuthenticatedRefers DEF BeginCredentialRotation, AuthenticatesCurrent, InstallationActive
<1> HIDE DEF version, expires
<1>3. /\ \A j \in Installations : j # i => installation'[j] = installation[j]
      /\ installation'[i].status = "active"
      /\ installation'[i].absoluteExpiresAt = installation[i].absoluteExpiresAt
      /\ installation'[i].current = installation[i].current
      /\ installation'[i].pending = n
      /\ installation'[i].pendingExpiresAt = expires
  BY <1>1, <1>2 DEF TypeInv, TypeOK, InstallationRow
<1>4. CASE c = n
  BY <1>1, <1>2, <1>3, <1>4 DEF Backed
<1>5. CASE c # n
  <2>1. c \in ReplacedPending(i) => credential'[c].status = "expired"
    BY <1>1, <1>5 DEF TypeInv, TypeOK, CredentialRow
  <2>2. c \notin ReplacedPending(i) /\ credential'[c] = credential[c]
    BY <1>1, <1>5, <2>1 DEF Usable
  <2>3. Usable(c) /\ Backed(c)
    BY <2>2 DEF Usable, CredentialsBacked
  <2>4. credential[c].installation = i => credential[c].status # "pending"
    BY <2>2, <2>3 DEF ReplacedPending, Backed
  <2>5. QED
    BY <1>3, <2>2, <2>3, <2>4, UsableRefers DEF Backed, Usable
<1>6. QED
  BY <1>4, <1>5

LEMMA PromoteBacked ==
  ASSUME TypeInv, CredentialsBacked, NEW now \in Times, NEW d \in Credentials,
         PromoteCredential(now, d), NEW c \in Credentials, Usable(c)'
  PROVE  Backed(c)'
<1> DEFINE i         == credential[d].installation
           old       == installation[i].current
           prior     == PriorSessions(i, d)
           remaining == IF prior = {} THEN installation[i].activeSession ELSE None
           idle      == IdleExpiry(i, now)
<1>1. /\ credential' = [credential EXCEPT
           ![old].status = "retired",
           ![d] = [@ EXCEPT !.status = "current", !.idleExpiresAt = idle]]
      /\ installation' = [installation EXCEPT
           ![i] = [NoPending(@) EXCEPT
                     !.current = d, !.currentVersion = credential[d].version,
                     !.activeSession = remaining]]
      /\ credential[old].status = "current"
      /\ credential[d].status = "pending"
  BY DEF PromoteCredential, AuthenticatesPending
<1>2. Usable(d) /\ Backed(d) /\ i \in Installations
  BY <1>1, UsableRefers DEF Usable, CredentialsBacked
<1>3. NoPending(installation[i]) \in InstallationRow
        /\ NoPending(installation[i]).status = "active"
        /\ NoPending(installation[i]).absoluteExpiresAt = installation[i].absoluteExpiresAt
  BY <1>2, NoPendingTyped DEF NoPending, Backed, TypeInv, TypeOK, InstallationRow
<1> HIDE DEF prior, remaining, idle
<1>4. /\ \A j \in Installations : j # i => installation'[j] = installation[j]
      /\ installation'[i].status = "active"
      /\ installation'[i].absoluteExpiresAt = installation[i].absoluteExpiresAt
      /\ installation'[i].current = d
  BY <1>1, <1>2, <1>3 DEF TypeInv, TypeOK, InstallationRow
<1>5. CASE c = d
  <2>1. /\ credential'[c].status = "current"
        /\ credential'[c].installation = i
        /\ credential'[c].absoluteExpiresAt = credential[d].absoluteExpiresAt
    BY <1>1, <1>5 DEF TypeInv, TypeOK, CredentialRow
  <2>2. QED
    BY <1>2, <1>4, <1>5, <2>1 DEF Backed
<1>6. CASE c # d
  <2>1. c = old => credential'[c].status = "retired"
    BY <1>1, <1>6 DEF TypeInv, TypeOK, CredentialRow
  <2>2. c # old /\ credential'[c] = credential[c]
    BY <1>1, <1>6, <2>1 DEF Usable, TypeInv, TypeOK
  <2>3. Usable(c) /\ Backed(c)
    BY <2>2 DEF Usable, CredentialsBacked
  <2>4. credential[c].installation # i
    BY <1>1, <1>2, <1>6, <2>2, <2>3 DEF Backed, Usable
  <2>5. QED
    BY <1>4, <2>2, <2>3, <2>4, UsableRefers DEF Backed
<1>7. QED
  BY <1>5, <1>6

LEMMA RevokedBacked ==
  ASSUME TypeInv, CredentialsBacked, NEW now, NEW i \in Installations,
         Revoked(now, i), NEW c \in Credentials, Usable(c)'
  PROVE  Backed(c)'
<1>1. c \in Keys(i) /\ credential[c].status # "deleted"
        => credential'[c].status = "revoked"
  BY DEF Revoked, TypeInv, TypeOK, CredentialRow
<1>2. c \notin Keys(i) \/ credential[c].status = "deleted"
  BY <1>1 DEF Usable
<1>3. credential'[c] = credential[c]
  BY <1>2 DEF Revoked
<1>4. Usable(c) /\ SameUse(c)
  BY <1>3 DEF Usable, SameUse
<1>5. credential[c].installation # i
  BY <1>2, <1>4, UsableRefers DEF Usable
<1>6. \A j \in Installations : j # i => installation'[j] = installation[j]
  BY DEF Revoked, TypeInv, TypeOK
<1>7. QED
  BY <1>4, <1>5, <1>6, UsableRefers, KeptBacked DEF SameKeys

LEMMA NoPendingKeys ==
  ASSUME NEW row \in InstallationRow
  PROVE  /\ NoPending(row).status = row.status
         /\ NoPending(row).absoluteExpiresAt = row.absoluteExpiresAt
         /\ NoPending(row).current = row.current
BY DEF NoPending, InstallationRow

LEMMA CleanupCredentialBacked ==
  ASSUME TypeInv, CredentialsBacked, NEW now, NEW d \in Credentials,
         CleanupCredential(now, d), NEW c \in Credentials, Usable(c)'
  PROVE  Backed(c)'
<1> DEFINE i == credential[c].installation
<1>1. credential'[d].status = "deleted"
  BY DEF CleanupCredential, NoCredential, TypeInv, TypeOK
<1>2. c # d /\ credential'[c] = credential[c]
  BY <1>1 DEF Usable, CleanupCredential, TypeInv, TypeOK
<1>3. Usable(c) /\ Backed(c) /\ i \in Installations
  BY <1>2, UsableRefers DEF Usable, CredentialsBacked
<1>4. \/ installation'[i] = installation[i]
      \/ installation'[i] = NoPending(installation[i]) /\ installation[i].pending = d
  BY <1>3 DEF CleanupCredential
<1>5. CASE installation'[i] = installation[i]
  BY <1>2, <1>3, <1>5 DEF Backed
<1>6. CASE installation'[i] = NoPending(installation[i]) /\ installation[i].pending = d
  <2>1. credential[c].status = "current"
    BY <1>2, <1>3, <1>6 DEF Usable, Backed
  <2>2. QED
    BY <1>2, <1>3, <1>6, <2>1, NoPendingKeys DEF Backed, TypeInv, TypeOK
<1>7. QED
  BY <1>4, <1>5, <1>6

LEMMA CleanupInstallationBacked ==
  ASSUME TypeInv, CredentialsBacked, NEW now, NEW i \in Installations,
         CleanupInstallation(now, i), NEW c \in Credentials, Usable(c)'
  PROVE  Backed(c)'
<1>1. \A j \in Installations : j # i => installation'[j] = installation[j]
  BY DEF CleanupInstallation, TypeInv, TypeOK
<1>2. CASE InstallationLapses(i, now) /\ LapsedInstallation(i)
  <2>1. c \in Keys(i) /\ Usable(c) => credential'[c].status = "expired"
    BY <1>2 DEF LapsedInstallation, Usable, TypeInv, TypeOK, CredentialRow
  <2>2. credential'[c] = credential[c]
    BY <1>2, <2>1 DEF LapsedInstallation, Usable
  <2>3. Usable(c) /\ SameUse(c)
    BY <2>2 DEF Usable, SameUse
  <2>4. credential[c].installation # i
    BY <2>1, <2>2, <2>3, UsableRefers DEF Usable
  <2>5. QED
    BY <1>1, <2>3, <2>4, UsableRefers, KeptBacked DEF SameKeys
<1>3. CASE installation[i].status \in {"revoked", "expired"} /\ UNCHANGED credential
  <2>1. Usable(c) /\ SameUse(c)
    BY <1>3 DEF Usable, SameUse
  <2>2. credential[c].installation # i
    BY <1>3, <2>1, UsableRefers
  <2>3. QED
    BY <1>1, <2>1, <2>2, UsableRefers, KeptBacked DEF SameKeys
<1>4. QED
  BY <1>2, <1>3 DEF CleanupInstallation

LEMMA ConsumeKeepsKeys ==
  ASSUME TypeInv, NEW now, NEW t \in Tickets, NEW n \in Sessions,
         ConsumeSessionTicket(now, t, n), NEW i \in Installations
  PROVE  SameKeys(installation[i], installation'[i])
BY DEF ConsumeSessionTicket, SameKeys, TypeInv, TypeOK, InstallationRow

LEMMA EndKeepsKeys ==
  ASSUME TypeInv, NEW now, NEW s \in Sessions,
         EndSession(now, s) \/ CleanupSession(now, s), NEW i \in Installations
  PROVE  SameKeys(installation[i], installation'[i])
<1> DEFINE j == session[s].installation
<1>1. \/ installation' = [installation EXCEPT ![j].activeSession = None]
      \/ installation' = installation
  BY DEF EndSession, CleanupSession
<1> HIDE DEF j
<1>2. installation'[i] \in {installation[i], [installation[i] EXCEPT !.activeSession = None]}
  BY <1>1 DEF TypeInv, TypeOK
<1>3. QED
  BY <1>2 DEF SameKeys, TypeInv, TypeOK, InstallationRow

LEMMA SnapshotBacked ==
  ASSUME TypeInv, CredentialsBacked, NEW now \in Times, Snapshot(now),
         NEW c \in Credentials, Usable(c)'
  PROVE  Backed(c)'
<1> DEFINE i       == credential[c].installation
           row     == installation[i]
           dropped == row.pending # None /\ now >= row.pendingExpiresAt
           base    == IF dropped THEN NoPending(row) ELSE row
<1>1. /\ credential'[c].status = CredentialAfterExpiry(c, now)
      /\ credential'[c].installation = i
      /\ credential'[c].absoluteExpiresAt = credential[c].absoluteExpiresAt
      /\ credential'[c].idleExpiresAt = credential[c].idleExpiresAt
  BY DEF Snapshot, TypeInv, TypeOK, CredentialRow
<1>2. /\ Usable(c) /\ CredentialActive(c, now)
      /\ credential'[c].status = credential[c].status
  BY <1>1 DEF Usable, CredentialAfterExpiry
<1>3. Backed(c) /\ i \in Installations /\ row \in InstallationRow
  BY <1>2, UsableRefers DEF CredentialsBacked, TypeInv, TypeOK
<1>4. now < credential[c].absoluteExpiresAt /\ now < credential[c].idleExpiresAt
  BY <1>2 DEF CredentialActive
<1>5. RefreshedStatus(i, now) = "active"
  <2>1. now \in Nat /\ row.absoluteExpiresAt \in Nat
    BY <1>3, TimesNat DEF InstallationRow, Expiry
  <2>2. QED
    BY <1>3, <1>4, <2>1 DEF RefreshedStatus, InstallationLapses, Backed
<1>6. credential[c].status = "pending" => base = row
  <2>1. now \in Nat /\ row.pendingExpiresAt \in Nat
    BY <1>3, TimesNat DEF InstallationRow, Expiry
  <2>2. QED
    BY <1>3, <1>4, <2>1 DEF Backed
<1>7. /\ base \in InstallationRow /\ base.current = row.current
      /\ base.absoluteExpiresAt = row.absoluteExpiresAt
  BY <1>3, NoPendingTyped, NoPendingKeys
<1>8. installation'[i] = [base EXCEPT
        !.status = RefreshedStatus(i, now),
        !.endedAt = IF InstallationLapses(i, now) THEN row.absoluteExpiresAt ELSE @,
        !.activeSession = IF DetachedSessions(i, now) = {} THEN @ ELSE None]
  BY <1>3 DEF Snapshot, RefreshedInstallation
<1> HIDE DEF base, dropped
<1>9. /\ installation'[i].status = "active"
      /\ installation'[i].absoluteExpiresAt = base.absoluteExpiresAt
      /\ installation'[i].current = base.current
      /\ installation'[i].pending = base.pending
      /\ installation'[i].pendingExpiresAt = base.pendingExpiresAt
  BY <1>5, <1>7, <1>8 DEF InstallationRow
<1>10. QED
  BY <1>1, <1>2, <1>3, <1>6, <1>7, <1>9 DEF Backed

LEMMA StepBacked ==
  ASSUME TypeInv, CredentialsBacked, NEW now \in Times,
         StoreStep(now) \/ Snapshot(now), NEW c \in Credentials, Usable(c)'
  PROVE  Backed(c)'
<1>1. CASE Observe(now) \/ RefuseRedemption(now)
  BY <1>1, SameBacked DEF Observe, RefuseRedemption, rows
<1>2. CASE PairingStep(now)
  BY <1>2, SameBacked, RedeemBacked
     DEF PairingStep, IssuePairing, RevokePairing, CleanupPairing
<1>3. CASE CredentialStep(now)
  <2>1. ASSUME NEW d \in Credentials,
               \/ AuthenticateCredential(now, d)
               \/ \E t \in Tickets : IssueSessionTicket(now, d, t)
        PROVE  Backed(c)'
    <3>1. credential[d].status = "current" /\ UNCHANGED installation
      BY <2>1 DEF AuthenticateCredential, IssueSessionTicket, AuthenticatesCurrent
    <3>2. credential' = [credential EXCEPT
            ![d].idleExpiresAt = IdleExpiry(credential[d].installation, now)]
      BY <2>1 DEF AuthenticateCredential, IssueSessionTicket
    <3>3. QED
      BY <3>1, <3>2, TouchBacked
  <2>2. ASSUME NEW d \in Credentials, RevokeCurrentInstallation(now, d)
        PROVE  Backed(c)'
    BY <2>2, AuthenticatedRefers, RevokedBacked DEF RevokeCurrentInstallation
  <2>3. QED
    BY <1>3, <2>1, <2>2, BeginBacked, PromoteBacked, CleanupCredentialBacked
       DEF CredentialStep
<1>4. CASE InstallationStep(now)
  BY <1>4, RevokedBacked, CleanupInstallationBacked
     DEF InstallationStep, RevokeInstallation
<1>5. CASE SessionStep(now)
  <2>1. ASSUME NEW t \in Tickets, CleanupTicket(now, t) PROVE Backed(c)'
    BY <2>1, SameBacked DEF CleanupTicket
  <2>2. ASSUME NEW t \in Tickets, NEW n \in Sessions, ConsumeSessionTicket(now, t, n)
        PROVE  Backed(c)'
    BY <2>2, ConsumeKeepsKeys, PointerBacked DEF ConsumeSessionTicket
  <2>3. ASSUME NEW s \in Sessions, ActivateSession(now, s) \/ HeartbeatSession(now, s)
        PROVE  Backed(c)'
    BY <2>3, SameBacked DEF ActivateSession, HeartbeatSession, Renew
  <2>4. ASSUME NEW s \in Sessions, EndSession(now, s) \/ CleanupSession(now, s)
        PROVE  Backed(c)'
    BY <2>4, EndKeepsKeys, PointerBacked DEF EndSession, CleanupSession
  <2>5. QED
    BY <1>5, <2>1, <2>2, <2>3, <2>4 DEF SessionStep
<1>6. CASE AudioStep(now)
  BY <1>6, AudioKeepsTables, SameBacked
<1>7. QED
  BY <1>1, <1>2, <1>3, <1>4, <1>5, <1>6, SnapshotBacked DEF StoreStep

\* Redemption, rotation, promotion, revocation, expiry and cleanup change a
\* credential row and the installation row that names it together.
THEOREM CredentialsStayBacked == Spec => []CredentialsBacked
<1>1. Init => CredentialsBacked
  BY DEF Init, NoCredential, CredentialsBacked, Usable
<1>2. TypeInv /\ CredentialsBacked /\ [StoreNext]_storeVars => CredentialsBacked'
  <2>1. ASSUME TypeInv, CredentialsBacked, StoreNext PROVE CredentialsBacked'
    BY <2>1, StepBacked DEF StoreNext, CredentialsBacked
  <2>2. ASSUME CredentialsBacked, UNCHANGED storeVars PROVE CredentialsBacked'
    BY <2>2, SameBacked DEF storeVars, rows, CredentialsBacked
  <2>3. QED
    BY <2>1, <2>2
<1>3. QED
  BY <1>1, <1>2, TypeInvariant, PTL DEF Spec

\* However rotations are begun, abandoned, expired and promoted, an installation
\* has one credential that authenticates and one that may be promoted, at most.
THEOREM CredentialRolesUnique == Spec => []OneCredentialPerRole
<1>1. CredentialsBacked => OneCredentialPerRole
  BY DEF CredentialsBacked, OneCredentialPerRole, Usable, Backed
<1>2. QED
  BY <1>1, CredentialsStayBacked, PTL

\* What an installation leaves when it is revoked or expires, by call, by sweep
\* or by snapshot: no usable credential, no live session, and audio grants only
\* of sessions that expired.
THEOREM DeadInstallationsHoldNothing == Spec => []DeadInstallationHoldsNothing
<1>1. ASSUME TypeInv, OpenFenced, CredentialsBacked, EndedSessionsHoldNoGrants,
             NEW i \in Installations,
             installation[i].status \in {"revoked", "expired", "deleted"}
      PROVE  /\ \A c \in Credentials : credential[c].installation = i =>
                  credential[c].status \notin {"current", "pending"}
             /\ \A s \in Sessions : session[s].installation = i => ~Live(s)
             /\ \A g \in grants : session[g.session].installation = i =>
                  session[g.session].status = "expired"
  <2>1. \A c \in Credentials : credential[c].installation = i =>
          credential[c].status \notin {"current", "pending"}
    BY <1>1 DEF CredentialsBacked, Usable, Backed
  <2>2. \A s \in Sessions : session[s].installation = i => ~Open(s)
    BY <1>1, OpenRefers
  <2>3. \A g \in grants : session[g.session].installation = i =>
          session[g.session].status = "expired"
    <3>1. \A s \in Sessions :
            session[s].status \in {"absent", "opening", "active", "ended",
                                   "expired", "revoked", "deleted"}
      BY <1>1 DEF TypeInv, TypeOK, SessionRow
    <3>2. QED
      BY <1>1, <2>2, <3>1, GrantsSession DEF EndedSessionsHoldNoGrants, Open
  <2>4. QED
    BY <2>1, <2>2, <2>3 DEF Open, Live
<1>2. TypeInv /\ OpenFenced /\ CredentialsBacked /\ EndedSessionsHoldNoGrants
        => DeadInstallationHoldsNothing
  BY <1>1 DEF DeadInstallationHoldsNothing
<1>3. QED
  BY <1>2, TypeInvariant, OpenSessionsFenced, CredentialsStayBacked,
     ClosedSessionsHoldNoGrants, PTL

\* Both at once, as the runs check them: while an installation lives each role
\* has one key, and when it is dead no key, session or grant is left.
THEOREM KeysStayWithInstallation == Spec => []KeysGoWithInstallation
BY CredentialRolesUnique, DeadInstallationsHoldNothing, PTL DEF KeysGoWithInstallation
==============================================================================
