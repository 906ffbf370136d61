CONSTANTS
  Leader = Leader
  Workers = {w1, w2}
  Running = {Leader, w1}
  Nobody = Nobody
  NoMail = NoMail
  MaxTasks = 1
  MaxEvents = 4
  MaxPaneChanges = 1
SPECIFICATION Spec
INVARIANTS
  BoardMatchesHistory
  ReportTellsTheMoment
  ReporterOnceOwned
  MailNamesItsReport
PROPERTIES
  ClosedStaysClosed
  StrandedOnlyByLateAssignment
