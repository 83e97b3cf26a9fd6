\* Two channel users and one API client, three turns, histories of two messages.
CONSTANTS
  WechatUsers = {u}
  WeworkUsers = {v}
  Api = api
  Budget = 2
  ReplayCs = 3
  ReplayApi = 2
  MaxTurns = 3
SPECIFICATION ChatSpec
INVARIANTS HistoriesAreReal
PROPERTIES RepliedOrRefused
CHECK_DEADLOCK FALSE
