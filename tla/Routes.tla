------------------------------- MODULE Routes --------------------------------
(***************************************************************************)
(* The gateway's routes that reach a service, a definition per controller, *)
(* and what the controllers of the services handle.  A route says who may  *)
(* pass its guard; parameters and answers are left out, and so are the     *)
(* stubs that answer by themselves (ping, change-role, stats/ping).        *)
(***************************************************************************)
EXTENDS FiniteSets

Roles == {"User", "Staff", "Manager"}

(* No guard, the guard of Auth(...), and OptionalAuthGuard.                *)
Open(service, ops) == [service : {service}, op : ops, guard : {"none"}, roles : {{}}]
Auth(service, ops, roles) == [service : {service}, op : ops, guard : {"auth"}, roles : {roles}]
Optional(service, ops) == [service : {service}, op : ops, guard : {"optional"}, roles : {Roles}]

AddressController == Open("search", {"getProvinces", "getDistricts", "getWards"})

AdminController == Auth("task", {"forceCopyPrimaryToBackup"}, {"Manager"})

AttributesController ==
  Open("search", {"getAttributes", "getAttributeById", "getAttributeByLabel"})
    \cup Auth("managements", {"createAttribute", "updateAttributeInfo", "deleteAttribute"}, {"Staff"})

SignUp == Open("auth", {"login", "checkEmail", "register", "verifyEmail", "resendVerifyEmailOtp"})
SignIn ==
  Open("auth", {"getNewToken", "forgotPassword", "verifyForgotPassword",
                "google", "googleAuth", "facebookAuth"})
    \cup Auth("auth", {"changePassword"}, Roles)
AuthController == SignUp \cup SignIn

CartsController == Auth("order", {"getCarts", "addCart", "deleteProductsCart"}, {"User"})

CategoriesController ==
  Open("search", {"getCategories", "getCategoryById", "getCategoryByLabel"})
    \cup Open("managements", {"createCategory"})
    \cup Auth("managements", {"updateCategory"}, {"Staff"})

DiscountsController == Open("managements", {"createDiscount"})

HealthController ==
  UNION {Open(service, {"isHealthy"}) : service \in
           {"auth", "communications", "managements", "order", "search", "task", "utility"}}

ReadImage == Open("managements", {"getImageByPublicId"})
UploadImages == Auth("managements", {"uploadSingleImage", "uploadArrayImage"}, Roles)
ImagesController == ReadImage \cup UploadImages

KpiController == Open("managements", {"createKpi", "getKpis", "getKpiById", "updateKpi"})

NotificationsController == Auth("communications", {"getUsersNotifications"}, Roles)

OrderManagementController ==
  Auth("managements", {"getOrders", "getOrder", "updateOrderStatus"}, {"Staff"})

OrdersController ==
  Auth("order", {"getUserOrders", "getUserOrderById", "reviewOrder", "createOrder",
                 "getPaymentUrl", "cancelUserOrder"}, {"User"})

PaymentsController == Open("order", {"vnpayIpnUrl"})

ProductsController ==
  Open("search", {"getProducts"}) \cup Optional("search", {"getProductById"})
    \cup Auth("managements", {"createProduct", "updateProductPutMethod", "deleteProduct",
                              "deleteProductVariation"}, {"Staff"})
    \cup Auth("managements", {"generateProducts"}, {"Manager"})

ProfileController ==
  Auth("search", {"getUserById"}, Roles)
    \cup Auth("managements", {"updateUserInfo", "updateUserAddress"}, Roles)

StatsController == Auth("managements", {"getStats", "getStatsOrders"}, {"Manager", "Staff"})

ReadUsers == Auth("search", {"getUsers"}, {"Manager"}) \cup Auth("search", {"getUserById"}, Roles)
ManageUsers == Auth("managements", {"createUser", "blockUser", "unblockUser", "generateUsers"}, {"Manager"})
UsersController == ReadUsers \cup ManageUsers

Routes ==
  UNION {AddressController, AdminController, AttributesController, AuthController, CartsController,
         CategoriesController, DiscountsController, HealthController, ImagesController, KpiController,
         NotificationsController, OrderManagementController, OrdersController, PaymentsController,
         ProductsController, ProfileController, StatsController, UsersController}

-----------------------------------------------------------------------------
(* The handlers of the services' controllers, the events among them.       *)
AuthHandlers ==
  {"isHealthy", "login", "checkEmail", "register", "verifyEmail", "getNewToken", "verifyJwt",
   "forgotPassword", "verifyForgotPassword", "google", "googleAuth", "facebookAuth",
   "resendVerifyEmailOtp", "changePassword"}

MailHandlers == {"sendMailConfirm", "sendMailForgotPassword"}
NotificationsHandlers == {"getUsersNotifications", "newOrderCreated", "orderStatusChanged"}
CommunicationsHandlers == {"isHealthy"} \cup MailHandlers \cup NotificationsHandlers

UsersHandlers ==
  {"createUser", "blockUser", "unblockUser", "changeRoleUser", "generateUsers", "updateUserInfo",
   "updateUserAddress"}
ProductsHandlers ==
  {"createProduct", "generateProducts", "updateProductPutMethod", "deleteProduct", "deleteProductVariation"}
OrdersMntHandlers == {"getOrders", "getOrder", "updateOrderStatus"}
KpiHandlers == {"createKpi", "getKpis", "updateKpi", "getKpiById"}
CategoriesHandlers == {"createCategory", "updateCategory"}
AttributesHandlers == {"createAttribute", "updateAttributeInfo", "deleteAttribute"}
StatsHandlers == {"getStats", "getStatsOrders"}
ImagesHandlers == {"getImages", "getImageByPublicId", "uploadSingleImage", "uploadArrayImage"}
DiscountsHandlers == {"createDiscount"}
ManagementsHandlers ==
  UNION {{"isHealthy"}, UsersHandlers, ProductsHandlers, OrdersMntHandlers, KpiHandlers,
         CategoriesHandlers, AttributesHandlers, StatsHandlers, ImagesHandlers, DiscountsHandlers}

CartsHandlers == {"getCarts", "addCart", "deleteProductsCart"}
CheckoutHandlers ==
  {"reviewOrder", "createOrder", "getUserOrders", "getUserOrderById", "vnpayIpnUrl", "vnpayReturnUrl",
   "getPaymentUrl", "cancelUserOrder"}
OrderHandlers == {"isHealthy"} \cup CartsHandlers \cup CheckoutHandlers

CatalogueHandlers ==
  {"getCategories", "getCategoryByLabel", "getCategoryById", "getAttributes", "getAttributeById",
   "getAttributeByLabel"}
ProductsSearchHandlers == {"getProducts", "getProductById"}
UsersSearchHandlers == {"getUsers", "getUserById"}
AddressHandlers == {"getProvinces", "getDistricts", "getWards"}
SearchHandlers ==
  UNION {{"getPing", "isHealthy"}, CatalogueHandlers, ProductsSearchHandlers, UsersSearchHandlers,
         AddressHandlers}

TaskHandlers == {"isHealthy", "forceCopyPrimaryToBackup"}
UtilityHandlers == {"isHealthy", "writeLogsToDiscord", "writeLogsToFile", "writeLogsBashToDiscord"}

Handlers ==
  [auth |-> AuthHandlers, communications |-> CommunicationsHandlers, managements |-> ManagementsHandlers,
   order |-> OrderHandlers, search |-> SearchHandlers, task |-> TaskHandlers, utility |-> UtilityHandlers]

(* Every handler acknowledges its message before it does anything, but for *)
(* three, which never do.                                                  *)
Unacknowledged == {"getPing", "getUserOrders", "getUserOrderById"}

NoRouteAstray == \A r \in Routes : r.op \in Handlers[r.service]
=============================================================================
